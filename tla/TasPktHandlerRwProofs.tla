------------------------- MODULE TasPktHandlerRwProofs -------------------------
(*****************************************************************************)
(* Proofs about TasPktHandlerRw, for every value of its constants: its types,*)
(* the inductive invariant IInv with its three parts (PktInv, on packets and *)
(* their limits; Follows, that the packets stand for the accesses; Tiles, that*)
(* the accesses tile the transactions), and the safety properties it implies.*)
(*****************************************************************************)
EXTENDS TasPktHandlerRw, Induction, SequenceTheorems, TLAPS

--------------------------------------------------------------------------------
(* Types: what each operator on requests returns.                             *)

LEMMA OpenPacketFields ==
    ASSUME NEW g \in Request
    PROVE  /\ g.cur \in OpenPacket
           /\ g.cur.rq \in Nat /\ g.cur.rsp \in Nat /\ g.cur.cmds \in Seq(Command)
           /\ g.cur.mPl2NumTrans \in Nat /\ g.cur.mPl0AddrMap \in AddrMapId
           /\ g.cur.mPl0AccMode \in Nat /\ g.cur.mPl0BaseAddr \in Nat
           /\ g.cur.mPl0AddrMapMask \in SUBSET AddrMapId
<1>1. g.cur \in OpenPacket
  BY SMT DEF Request
<1> QED BY <1>1, SMT DEF OpenPacket

LEMMA RequestFields ==
    ASSUME NEW g \in Request
    PROVE  /\ g.mRqBuf \in Seq(Packet)
           /\ g.rqDone \in Nat /\ g.rspDone \in Nat /\ g.mPl0NumTrans \in Nat
           /\ g.mPl1CntOutstandingLast \in UInt16
BY SMT DEF Request

LEMMA RequestOf ==
    ASSUME NEW buf \in Seq(Packet), NEW rq \in Nat, NEW rsp \in Nat, NEW num \in Nat,
           NEW cnt \in UInt16, NEW cur \in OpenPacket
    PROVE  [mRqBuf |-> buf, rqDone |-> rq, rspDone |-> rsp, mPl0NumTrans |-> num,
            mPl1CntOutstandingLast |-> cnt, cur |-> cur] \in Request
BY SMT DEF Request

LEMMA Inc16Type == ASSUME NEW c \in UInt16 PROVE Inc16(c) \in UInt16
BY SMT DEF Inc16, UInt16

LEMMA ClosedType == ASSUME NEW g \in Request PROVE Closed(g) \in Packet
<1>1. /\ g.cur.rq + Pl1RqEnd \in Nat
      /\ g.cur.rsp + Pl1RspEnd \in Nat
      /\ Inc16(g.mPl1CntOutstandingLast) \in UInt16
  BY OpenPacketFields, RequestFields, Inc16Type, SMT DEF Pl1RqEnd, Pl1RspEnd
<1> QED
  BY <1>1, OpenPacketFields, RequestFields, SMT DEF Closed, Packet

\* Closing the packet under construction gives a request again.
LEMMA CloseType ==
    ASSUME NEW g \in Request, NEW next \in OpenPacket
    PROVE  ClosePkt(g, next) \in Request
<1>0. g.rqDone \in Nat /\ g.rspDone \in Nat /\ g.cur.rq \in Nat /\ g.cur.rsp \in Nat
  BY OpenPacketFields, RequestFields
<1>1. /\ g.rqDone + (g.cur.rq + Pl1RqEnd) \in Nat
      /\ g.rspDone + (g.cur.rsp + Pl1RspEnd) \in Nat
  BY <1>0, SMT DEF Pl1RqEnd, Pl1RspEnd
<1>2. Append(g.mRqBuf, Closed(g)) \in Seq(Packet)
  BY ClosedType, RequestFields, SMT
<1> QED
  BY <1>1, <1>2, RequestFields, Inc16Type, RequestOf DEF ClosePkt

LEMMA FreshType == mPl2PktInit \in OpenPacket /\ NoPkt \in OpenPacket
BY SMT DEF mPl2PktInit, NoPkt, OpenPacket, Pl2Header, Pl1RqStart, Pl1RspStart, AddrMapId

LEMMA FinalizeType ==
    ASSUME NEW g \in Request
    PROVE  mPktFinalize(g) \in Request
BY CloseType, FreshType DEF mPktFinalize

LEMMA FinalizeIfType ==
    ASSUME NEW g \in Request, NEW cond
    PROVE  FinalizeIf(cond, g) \in Request
BY FinalizeType DEF FinalizeIf

\* The settings in front of an access.
LEMMA SettingsType ==
    ASSUME NEW g \in Request, NEW a \in Nat, NEW acc \in Nat, NEW am \in AddrMapId
    PROVE  /\ BaseFor(g, a) \in Nat
           /\ mGetNumBytesAddrMapAccModeBaseAddr(g, am, acc, a) \in Nat
           /\ mGetNumBytesAddrMapAccModeBaseAddr(g, am, acc, a) <= 16
           /\ mPktAdd_SetAddrMapAccModeBaseAddr(g, am, acc, a) \in Seq(Command)
<1>0. AddrWindow \in Nat /\ AddrWindow > 0
  BY ArgumentAssumption
<1>1. g.cur.mPl0BaseAddr \in Nat
  BY OpenPacketFields
<1>2. BaseFor(g, a) \in Nat
  BY <1>0, <1>1, SMT DEF BaseFor
<1>3. /\ mGetNumBytesAddrMapAccModeBaseAddr(g, am, acc, a) \in Nat
      /\ mGetNumBytesAddrMapAccModeBaseAddr(g, am, acc, a) <= 16
  BY SMT DEF mGetNumBytesAddrMapAccModeBaseAddr, Pl0RqAddrMap, Pl0RqAccMode,
             Pl0RqBase32, Pl0RqBase64
<1>4. /\ Cmd("ADDR_MAP", am, 0) \in Command
      /\ Cmd("ACCESS_MODE", acc, 0) \in Command
      /\ \A w \in {0, 1} : Cmd("BASE_ADDR", BaseFor(g, a), w) \in Command
  BY <1>2, SMT DEF Cmd, Command, AddrMapId
<1>5. mPktAdd_SetAddrMapAccModeBaseAddr(g, am, acc, a) \in Seq(Command)
  <2> DEFINE s1 == IF am  = g.cur.mPl0AddrMap THEN <<>> ELSE <<Cmd("ADDR_MAP", am, 0)>>
             s2 == IF acc = g.cur.mPl0AccMode THEN <<>> ELSE <<Cmd("ACCESS_MODE", acc, 0)>>
             s3 == IF InWindow(g, a) THEN <<>>
                   ELSE <<Cmd("BASE_ADDR", BaseFor(g, a), IF a < Addr4G THEN 0 ELSE 1)>>
  <2>1. s1 \in Seq(Command) /\ s2 \in Seq(Command) /\ s3 \in Seq(Command)
    BY <1>4, SMT
  <2>2. mPktAdd_SetAddrMapAccModeBaseAddr(g, am, acc, a) = s1 \o s2 \o s3
    BY DEF mPktAdd_SetAddrMapAccModeBaseAddr
  <2> HIDE DEF s1, s2, s3
  <2> QED BY <2>1, <2>2, SMT
<1> QED BY <1>2, <1>3, <1>5

LEMMA EmitType ==
    ASSUME NEW g \in Request, NEW a \in Nat, NEW acc \in Nat, NEW am \in AddrMapId,
           NEW cmd \in Command, NEW rq \in Nat, NEW rsp \in Nat
    PROVE  Emit(g, a, acc, am, cmd, rq, rsp) \in Request
<1> DEFINE set  == mPktAdd_SetAddrMapAccModeBaseAddr(g, am, acc, a)
           cmds == Append(g.cur.cmds \o set, cmd)
           size == g.cur.rq + mGetNumBytesAddrMapAccModeBaseAddr(g, am, acc, a) + rq
           base == BaseFor(g, a)
           cur == [rq |-> size, rsp |-> g.cur.rsp + rsp, cmds |-> cmds,
                   mPl2NumTrans |-> g.cur.mPl2NumTrans + 1, mPl0AddrMap |-> am,
                   mPl0AccMode |-> acc, mPl0BaseAddr |-> base,
                   mPl0AddrMapMask |-> g.cur.mPl0AddrMapMask \cup {am}]
<1>1. set \in Seq(Command) /\ base \in Nat
  BY SettingsType
<1>2. cmds \in Seq(Command)
  <2> HIDE DEF set
  <2>1. g.cur.cmds \in Seq(Command)
    BY OpenPacketFields
  <2> QED BY <1>1, <2>1, SMT
<1>3. size \in Nat
  <2>1. /\ g.cur.rq \in Nat
        /\ mGetNumBytesAddrMapAccModeBaseAddr(g, am, acc, a) \in Nat
    BY OpenPacketFields, SettingsType
  <2> QED BY <2>1, SMT
<1> HIDE DEF cmds, size, base
<1>4. cur \in OpenPacket
  BY <1>1, <1>2, <1>3, OpenPacketFields, SMT DEF OpenPacket
<1>5. Emit(g, a, acc, am, cmd, rq, rsp) =
        [mRqBuf |-> g.mRqBuf, rqDone |-> g.rqDone, rspDone |-> g.rspDone,
         mPl1CntOutstandingLast |-> g.mPl1CntOutstandingLast,
         mPl0NumTrans |-> g.mPl0NumTrans + 1, cur |-> cur]
  BY DEF Emit, cmds, size, base
<1> HIDE DEF cur
<1> QED
  BY <1>4, <1>5, RequestFields, SMT DEF Request

LEMMA PktAddType ==
    ASSUME NEW g \in Request, NEW a \in Nat, NEW acc \in Nat, NEW am \in AddrMapId,
           NEW needRq, NEW needRsp, NEW cmd \in Command, NEW rq \in Nat, NEW rsp \in Nat
    PROVE  PktAdd(g, a, acc, am, needRq, needRsp, cmd, rq, rsp) \in Request
BY FinalizeIfType, EmitType DEF PktAdd, mPktFinalizeIfNeeded

LEMMA EmptyRequestType ==
    ASSUME NEW cnt \in UInt16
    PROVE  EmptyRequest(cnt) \in Request
<1>1. <<>> \in Seq(Packet) /\ 0 \in Nat
  BY SMT
<1> QED
  BY <1>1, FreshType, RequestOf DEF EmptyRequest

--------------------------------------------------------------------------------
(* How much one access transfers.                                             *)

LEMMA Floor8Fact ==
    ASSUME NEW n \in Nat
    PROVE  Floor8(n) \in Nat /\ Floor8(n) <= n /\ n < Floor8(n) + 8 /\ Floor8(n) % 8 = 0
BY SMT DEF Floor8

LEMMA MinOfFact ==
    ASSUME NEW x \in Nat, NEW y \in Nat
    PROVE  MinOf(x, y) \in Nat /\ MinOf(x, y) <= x /\ MinOf(x, y) <= y
BY SMT DEF MinOf

LEMMA PktRspMax == MaxPktRsp \in Nat /\ MaxPktRsp >= 128 /\ MaxPktRsp <= MaxPl2Rsp
BY ConInfoAssumption, BufferAssumption, SMT DEF MaxPktRsp, MinOf

\* Only a packet with a block may be larger than the server takes.
LEMMA PktRqMax ==
    ASSUME NEW cmds
    PROVE  /\ MaxPktRq(cmds) \in Nat /\ MaxPktRq(cmds) >= MaxPl2Rq
           /\ HasBlock(cmds) => MaxPktRq(cmds) = MaxPl2Rq + 12
<1>1. CASE HasBlock(cmds)
  <2>1. MaxPktRq(cmds) = MaxPl2Rq + BlockExcess
    BY <1>1 DEF MaxPktRq
  <2> QED BY <2>1, ConInfoAssumption, SMT DEF BlockExcess
<1>2. CASE ~HasBlock(cmds)
  <2>1. MaxPktRq(cmds) = MaxPl2Rq
    BY <1>2 DEF MaxPktRq
  <2> QED BY <1>2, <2>1, ConInfoAssumption, SMT
<1> QED BY <1>1, <1>2

\* A block read fits into what is left of the response packet.
LEMMA RdBlockFact ==
    ASSUME NEW g, g \in Request, NEW n, n \in Nat
    PROVE  LET s == mGetRdDataBlkSizeInPktRsp(g, n)
           IN  /\ s \in Nat /\ s <= n /\ s <= 1024 /\ s % 8 = 0
               /\ s = 0 \/ g.cur.rsp + s + 8 <= MinOf(MaxPl2Rsp, MaxRspSize)
<1> DEFINE left == mGetRemainingSizeInPktRsp(g)
           max  == MinOf(MaxPl2Rsp, MaxRspSize)
           blk  == mMaxRdDataBlkSizeInPktRsp
           m    == MinOf(MinOf(n, left - 8), blk)
<1>1. g.cur.rsp \in Nat
  BY OpenPacketFields
<1>2. max \in Nat
  BY ConInfoAssumption, BufferAssumption, MinOfFact
<1>3. left \in Nat /\ (left > 0 => g.cur.rsp + left = max)
  <2> HIDE DEF max
  <2>1. left = IF g.cur.rsp < max THEN max - g.cur.rsp ELSE 0
    BY DEF mGetRemainingSizeInPktRsp, max
  <2> QED BY <1>1, <1>2, <2>1, SMT
<1>4. blk \in Nat /\ blk <= 1024
  BY ConInfoAssumption, SMT DEF mMaxRdDataBlkSizeInPktRsp, MinOf, DataBlkSize
<1>5. mGetRdDataBlkSizeInPktRsp(g, n) = IF 8 >= left THEN 0 ELSE Floor8(m)
  BY SMT DEF mGetRdDataBlkSizeInPktRsp, Pl0RspRd, Pl1RspEnd
<1> HIDE DEF left, max, blk
<1>6. CASE 8 >= left
  BY <1>5, <1>6, SMT
<1>7. CASE ~(8 >= left)
  <2>1. left - 8 \in Nat
    BY <1>3, <1>7, SMT
  <2>2. m \in Nat /\ m <= n /\ m <= left - 8 /\ m <= 1024
    BY <1>4, <2>1, SMT DEF MinOf
  <2> HIDE DEF m
  <2>3. Floor8(m) \in Nat /\ Floor8(m) <= m /\ Floor8(m) % 8 = 0
    BY <2>2, Floor8Fact
  <2>4. g.cur.rsp + Floor8(m) + 8 <= max
    BY <1>1, <1>2, <1>3, <1>7, <2>2, <2>3, SMT
  <2>5. Floor8(m) <= n /\ Floor8(m) <= 1024
    BY <2>2, <2>3, SMT
  <2> QED BY <1>5, <1>7, <2>3, <2>4, <2>5 DEF max
<1> QED BY <1>6, <1>7

LEMMA WrBlockFact ==
    ASSUME NEW g, g \in Request, NEW n, n \in Nat, NEW a, a \in Nat
    PROVE  LET s == mGetWrDataBlkSizeInPktRq(g, n, a)
           IN  s \in Nat /\ s <= n /\ s <= 1024 /\ s % 8 = 0 /\ s <= MaxPl2Rq - 24
<1> DEFINE left == mGetRemainingSizeInPktRq(g)
           max  == MinOf(MaxPl2Rq, MaxRqSize)
           room == IF a >= Addr4G THEN Sub32(left - 8, 8) ELSE left - 8
           blk  == mMaxWrDataBlkSizeInPktRq
           m    == MinOf(MinOf(n, room), blk)
<1>1. g.cur.rq \in Nat
  BY OpenPacketFields
<1>2. max \in Nat
  BY ConInfoAssumption, BufferAssumption, MinOfFact
<1>3. left \in Nat
  <2> HIDE DEF max
  <2>1. left = IF g.cur.rq < max THEN max - g.cur.rq ELSE 0
    BY DEF mGetRemainingSizeInPktRq, max
  <2> QED BY <1>1, <1>2, <2>1, SMT
<1>4. blk \in Nat /\ blk <= 1024 /\ blk <= MaxPl2Rq - 24
  BY ConInfoAssumption, SMT DEF mMaxWrDataBlkSizeInPktRq, MinOf, DataBlkSize
<1>5. mGetWrDataBlkSizeInPktRq(g, n, a) = IF 8 >= left THEN 0 ELSE Floor8(m)
  BY SMT DEF mGetWrDataBlkSizeInPktRq, Pl0RqWrBlk, Pl1RqEnd, Pl0RqBase64
<1> HIDE DEF left, max, blk
<1>6. CASE 8 >= left
  BY <1>5, <1>6, ConInfoAssumption, SMT
<1>7. CASE ~(8 >= left)
  <2>1. room \in Nat
    BY <1>3, <1>7, BufferAssumption, ConInfoAssumption, SMT DEF Sub32
  <2> HIDE DEF room
  <2>2. m \in Nat /\ m <= n /\ m <= 1024 /\ m <= blk
    BY <1>4, <2>1, SMT DEF MinOf
  <2> HIDE DEF m
  <2>3. Floor8(m) \in Nat /\ Floor8(m) <= m /\ Floor8(m) % 8 = 0
    BY <2>2, Floor8Fact
  <2>4. Floor8(m) <= n /\ Floor8(m) <= 1024 /\ Floor8(m) <= MaxPl2Rq - 24
    BY <1>4, <2>2, <2>3, ConInfoAssumption, SMT
  <2> QED BY <1>5, <1>7, <2>3, <2>4
<1> QED BY <1>6, <1>7

LEMMA OperationFields ==
    ASSUME NEW o \in Operation
    PROVE  /\ o.type \in {"RD", "WR", "FILL"} /\ o.addr \in Nat /\ o.num_bytes \in Nat
           /\ o.acc_mode \in Nat /\ o.addr_map \in AddrMapId /\ o.a \in Nat /\ o.nb \in Nat
BY SMT DEF Operation

\* No access goes beyond the bytes that are left, and those that are not
\* blocks or fills have 1, 2 or 4 bytes.
LEMMA PieceSizeFact ==
    ASSUME b \in Request, op \in Operation, op.nb > 0
    PROVE  /\ PieceSize \in Nat /\ PieceSize <= op.nb /\ PieceSize <= 1024
           /\ op.type = "FILL" => PieceSize > 0
           /\ PieceSize \in {1, 2, 4} \/ PieceSize % 8 = 0 \/ op.type = "FILL"
           /\ op.type = "RD" => \/ PieceSize <= 4
                                \/ b.cur.rsp + PieceSize + 8 <= MinOf(MaxPl2Rsp, MaxRspSize)
           /\ op.type = "WR" => PieceSize <= MaxPl2Rq - 24
<1> DEFINE rd == mGetRdDataBlkSizeInPktRsp(b, op.nb)
           wr == mGetWrDataBlkSizeInPktRq(b, op.nb, op.a)
           max == MinOf(MaxPl2Rsp, MaxRspSize)
<1>1. op.nb \in Nat /\ op.a \in Nat
  BY OperationFields
<1>2. rd \in Nat /\ rd <= op.nb /\ rd <= 1024 /\ rd % 8 = 0 /\ (rd = 0 \/ b.cur.rsp + rd + 8 <= max)
  BY <1>1, RdBlockFact
<1>3. wr \in Nat /\ wr <= op.nb /\ wr <= 1024 /\ wr % 8 = 0 /\ wr <= MaxPl2Rq - 24
  BY <1>1, WrBlockFact
<1>4. MinOf(op.nb, DataBlkSize) \in Nat /\ MinOf(op.nb, DataBlkSize) <= op.nb
      /\ MinOf(op.nb, DataBlkSize) <= 1024 /\ MinOf(op.nb, DataBlkSize) > 0
  BY <1>1, SMT DEF MinOf, DataBlkSize
<1> HIDE DEF rd, wr, max
<1>5. CASE op.type = "FILL"
  BY <1>4, <1>5 DEF PieceSize
<1>6. CASE op.type # "FILL"
  <2>1. PieceSize = IF op.a % 2 = 1 THEN 1
                    ELSE IF op.a % 4 = 2 /\ op.nb >= 2 THEN 2
                    ELSE IF op.a % 8 = 4 /\ op.nb >= 4 THEN 4
                    ELSE IF op.nb >= 8 THEN IF op.type = "RD" THEN rd ELSE wr
                    ELSE IF op.nb >= 4 THEN 4
                    ELSE IF op.nb >= 2 THEN 2
                    ELSE 1
    BY <1>6 DEF PieceSize, rd, wr
  <2>2. \/ PieceSize \in {1, 2, 4} /\ PieceSize <= op.nb
        \/ PieceSize = rd /\ op.type = "RD"
        \/ PieceSize = wr /\ op.type # "RD"
    BY <1>1, <2>1, SMT
  <2> DEFINE n == PieceSize
  <2> HIDE DEF n
  <2>3. CASE n \in {1, 2, 4} /\ n <= op.nb
    BY <1>6, <2>3, ConInfoAssumption, SMT DEF n
  <2>4. CASE n = rd /\ op.type = "RD"
    <3>1. n = 0 => n <= 4
      OBVIOUS
    <3> QED BY <1>2, <1>6, <2>4, <3>1 DEF n, max
  <2>5. CASE n = wr /\ op.type # "RD"
    BY <1>3, <1>6, <2>5 DEF n
  <2> QED BY <2>2, <2>3, <2>4, <2>5 DEF n
<1> QED BY <1>5, <1>6

--------------------------------------------------------------------------------
(* The type invariant.                                                        *)

LEMMA CmdType ==
    ASSUME NEW c \in {"ADDR_MAP", "ACCESS_MODE", "BASE_ADDR", "RD", "RDBLK", "WR", "WRBLK", "FILL"},
           NEW v \in Nat, NEW wl \in Nat
    PROVE  Cmd(c, v, wl) \in Command
BY SMT DEF Cmd, Command

\* The sizes the three mPktAdd_*() methods pass on.
LEMMA AccessSizes ==
    ASSUME NEW n \in Nat, NEW a \in Nat
    PROVE  /\ a % AddrWindow \in Nat /\ Wl(n) \in Nat
           /\ WordBytes(n) \in Nat /\ WordBytes(n) >= n /\ (n > 0 => WordBytes(n) >= 4)
           /\ n > 4 /\ n <= 8 => WordBytes(n) = 8
<1>1. AddrWindow \in Nat /\ AddrWindow > 0
  BY ArgumentAssumption
<1>2. a % AddrWindow \in Nat
  BY <1>1, SMT
<1> QED BY <1>2, SMT DEF Wl, WordBytes

LEMMA AddType ==
    ASSUME NEW g \in Request, NEW a \in Nat, NEW n \in Nat, NEW acc \in Nat, NEW am \in AddrMapId
    PROVE  /\ mPktAdd_Rd(g, a, n, acc, am) \in Request
           /\ mPktAdd_Wr(g, a, n, acc, am) \in Request
           /\ mPktAdd_Fill(g, a, n, acc, am) \in Request
<1> DEFINE off == a % AddrWindow
           wl  == Wl(n)
<1>1. off \in Nat /\ wl \in Nat
  BY AccessSizes
<1> HIDE DEF off, wl
<1>2. /\ (IF n <= 8 THEN Cmd("RD", off, n) ELSE Cmd("RDBLK", off, wl)) \in Command
      /\ (IF n <= 8 THEN Cmd("WR", off, n) ELSE Cmd("WRBLK", off, wl)) \in Command
      /\ Cmd("FILL", off, wl) \in Command
  BY <1>1, CmdType
<1>3. /\ (IF n <= 8 THEN Pl0RqRd ELSE Pl0RqRdBlk) \in Nat
      /\ Pl0RspRd + (IF n < 8 THEN 4 ELSE n) \in Nat
      /\ 4 + (IF n <= 4 THEN 4 ELSE IF n <= 8 THEN 8 ELSE n) \in Nat
      /\ Pl0RspWr \in Nat /\ Pl0RqFill \in Nat
  BY SMT DEF Pl0RqRd, Pl0RqRdBlk, Pl0RspRd, Pl0RspWr, Pl0RqFill
<1>4. mPktAdd_Rd(g, a, n, acc, am) \in Request
  BY <1>2, <1>3, PktAddType DEF mPktAdd_Rd, off, wl
<1>5. mPktAdd_Wr(g, a, n, acc, am) \in Request
  BY <1>2, <1>3, PktAddType DEF mPktAdd_Wr, off, wl
<1>6. mPktAdd_Fill(g, a, n, acc, am) \in Request
  BY <1>2, <1>3, PktAddType DEF mPktAdd_Fill, off, wl
<1> QED BY <1>4, <1>5, <1>6

LEMMA InitType == Init => TypeOK
<1> SUFFICES ASSUME Init PROVE TypeOK
  OBVIOUS
<1>1. PICK c \in Pl1Cnts : b = EmptyRequest(c) /\ mPl1CntOutstandingOldest = Inc16(c)
  BY DEF Init
<1>2. c \in UInt16
  BY ArgumentAssumption
<1>3. b \in Request /\ mPl1CntOutstandingOldest \in UInt16
  BY <1>1, <1>2, EmptyRequestType, Inc16Type
<1>4. NoOp \in Operation
  BY SMT DEF NoOp, Operation, AddrMapId
<1>5. mPl0Trans \in Seq(Pl0Trans) /\ mRwTrans \in Seq(Trans)
  BY SMT DEF Init
<1> QED BY <1>3, <1>4, <1>5 DEF Init, TypeOK

LEMMA RestartType ==
    ASSUME TypeOK, Restart
    PROVE  /\ b' \in Request /\ mPl0Trans' \in Seq(Pl0Trans) /\ mRwTrans' \in Seq(Trans)
           /\ mPl1CntOutstandingOldest' \in UInt16 /\ mGetPktRqWasCalled' \in BOOLEAN
<1>1. b.mPl1CntOutstandingLast \in UInt16
  BY RequestFields DEF TypeOK
<1>2. <<>> \in Seq(Pl0Trans) /\ <<>> \in Seq(Trans)
  BY SMT
<1> QED BY <1>1, <1>2, EmptyRequestType, Inc16Type DEF Restart

LEMMA RefuseType == ASSUME TypeOK, Refuse PROVE TypeOK'
BY RestartType DEF TypeOK, Refuse, transVars

\* A call that goes on to its accesses.
LEMMA BeginType ==
    ASSUME TypeOK, NEW type \in {"RD", "WR", "FILL"}, NEW g \in Request, NEW addr \in Nat,
           NEW n \in Nat, NEW acc \in Nat, NEW am \in AddrMapId, Begin(type, g, addr, n, acc, am)
    PROVE  TypeOK'
<1>1. op' \in Operation
  BY SMT DEF Begin, Operation
<1> QED BY <1>1 DEF TypeOK, Begin, transVars

LEMMA AddedType ==
    ASSUME TypeOK, op.nb > 0, NEW g \in Request, NEW n \in Nat, n <= op.nb, Added(g, n), b' \in Request
    PROVE  TypeOK'
<1> DEFINE x == [type |-> op.type, addr |-> op.a, num_bytes |-> n,
                 acc_mode |-> g.cur.mPl0AccMode, addr_map |-> g.cur.mPl0AddrMap,
                 rw |-> Len(mRwTrans) + 1, pos |-> Len(g.cur.cmds)]
           t == [type |-> op.type, addr |-> op.addr, num_bytes |-> op.num_bytes,
                 acc_mode |-> g.cur.mPl0AccMode, addr_map |-> g.cur.mPl0AddrMap]
<1>1. /\ op.type \in {"RD", "WR", "FILL"} /\ op.addr \in Nat /\ op.num_bytes \in Nat
      /\ op.a \in Nat /\ op.nb \in Nat
  BY OperationFields DEF TypeOK
<1>2. g.cur.mPl0AccMode \in Nat /\ g.cur.mPl0AddrMap \in AddrMapId /\ g.cur.cmds \in Seq(Command)
  BY OpenPacketFields
<1>3. mPl0Trans \in Seq(Pl0Trans) /\ mRwTrans \in Seq(Trans) /\ op \in Operation
  BY DEF TypeOK
<1>4. Len(mRwTrans) + 1 \in Nat /\ Len(g.cur.cmds) \in Nat
  BY <1>2, <1>3, SMT
<1>5. x \in Pl0Trans
  BY <1>1, <1>2, <1>4, SMT DEF Pl0Trans
<1>6. t \in Trans
  BY <1>1, <1>2, SMT DEF Trans
<1> HIDE DEF x, t
<1>7. /\ mPl0Trans' = IF n = 0 THEN mPl0Trans ELSE Append(mPl0Trans, x)
      /\ mRwTrans' = IF op.nb > n THEN mRwTrans ELSE Append(mRwTrans, t)
      /\ op' = [op EXCEPT !.a = @ + n, !.nb = @ - n]
      /\ UNCHANGED <<mPl1CntOutstandingOldest, mGetPktRqWasCalled, mode, starts>>
  BY DEF Added, x, t
<1>8. mPl0Trans' \in Seq(Pl0Trans)
  BY <1>3, <1>5, <1>7, SMT
<1>9. mRwTrans' \in Seq(Trans)
  BY <1>3, <1>6, <1>7, SMT
<1>10. op.a + n \in Nat /\ op.nb - n \in Nat
  BY <1>1, SMT
<1>11. op' \in Operation
  BY <1>3, <1>7, <1>10, Zenon DEF Operation
<1> QED BY <1>7, <1>8, <1>9, <1>11 DEF TypeOK

\* The arguments the caller passes.
LEMMA ArgumentTypes ==
    ASSUME NEW addr \in Addrs, NEW n \in Sizes, NEW acc \in AccModes, NEW am \in AddrMaps
    PROVE  /\ addr \in Nat /\ n \in Nat /\ acc \in Nat
           /\ am >= AM12 \/ am < AM12
           /\ am < AM12 => am \in AddrMapId
           /\ ~(AddrMapOf(am) > AM15) => AddrMapOf(am) \in AddrMapId
<1>1. addr \in Nat /\ n \in Nat /\ acc \in Nat /\ am \in UInt8
  BY ArgumentAssumption
<1> QED BY <1>1, SMT DEF UInt8, AddrMapId, AddrMapOf, AM12, AM15, AM132

LEMMA CallType ==
    ASSUME TypeOK, NEW type \in {"RD", "WR", "FILL"}, NEW addr \in Addrs, NEW n \in Sizes,
           NEW acc \in AccModes, NEW map \in AddrMaps, NEW am,
           \/ am = AddrMapOf(map) /\ ~(AddrMapOf(map) > AM15)
           \/ am = map /\ map < AM12,
           \/ Refuse
           \/ \E c1, c2 : Begin(type, FinalizeIf(c1, FinalizeIf(c2, b)), addr, n, acc, am)
    PROVE  TypeOK'
<1>1. CASE Refuse
  BY <1>1, RefuseType
<1>2. ASSUME NEW c1, NEW c2, Begin(type, FinalizeIf(c1, FinalizeIf(c2, b)), addr, n, acc, am)
      PROVE  TypeOK'
  <2>1. FinalizeIf(c1, FinalizeIf(c2, b)) \in Request
    BY FinalizeIfType DEF TypeOK
  <2>2. addr \in Nat /\ n \in Nat /\ acc \in Nat /\ am \in AddrMapId
    <3>1. CASE am = AddrMapOf(map) /\ ~(AddrMapOf(map) > AM15)
      BY <3>1, ArgumentTypes
    <3>2. CASE am = map /\ map < AM12
      BY <3>2, ArgumentTypes
    <3> QED BY <3>1, <3>2
  <2> HIDE DEF TypeOK
  <2> QED BY <1>2, <2>1, <2>2, BeginType
<1> QED BY <1>1, <1>2

LEMMA TypeStep == TypeOK /\ [Next]_vars => TypeOK'
<1> SUFFICES ASSUME TypeOK, [Next]_vars PROVE TypeOK'
  OBVIOUS
<1> USE DEF TypeOK
<1>1. CASE rw_start
  BY <1>1, RestartType, SMT DEF rw_start
<1>2. ASSUME NEW addr \in Addrs, NEW n \in Sizes, NEW acc \in AccModes, NEW am \in AddrMaps,
             rw_add_rd(addr, n, acc, am)
      PROVE  TypeOK'
  <2>1. \/ Refuse
        \/ /\ ~(AddrMapOf(am) > AM15)
           /\ \E c1, c2 : Begin("RD", FinalizeIf(c1, FinalizeIf(c2, b)), addr, n, acc, AddrMapOf(am))
    BY <1>2 DEF rw_add_rd
  <2> QED BY <2>1, CallType, RefuseType
<1>3. ASSUME NEW addr \in Addrs, NEW n \in Sizes, NEW acc \in AccModes, NEW am \in AddrMaps,
             rw_add_wr(addr, n, acc, am)
      PROVE  TypeOK'
  <2>1. \/ Refuse
        \/ /\ ~(AddrMapOf(am) > AM15)
           /\ \E c1, c2 : Begin("WR", FinalizeIf(c1, FinalizeIf(c2, b)), addr, n, acc, AddrMapOf(am))
    BY <1>3 DEF rw_add_wr
  <2> QED BY <2>1, CallType, RefuseType
<1>4. ASSUME NEW addr \in Addrs, NEW n \in Sizes, NEW acc \in AccModes, NEW am \in AddrMaps,
             rw_add_fill(addr, n, acc, am)
      PROVE  TypeOK'
  <2>1. \/ Refuse
        \/ /\ am < AM12
           /\ \E c1, c2 : Begin("FILL", FinalizeIf(c1, FinalizeIf(c2, b)), addr, n, acc, am)
    <3>1. am >= AM12 \/ am < AM12
      BY ArgumentTypes
    <3> QED BY <1>4, <3>1 DEF rw_add_fill
  <2> QED BY <2>1, CallType, RefuseType
<1>5. CASE AddPiece
  <2>1. PieceSize \in Nat /\ PieceSize <= op.nb
    BY <1>5, PieceSizeFact DEF AddPiece, Busy
  <2>2. op.a \in Nat /\ op.acc_mode \in Nat /\ op.addr_map \in AddrMapId
    BY OperationFields
  <2>3. PICK b1 \in Request : b' \in Request /\ Added(b1, PieceSize)
    BY <1>5, <2>1, <2>2, AddType, FinalizeIfType DEF AddPiece
  <2> QED BY <1>5, <2>1, <2>3, AddedType DEF AddPiece, Busy
<1>6. CASE AddFill
  <2>1. PieceSize \in Nat /\ PieceSize <= op.nb
    BY <1>6, PieceSizeFact DEF AddFill, Busy
  <2>2. op.a \in Nat /\ op.acc_mode \in Nat /\ op.addr_map \in AddrMapId
    BY OperationFields
  <2>3. PICK b1 \in Request : b' \in Request /\ Added(b1, PieceSize)
    BY <1>6, <2>1, <2>2, AddType DEF AddFill
  <2> QED BY <1>6, <2>1, <2>3, AddedType DEF AddFill, Busy
<1>7. CASE rw_set_trans
  BY <1>7, RestartType, SMT DEF rw_set_trans
<1>8. CASE rw_set_trans_done
  BY <1>8 DEF rw_set_trans_done, transVars
<1>9. CASE rw_get_rq
  BY <1>9, CloseType, FreshType DEF rw_get_rq, transVars
<1>10. CASE UNCHANGED vars
  BY <1>10 DEF vars
<1> QED
  BY <1>1, <1>2, <1>3, <1>4, <1>5, <1>6, <1>7, <1>8, <1>9, <1>10 DEF Next

\* The members of CTasPktHandlerRw keep their types, whatever is added.
THEOREM TypeCorrect == Spec => []TypeOK
BY InitType, TypeStep, PTL DEF Spec

--------------------------------------------------------------------------------
(* Closing a packet.                                                          *)

LEMMA CountNext ==
    ASSUME NEW o \in Nat, NEW n \in Nat, NEW c, Inc16(c) = (o + n) % 65536
    PROVE  Inc16(Inc16(c)) = (o + (n + 1)) % 65536
BY SMT DEF Inc16

LEMMA CloseSent ==
    ASSUME NEW g, g \in Request, NEW next, NEW oldest, oldest \in UInt16,
           Sent(g, oldest), Room(g), Exclusive(g.cur.mPl0AddrMapMask)
    PROVE  Sent(ClosePkt(g, next), oldest)
<1> DEFINE h == ClosePkt(g, next)
           n == Len(g.mRqBuf)
           new == Closed(g)
<1>1. g.mRqBuf \in Seq(Packet) /\ n \in Nat
  BY RequestFields, SMT
<1>2. h.mRqBuf = Append(g.mRqBuf, new) /\ h.mPl1CntOutstandingLast = Inc16(g.mPl1CntOutstandingLast)
  BY DEF ClosePkt
<1>3. /\ Len(h.mRqBuf) = n + 1
      /\ h.mRqBuf[n + 1] = new
      /\ \A k \in 1..n : h.mRqBuf[k] = g.mRqBuf[k]
  <2> HIDE DEF new, h
  <2> QED BY <1>1, <1>2, SMT
<1>4. /\ Inc16(g.mPl1CntOutstandingLast) = (oldest + n) % 65536
      /\ \A k \in 1..n : /\ WithinLimits(g.mRqBuf[k])
                         /\ Exclusive(g.mRqBuf[k].addr_map_mask)
                         /\ g.mRqBuf[k].pl1_cnt = (oldest + (k - 1)) % 65536
  BY DEF Sent
<1>5. oldest \in Nat
  BY SMT DEF UInt16
<1>6. Inc16(h.mPl1CntOutstandingLast) = (oldest + (n + 1)) % 65536
  BY <1>1, <1>2, <1>4, <1>5, CountNext
<1>7. WithinLimits(new) /\ Exclusive(new.addr_map_mask)
  BY DEF Room, WithinLimits, Closed
<1>8. new.pl1_cnt = (oldest + ((n + 1) - 1)) % 65536
  <2>1. new.pl1_cnt = (oldest + n) % 65536
    BY <1>4 DEF Closed
  <2>2. (n + 1) - 1 = n
    BY <1>1, SMT
  <2> QED BY <2>1, <2>2
<1> HIDE DEF n, h, new
<1>9. ASSUME NEW k \in 1..(n + 1)
      PROVE  /\ WithinLimits(h.mRqBuf[k])
             /\ Exclusive(h.mRqBuf[k].addr_map_mask)
             /\ h.mRqBuf[k].pl1_cnt = (oldest + (k - 1)) % 65536
  <2>1. k \in 1..n \/ k = n + 1
    BY <1>1, <1>9, SMT
  <2>2. CASE k \in 1..n
    BY <1>3, <1>4, <2>2
  <2>3. CASE k = n + 1
    BY <1>3, <1>7, <1>8, <2>3
  <2> QED BY <2>1, <2>2, <2>3
<1> QED
  BY <1>3, <1>6, <1>9 DEF Sent, h

LEMMA FreshRoom ==
    ASSUME NEW g, g.cur = mPl2PktInit
    PROVE  Room(g) /\ Exclusive(g.cur.mPl0AddrMapMask) /\ \A am : mCheckAddrMapRulesInPkt(g, am)
<1>1. Exclusive(g.cur.mPl0AddrMapMask) /\ \A am : mCheckAddrMapRulesInPkt(g, am)
  BY DEF mPl2PktInit, Exclusive, mCheckAddrMapRulesInPkt
<1>2. g.cur.rq = 12 /\ g.cur.rsp = 8 /\ g.cur.mPl2NumTrans = 0
  BY SMT DEF mPl2PktInit, Pl2Header, Pl1RqStart, Pl1RspStart
<1>3. Room(g)
  <2>1. MaxPktRq(g.cur.cmds) \in Nat /\ MaxPktRq(g.cur.cmds) >= MaxPl2Rq
    BY PktRqMax
  <2> QED BY <1>2, <2>1, ConInfoAssumption, PktRspMax, SMT DEF Room, Pl1RqEnd, Pl1RspEnd
<1> QED BY <1>1, <1>3

\* What a request keeps from step to step: it can be closed at any time.
Good(g, oldest) == Sent(g, oldest) /\ Room(g) /\ Exclusive(g.cur.mPl0AddrMapMask)

LEMMA FinalizeGood ==
    ASSUME NEW g, g \in Request, NEW oldest, oldest \in UInt16, Good(g, oldest)
    PROVE  Good(mPktFinalize(g), oldest) /\ \A am : mCheckAddrMapRulesInPkt(mPktFinalize(g), am)
<1>1. mPktFinalize(g).cur = mPl2PktInit
  BY DEF mPktFinalize, ClosePkt
<1>2. Sent(mPktFinalize(g), oldest)
  BY CloseSent DEF mPktFinalize, Good
<1> QED BY <1>1, <1>2, FreshRoom DEF Good

LEMMA FinalizeIfGood ==
    ASSUME NEW g, g \in Request, NEW oldest, oldest \in UInt16, Good(g, oldest), NEW cond
    PROVE  /\ Good(FinalizeIf(cond, g), oldest)
           /\ \A am : mCheckAddrMapRulesInPkt(g, am) => mCheckAddrMapRulesInPkt(FinalizeIf(cond, g), am)
           /\ cond => FinalizeIf(cond, g).cur = mPl2PktInit
           /\ ~cond => FinalizeIf(cond, g) = g
<1>1. CASE cond
  <2>1. FinalizeIf(cond, g) = mPktFinalize(g)
    BY <1>1 DEF FinalizeIf
  <2>2. mPktFinalize(g).cur = mPl2PktInit
    BY DEF mPktFinalize, ClosePkt
  <2> QED BY <1>1, <2>1, <2>2, FinalizeGood
<1>2. CASE ~cond
  BY <1>2 DEF FinalizeIf
<1> QED BY <1>1, <1>2

--------------------------------------------------------------------------------
(* Adding an access.                                                          *)

\* A packet found sufficient has that much room.
LEMMA Sufficient ==
    ASSUME NEW g, g \in Request, NEW needRq, needRq \in Nat, NEW needRsp, needRsp \in Nat,
           needRq > 0, needRsp > 0, mCheckRemainingPktSizeSufficient(g, needRq, needRsp)
    PROVE  g.cur.rq + needRq <= MaxPl2Rq /\ g.cur.rsp + needRsp <= MaxPktRsp
<1> DEFINE mq == MinOf(MaxPl2Rq, MaxRqSize)
           mr == MinOf(MaxPl2Rsp, MaxRspSize)
<1>1. g.cur.rq \in Nat /\ g.cur.rsp \in Nat
  BY OpenPacketFields
<1>2. mq \in Nat /\ mr \in Nat /\ mq <= MaxPl2Rq /\ mr <= MaxPktRsp
  BY ConInfoAssumption, BufferAssumption, PktRspMax, SMT DEF MinOf, MaxPktRsp
<1>3. /\ needRq  <= IF g.cur.rq < mq THEN mq - g.cur.rq ELSE 0
      /\ needRsp <= IF g.cur.rsp < mr THEN mr - g.cur.rsp ELSE 0
  BY DEF mCheckRemainingPktSizeSufficient, mGetRemainingSizeInPktRq, mGetRemainingSizeInPktRsp
<1> HIDE DEF mq, mr
<1> QED BY <1>1, <1>2, <1>3, ConInfoAssumption, PktRspMax, SMT

\* The access keeps the packet within its limits when it was found to have room
\* for it, or is a fresh packet. A block may take excess bytes more.
LEMMA EmitGood ==
    ASSUME NEW g, g \in Request, NEW oldest, Good(g, oldest),
           NEW a, a \in Nat, NEW acc, acc \in Nat, NEW am, am \in AddrMapId,
           NEW cmd, cmd \in Command, NEW rq, rq \in Nat, NEW rsp, rsp \in Nat, rsp > 0,
           g.cur.mPl2NumTrans < Pl0MaxNumRw,
           mCheckAddrMapRulesInPkt(g, am),
           g.cur.rsp + rsp + 4 <= MaxPktRsp,
           NEW excess \in 0..12, excess = 0 \/ cmd.cmd \in {"WRBLK", "FILL"},
           g.cur.rq + mGetNumBytesAddrMapAccModeBaseAddr(g, am, acc, a) + rq + 4 <= MaxPl2Rq + excess
    PROVE  /\ Good(Emit(g, a, acc, am, cmd, rq, rsp), oldest)
           /\ mCheckAddrMapRulesInPkt(Emit(g, a, acc, am, cmd, rq, rsp), am)
<1> DEFINE h == Emit(g, a, acc, am, cmd, rq, rsp)
           size == mGetNumBytesAddrMapAccModeBaseAddr(g, am, acc, a)
           set  == mPktAdd_SetAddrMapAccModeBaseAddr(g, am, acc, a)
           mask == g.cur.mPl0AddrMapMask
<1>1. /\ g.cur.rq \in Nat /\ g.cur.rsp \in Nat /\ g.cur.mPl2NumTrans \in Nat
      /\ g.cur.cmds \in Seq(Command) /\ mask \in SUBSET AddrMapId
  BY OpenPacketFields
<1>2. size \in Nat /\ set \in Seq(Command)
  BY SettingsType
<1>3. /\ h.mRqBuf = g.mRqBuf /\ h.mPl1CntOutstandingLast = g.mPl1CntOutstandingLast
      /\ h.cur.rq = g.cur.rq + size + rq
      /\ h.cur.rsp = g.cur.rsp + rsp
      /\ h.cur.cmds = Append(g.cur.cmds \o set, cmd)
      /\ h.cur.mPl2NumTrans = g.cur.mPl2NumTrans + 1
      /\ h.cur.mPl0AddrMapMask = mask \cup {am}
  BY DEF Emit
<1> HIDE DEF h, size, set, mask
<1>4. Sent(h, oldest)
  BY <1>3 DEF Sent, Good
<1>5. /\ g.cur.rq >= 12 /\ g.cur.rsp >= 8
  BY DEF Good, Room
<1>6. g.cur.rq + size + rq + 4 <= MaxPl2Rq + excess
  BY DEF size
<1>7. cmd.cmd \in {"WRBLK", "FILL"} => HasBlock(h.cur.cmds)
  <2> DEFINE c == g.cur.cmds \o set
  <2>1. c \in Seq(Command)
    BY <1>1, <1>2, SMT
  <2>2. h.cur.cmds = Append(c, cmd)
    BY <1>3
  <2> HIDE DEF c
  <2>3. Len(c) + 1 \in 1..Len(h.cur.cmds) /\ h.cur.cmds[Len(c) + 1] = cmd
    BY <2>1, <2>2, SMT
  <2> QED BY <2>3 DEF HasBlock
<1>8. Room(h)
  <2>1. /\ h.cur.rq >= 12 /\ h.cur.rsp >= 8
        /\ h.cur.mPl2NumTrans <= Pl0MaxNumRw
        /\ h.cur.mPl2NumTrans # 0
        /\ h.cur.rsp + 4 <= MaxPktRsp
    <3>1. /\ g.cur.rq \in Nat /\ g.cur.rsp \in Nat /\ g.cur.mPl2NumTrans \in Nat /\ size \in Nat
          /\ Pl0MaxNumRw \in Nat
      BY <1>1, <1>2, ConInfoAssumption
    <3>2. /\ h.cur.rq = g.cur.rq + size + rq
          /\ h.cur.rsp = g.cur.rsp + rsp
          /\ h.cur.mPl2NumTrans = g.cur.mPl2NumTrans + 1
      BY <1>3
    <3> QED BY <1>5, <3>1, <3>2, SMT
  <2>2. h.cur.rq + 4 <= MaxPktRq(h.cur.cmds)
    <3> DEFINE max == MaxPktRq(h.cur.cmds)
    <3>1. max \in Nat /\ max >= MaxPl2Rq /\ (excess = 0 \/ max = MaxPl2Rq + 12)
      BY <1>7, PktRqMax
    <3>2. h.cur.rq + 4 <= MaxPl2Rq + excess
      BY <1>3, <1>6
    <3>3. h.cur.rq \in Nat
      <4>1. g.cur.rq \in Nat /\ size \in Nat
        BY <1>1, <1>2
      <4>2. h.cur.rq = g.cur.rq + size + rq
        BY <1>3
      <4> QED BY <4>1, <4>2, SMT
    <3> HIDE DEF max
    <3>4. h.cur.rq + 4 <= max
      BY <3>1, <3>2, <3>3, ConInfoAssumption, SMT
    <3> QED BY <3>4 DEF max
  <2> QED BY <2>1, <2>2 DEF Room, Pl1RqEnd, Pl1RspEnd
<1>9. Exclusive(mask \cup {am}) /\ mCheckAddrMapRulesInPkt(h, am)
  <2>1. am \in Nat /\ \A m \in mask : m \in Nat
    BY <1>1, SMT DEF AddrMapId
  <2>2. \/ mask = {} \/ mask = {am}
        \/ am < AM12 /\ \A m \in mask : m < AM12
    BY DEF mCheckAddrMapRulesInPkt, mask
  <2>3. CASE mask = {} \/ mask = {am}
    <3>1. mask \cup {am} = {am}
      BY <2>3
    <3> QED BY <1>3, <3>1 DEF Exclusive, mCheckAddrMapRulesInPkt
  <2>4. CASE am < AM12 /\ \A m \in mask : m < AM12
    <3>1. \A m \in mask \cup {am} : m < AM12 /\ ~(m >= AM12)
      BY <2>1, <2>4, SMT DEF AM12
    <3> QED BY <1>3, <2>4, <3>1 DEF Exclusive, mCheckAddrMapRulesInPkt
  <2> QED BY <2>2, <2>3, <2>4
<1> QED BY <1>3, <1>4, <1>8, <1>9 DEF Good, h

\* The part common to the mPktAdd_*() methods: what is reserved for an access
\* covers the access and the end of the packet.
LEMMA PktAddGood ==
    ASSUME NEW g, g \in Request, NEW oldest, oldest \in UInt16, Good(g, oldest),
           NEW a, a \in Nat, NEW acc, acc \in Nat, NEW am, am \in AddrMapId,
           mCheckAddrMapRulesInPkt(g, am),
           NEW needRq, needRq \in Nat, needRq > 0, NEW needRsp, needRsp \in Nat,
           NEW cmd, cmd \in Command, NEW rq, rq \in Nat, NEW rsp, rsp \in Nat, rsp > 0,
           rsp + 4 <= needRsp, rsp + 12 <= MaxPktRsp,
           NEW excess \in 0..12, excess = 0 \/ cmd.cmd \in {"WRBLK", "FILL"},
           rq + 4 <= needRq + excess, rq + 32 <= MaxPl2Rq + excess
    PROVE  LET h == PktAdd(g, a, acc, am, needRq, needRsp, cmd, rq, rsp)
           IN  Good(h, oldest) /\ mCheckAddrMapRulesInPkt(h, am)
<1> DEFINE full == g.cur.mPl2NumTrans >= Pl0MaxNumRw
           g1   == FinalizeIf(full, g)
           need == mGetNumBytesAddrMapAccModeBaseAddr(g1, am, acc, a) + needRq
           over == ~mCheckRemainingPktSizeSufficient(g1, need, needRsp)
           g2   == FinalizeIf(over, g1)
           size == mGetNumBytesAddrMapAccModeBaseAddr(g2, am, acc, a)
<1>1. PktAdd(g, a, acc, am, needRq, needRsp, cmd, rq, rsp) = Emit(g2, a, acc, am, cmd, rq, rsp)
  BY DEF PktAdd, mPktFinalizeIfNeeded
<1>2. mPl2PktInit.rq = 12 /\ mPl2PktInit.rsp = 8 /\ mPl2PktInit.mPl2NumTrans = 0
  BY SMT DEF mPl2PktInit, Pl2Header, Pl1RqStart, Pl1RspStart
<1>3. g1 \in Request /\ g2 \in Request
  BY FinalizeIfType
<1>4. Good(g1, oldest) /\ mCheckAddrMapRulesInPkt(g1, am)
  BY FinalizeIfGood
<1>5. g1.cur.mPl2NumTrans < Pl0MaxNumRw
  <2>1. CASE full
    <3>1. g1.cur = mPl2PktInit
      BY <2>1, FinalizeIfGood
    <3> QED BY <1>2, <3>1, ConInfoAssumption, SMT
  <2>2. CASE ~full
    <3>1. g1 = g /\ g.cur.mPl2NumTrans \in Nat
      BY <2>2, FinalizeIfGood, OpenPacketFields
    <3> HIDE DEF g1
    <3> QED BY <2>2, <3>1, ConInfoAssumption, SMT
  <2> QED BY <2>1, <2>2
<1>6. need \in Nat /\ need > 0
  <2>1. mGetNumBytesAddrMapAccModeBaseAddr(g1, am, acc, a) \in Nat
    BY <1>3, SettingsType
  <2> QED BY <2>1, SMT
<1> HIDE DEF g1
<1>7. Good(g2, oldest) /\ mCheckAddrMapRulesInPkt(g2, am)
  BY <1>3, <1>4, FinalizeIfGood
<1>8. CASE over
  <2>1. g2.cur = mPl2PktInit
    BY <1>3, <1>4, <1>8, FinalizeIfGood
  <2>2. size \in Nat /\ size <= 16
    BY <1>3, SettingsType
  <2> HIDE DEF size
  <2>3. /\ g2.cur.mPl2NumTrans < Pl0MaxNumRw
        /\ g2.cur.rsp + rsp + 4 <= MaxPktRsp
        /\ g2.cur.rq + size + rq + 4 <= MaxPl2Rq + excess
    <3>1. /\ g2.cur.rq = 12 /\ g2.cur.rsp = 8 /\ g2.cur.mPl2NumTrans = 0
          /\ MaxPl2Rq \in Nat /\ MaxPl2Rq >= 128 /\ MaxPktRsp \in Nat
          /\ Pl0MaxNumRw \in Nat /\ Pl0MaxNumRw >= 1
      BY <1>2, <2>1, ConInfoAssumption, PktRspMax
    <3> HIDE DEF g2
    <3> QED BY <2>2, <3>1, SMT
  <2> HIDE DEF g2
  <2>4. g2.cur.rq + mGetNumBytesAddrMapAccModeBaseAddr(g2, am, acc, a) + rq + 4 <= MaxPl2Rq + excess
    BY <2>3 DEF size
  <2>5. g2.cur.mPl2NumTrans < Pl0MaxNumRw /\ g2.cur.rsp + rsp + 4 <= MaxPktRsp
    BY <2>3
  <2>6. g2 \in Request
    BY <1>3
  <2>7. LET h == Emit(g2, a, acc, am, cmd, rq, rsp)
        IN  Good(h, oldest) /\ mCheckAddrMapRulesInPkt(h, am)
    BY <1>7, <2>4, <2>5, <2>6, EmitGood
  <2> QED BY <1>1, <2>7
<1>9. CASE ~over
  <2>1. g2 = g1
    BY <1>3, <1>4, <1>9, FinalizeIfGood
  <2>2. needRsp > 0
    BY SMT
  <2>3. g1.cur.rq + need <= MaxPl2Rq /\ g1.cur.rsp + needRsp <= MaxPktRsp
    BY <1>3, <1>6, <1>9, <2>2, Sufficient
  <2>4. g1.cur.rq \in Nat /\ g1.cur.rsp \in Nat /\ mGetNumBytesAddrMapAccModeBaseAddr(g1, am, acc, a) \in Nat
    BY <1>3, OpenPacketFields, SettingsType
  <2>5. /\ g1.cur.rsp + rsp + 4 <= MaxPktRsp
        /\ g1.cur.rq + mGetNumBytesAddrMapAccModeBaseAddr(g1, am, acc, a) + rq + 4 <= MaxPl2Rq + excess
    <3> DEFINE s1 == mGetNumBytesAddrMapAccModeBaseAddr(g1, am, acc, a)
               c1 == g1.cur.rq
    <3>1. c1 \in Nat /\ s1 \in Nat /\ g1.cur.rsp \in Nat
      BY <2>4
    <3>2. c1 + (s1 + needRq) <= MaxPl2Rq /\ g1.cur.rsp + needRsp <= MaxPktRsp
      BY <2>3
    <3>3. MaxPl2Rq \in Nat /\ MaxPktRsp \in Nat /\ excess \in Nat
      BY ConInfoAssumption, PktRspMax, SMT
    <3> HIDE DEF s1, c1
    <3>4. c1 + s1 + rq + 4 <= MaxPl2Rq + excess
      BY <3>1, <3>2, <3>3, SMT
    <3>5. g1.cur.rsp + rsp + 4 <= MaxPktRsp
      BY <3>1, <3>2, <3>3, SMT
    <3> QED BY <3>4, <3>5 DEF s1, c1
  <2> HIDE DEF g2, need, size, over, full
  <2>6. g1.cur.rsp + rsp + 4 <= MaxPktRsp
    BY <2>5
  <2>7. g1.cur.rq + mGetNumBytesAddrMapAccModeBaseAddr(g1, am, acc, a) + rq + 4 <= MaxPl2Rq + excess
    BY <2>5
  <2>8. g1 \in Request
    BY <1>3
  <2>9. LET h == Emit(g1, a, acc, am, cmd, rq, rsp)
        IN  Good(h, oldest) /\ mCheckAddrMapRulesInPkt(h, am)
    BY <1>4, <1>5, <2>6, <2>7, <2>8, EmitGood
  <2> QED BY <1>1, <2>1, <2>9
<1> QED BY <1>8, <1>9

LEMMA RdGood ==
    ASSUME NEW g, g \in Request, NEW oldest, oldest \in UInt16, Good(g, oldest),
           NEW a, a \in Nat, NEW n, n \in Nat, NEW acc, acc \in Nat, NEW am, am \in AddrMapId,
           mCheckAddrMapRulesInPkt(g, am), n + 16 <= MaxPktRsp
    PROVE  LET h == mPktAdd_Rd(g, a, n, acc, am)
           IN  Good(h, oldest) /\ mCheckAddrMapRulesInPkt(h, am)
<1> DEFINE cmd == IF n <= 8 THEN Cmd("RD", a % AddrWindow, n) ELSE Cmd("RDBLK", a % AddrWindow, Wl(n))
           rq  == IF n <= 8 THEN Pl0RqRd ELSE Pl0RqRdBlk
           rsp == Pl0RspRd + (IF n < 8 THEN 4 ELSE n)
           wb  == WordBytes(n)
           needRq  == Pl0RqRdBlk + Pl1RqEnd
           needRsp == Pl0RspRd + wb + Pl1RspEnd
<1>1. CASE n = 0
  BY <1>1 DEF mPktAdd_Rd
<1>2. CASE n # 0
  <2>1. cmd \in Command
    BY AccessSizes, CmdType
  <2>2. wb \in Nat /\ wb >= n /\ (n > 0 => wb >= 4)
    BY AccessSizes
  <2>3. MaxPktRsp \in Nat /\ MaxPktRsp >= 128
    BY ConInfoAssumption, PktRspMax
  <2> HIDE DEF wb
  <2>4. /\ needRq \in Nat /\ needRq > 0 /\ needRsp \in Nat
        /\ rq \in Nat /\ rq + 4 <= needRq + 0 /\ rq + 32 <= MaxPl2Rq + 0
        /\ rsp \in Nat /\ rsp > 0 /\ rsp + 4 <= needRsp /\ rsp + 12 <= MaxPktRsp
    BY <1>2, <2>2, <2>3, ConInfoAssumption, SMT DEF Pl0RqRd, Pl0RqRdBlk, Pl0RspRd, Pl1RqEnd, Pl1RspEnd
  <2>5. mPktAdd_Rd(g, a, n, acc, am) = PktAdd(g, a, acc, am, needRq, needRsp, cmd, rq, rsp)
    BY <1>2 DEF mPktAdd_Rd, wb
  <2> HIDE DEF cmd, rq, rsp, needRq, needRsp
  <2>6. LET h == PktAdd(g, a, acc, am, needRq, needRsp, cmd, rq, rsp)
        IN  Good(h, oldest) /\ mCheckAddrMapRulesInPkt(h, am)
    <3>1. 0 \in 0..12
      BY SMT
    <3> QED BY <2>1, <2>4, <3>1, PktAddGood
  <2> QED BY <2>5, <2>6
<1> QED BY <1>1, <1>2

LEMMA WrGood ==
    ASSUME NEW g, g \in Request, NEW oldest, oldest \in UInt16, Good(g, oldest),
           NEW a, a \in Nat, NEW n, n \in Nat, NEW acc, acc \in Nat, NEW am, am \in AddrMapId,
           mCheckAddrMapRulesInPkt(g, am), n <= MaxPl2Rq - 24
    PROVE  LET h == mPktAdd_Wr(g, a, n, acc, am)
           IN  Good(h, oldest) /\ mCheckAddrMapRulesInPkt(h, am)
<1> DEFINE cmd == IF n <= 8 THEN Cmd("WR", a % AddrWindow, n) ELSE Cmd("WRBLK", a % AddrWindow, Wl(n))
           rq  == 4 + (IF n <= 4 THEN 4 ELSE IF n <= 8 THEN 8 ELSE n)
           wb  == WordBytes(n)
           needRq  == Pl0RqWrBlk + wb + Pl1RqEnd
           needRsp == Pl0RspWr + Pl1RspEnd
           excess  == IF n <= 8 THEN 0 ELSE 12
<1>1. CASE n = 0
  BY <1>1 DEF mPktAdd_Wr
<1>2. CASE n # 0
  <2>1. cmd \in Command
    BY AccessSizes, CmdType
  <2>2. wb \in Nat /\ wb >= n /\ (n > 0 => wb >= 4) /\ (n > 4 /\ n <= 8 => wb = 8)
    BY AccessSizes
  <2>3. MaxPktRsp \in Nat /\ MaxPktRsp >= 128
    BY ConInfoAssumption, PktRspMax
  <2> HIDE DEF wb
  <2>4. /\ needRq \in Nat /\ needRq > 0 /\ needRsp \in Nat
        /\ rq \in Nat
        /\ excess \in 0..12 /\ rq + 4 <= needRq + excess /\ rq + 32 <= MaxPl2Rq + excess
        /\ Pl0RspWr \in Nat /\ Pl0RspWr > 0 /\ Pl0RspWr + 4 <= needRsp /\ Pl0RspWr + 12 <= MaxPktRsp
    BY <1>2, <2>2, <2>3, ConInfoAssumption, SMT DEF Pl0RqWrBlk, Pl0RspWr, Pl1RqEnd, Pl1RspEnd
  <2>5. excess = 0 \/ cmd.cmd \in {"WRBLK", "FILL"}
    BY DEF Cmd
  <2>6. mPktAdd_Wr(g, a, n, acc, am) = PktAdd(g, a, acc, am, needRq, needRsp, cmd, rq, Pl0RspWr)
    BY <1>2 DEF mPktAdd_Wr, wb
  <2> HIDE DEF cmd, rq, needRq, needRsp, excess
  <2>8. LET h == PktAdd(g, a, acc, am, needRq, needRsp, cmd, rq, Pl0RspWr)
        IN  Good(h, oldest) /\ mCheckAddrMapRulesInPkt(h, am)
    BY <2>1, <2>4, <2>5, PktAddGood
  <2> QED BY <2>6, <2>8
<1> QED BY <1>1, <1>2

LEMMA FillGood ==
    ASSUME NEW g, g \in Request, NEW oldest, oldest \in UInt16, Good(g, oldest),
           NEW a, a \in Nat, NEW n, n \in Nat, NEW acc, acc \in Nat, NEW am, am \in AddrMapId,
           mCheckAddrMapRulesInPkt(g, am)
    PROVE  LET h == mPktAdd_Fill(g, a, n, acc, am)
           IN  Good(h, oldest) /\ mCheckAddrMapRulesInPkt(h, am)
<1> DEFINE cmd == Cmd("FILL", a % AddrWindow, Wl(n))
           needRq  == Pl0RqWrBlk + 8 + Pl1RqEnd
           needRsp == Pl0RspWr + Pl1RspEnd
<1>1. cmd \in Command
  BY AccessSizes, CmdType
<1>2. /\ needRq \in Nat /\ needRq > 0 /\ needRsp \in Nat /\ Pl0RqFill \in Nat
      /\ Pl0RspWr \in Nat /\ Pl0RspWr > 0 /\ Pl0RspWr + 4 <= needRsp /\ Pl0RspWr + 12 <= MaxPktRsp
      /\ 12 \in 0..12 /\ Pl0RqFill + 4 <= needRq + 12 /\ Pl0RqFill + 32 <= MaxPl2Rq + 12
  BY ConInfoAssumption, PktRspMax, SMT DEF Pl0RqWrBlk, Pl0RqFill, Pl0RspWr, Pl1RqEnd, Pl1RspEnd
<1>3. cmd.cmd \in {"WRBLK", "FILL"}
  BY DEF Cmd
<1>4. mPktAdd_Fill(g, a, n, acc, am) = PktAdd(g, a, acc, am, needRq, needRsp, cmd, Pl0RqFill, Pl0RspWr)
  BY DEF mPktAdd_Fill
<1> HIDE DEF cmd, needRq, needRsp
<1>5. LET h == PktAdd(g, a, acc, am, needRq, needRsp, cmd, Pl0RqFill, Pl0RspWr)
      IN  Good(h, oldest) /\ mCheckAddrMapRulesInPkt(h, am)
  BY <1>1, <1>2, <1>3, PktAddGood
<1> QED BY <1>4, <1>5

--------------------------------------------------------------------------------
(* The invariant is kept by every step.                                       *)

LEMMA EmptyGood ==
    ASSUME NEW c, c \in UInt16
    PROVE  Good(EmptyRequest(c), Inc16(c))
<1>1. EmptyRequest(c).mRqBuf = <<>> /\ EmptyRequest(c).cur = mPl2PktInit
      /\ EmptyRequest(c).mPl1CntOutstandingLast = c
  BY DEF EmptyRequest
<1>2. Inc16(c) = (Inc16(c) + 0) % 65536 /\ Len(<<>>) = 0
  BY SMT DEF Inc16, UInt16
<1>3. Sent(EmptyRequest(c), Inc16(c))
  BY <1>1, <1>2, SMT DEF Sent
<1> QED BY <1>1, <1>3, FreshRoom DEF Good

LEMMA InitPktInv == Init => PktInv
<1> SUFFICES ASSUME Init PROVE PktInv
  OBVIOUS
<1>1. PICK c \in Pl1Cnts : b = EmptyRequest(c) /\ mPl1CntOutstandingOldest = Inc16(c)
  BY DEF Init
<1>2. Good(b, mPl1CntOutstandingOldest)
  BY <1>1, ArgumentAssumption, EmptyGood
<1>3. op.nb = 0
  BY DEF Init, NoOp
<1>4. ~(op.nb > 0)
  BY <1>3, SMT
<1> QED BY <1>2, <1>4, InitType DEF PktInv, Good

\* rw_start(), also inside rw_set_trans().
LEMMA RestartGood ==
    ASSUME PktInv, Restart, op.nb = 0, UNCHANGED op, TypeOK'
    PROVE  PktInv'
<1>1. b.mPl1CntOutstandingLast \in UInt16
  BY RequestFields DEF PktInv, TypeOK
<1>2. Good(b', mPl1CntOutstandingOldest')
  BY <1>1, EmptyGood DEF Restart
<1>3. ~(op'.nb > 0)
  BY SMT
<1> QED BY <1>2, <1>3 DEF PktInv, Good

LEMMA SameGood ==
    ASSUME PktInv, UNCHANGED <<b, op, mPl1CntOutstandingOldest, mGetPktRqWasCalled>>, TypeOK'
    PROVE  PktInv'
BY DEF PktInv

\* A call that goes on: the packet it starts in is closed, or open to its
\* address map.
LEMMA BeginGood ==
    ASSUME PktInv, CanAdd, TypeOK', NEW type, NEW addr, NEW n, NEW acc, NEW am, NEW c1, NEW c2,
           LET b1 == FinalizeIf(c1, b)
           IN  Begin(type, FinalizeIf(c2 \/ ~mCheckAddrMapRulesInPkt(b1, am), b1), addr, n, acc, am)
    PROVE  PktInv'
<1> DEFINE b1 == FinalizeIf(c1, b)
           cond == c2 \/ ~mCheckAddrMapRulesInPkt(b1, am)
           b2 == FinalizeIf(cond, b1)
           oldest == mPl1CntOutstandingOldest
<1>1. b \in Request /\ oldest \in UInt16 /\ Good(b, oldest) /\ ~mGetPktRqWasCalled
  BY DEF PktInv, TypeOK, Good, CanAdd
<1>2. b1 \in Request /\ Good(b1, oldest)
  BY <1>1, FinalizeIfType, FinalizeIfGood
<1>3. b' = b2 /\ op'.addr_map = am /\ UNCHANGED <<mPl1CntOutstandingOldest, mGetPktRqWasCalled>>
  BY DEF Begin
<1> HIDE DEF b1
<1>4. Good(b2, oldest)
  BY <1>1, <1>2, FinalizeIfGood
<1>5. mCheckAddrMapRulesInPkt(b2, am)
  <2>1. CASE cond
    <3>1. b2.cur = mPl2PktInit
      BY <1>1, <1>2, <2>1, FinalizeIfGood
    <3> QED BY <3>1, FreshRoom
  <2>2. CASE ~cond
    BY <1>1, <1>2, <2>2, FinalizeIfGood
  <2> QED BY <2>1, <2>2
<1> HIDE DEF b2
<1> QED BY <1>1, <1>3, <1>4, <1>5 DEF PktInv, Good

\* One turn of a running call.
LEMMA AddPieceGood ==
    ASSUME PktInv, AddPiece, TypeOK'
    PROVE  PktInv'
<1> DEFINE n  == PieceSize
           b1 == IF op.type = "RD" THEN mPktAdd_Rd(b, op.a, n, op.acc_mode, op.addr_map)
                 ELSE mPktAdd_Wr(b, op.a, n, op.acc_mode, op.addr_map)
           oldest == mPl1CntOutstandingOldest
<1>1. /\ b \in Request /\ oldest \in UInt16 /\ Good(b, oldest) /\ ~mGetPktRqWasCalled
      /\ mCheckAddrMapRulesInPkt(b, op.addr_map) /\ op \in Operation /\ op.nb > 0
  BY DEF PktInv, TypeOK, Good, AddPiece, Busy
<1>2. op.a \in Nat /\ op.acc_mode \in Nat /\ op.addr_map \in AddrMapId
  BY <1>1, OperationFields
<1>3. /\ n \in Nat
      /\ op.type = "RD" => n <= 4 \/ b.cur.rsp + n + 8 <= MinOf(MaxPl2Rsp, MaxRspSize)
      /\ op.type # "RD" => n <= MaxPl2Rq - 24
  <2>1. op.type # "RD" => op.type = "WR"
    BY <1>1, OperationFields DEF AddPiece
  <2> QED BY <1>1, <2>1, PieceSizeFact
<1> HIDE DEF n
<1>4. op.type = "RD" => n + 16 <= MaxPktRsp
  <2>1. MaxPktRsp \in Nat /\ MaxPktRsp >= 128 /\ MaxRspSize \in Nat
    BY ConInfoAssumption, BufferAssumption, PktRspMax
  <2>2. MinOf(MaxPl2Rsp, MaxRspSize) \in Nat /\ MinOf(MaxPl2Rsp, MaxRspSize) <= MaxPktRsp
    BY <2>1, PktRspMax DEF MaxPktRsp
  <2>3. b.cur.rsp \in Nat /\ b.cur.rsp >= 8
    BY <1>1, OpenPacketFields DEF Good, Room
  <2> QED BY <1>3, <2>1, <2>2, <2>3, SMT
<1>5. Good(b1, oldest) /\ mCheckAddrMapRulesInPkt(b1, op.addr_map)
  <2>1. CASE op.type = "RD"
    BY <1>1, <1>2, <1>3, <1>4, <2>1, RdGood
  <2>2. CASE op.type # "RD"
    BY <1>1, <1>2, <1>3, <2>2, WrGood
  <2> QED BY <2>1, <2>2
<1>6. b1 \in Request
  BY <1>1, <1>2, <1>3, AddType
<1>7. PICK full : b' = FinalizeIf(full, b1)
  BY DEF AddPiece, n
<1>8. op' = [op EXCEPT !.a = @ + n, !.nb = @ - n]
      /\ UNCHANGED <<mPl1CntOutstandingOldest, mGetPktRqWasCalled>>
  BY DEF AddPiece, Added, n
<1>9. op'.addr_map = op.addr_map
  BY <1>1, <1>8 DEF Operation
<1> HIDE DEF b1
<1>10. Good(b', oldest) /\ mCheckAddrMapRulesInPkt(b', op.addr_map)
  BY <1>1, <1>5, <1>6, <1>7, FinalizeIfGood
<1> QED BY <1>1, <1>8, <1>9, <1>10 DEF PktInv, Good

LEMMA AddFillGood ==
    ASSUME PktInv, AddFill, TypeOK'
    PROVE  PktInv'
<1> DEFINE n  == PieceSize
           oldest == mPl1CntOutstandingOldest
<1>1. /\ b \in Request /\ oldest \in UInt16 /\ Good(b, oldest) /\ ~mGetPktRqWasCalled
      /\ mCheckAddrMapRulesInPkt(b, op.addr_map) /\ op \in Operation /\ op.nb > 0
  BY DEF PktInv, TypeOK, Good, AddFill, Busy
<1>2. op.a \in Nat /\ op.acc_mode \in Nat /\ op.addr_map \in AddrMapId
  BY <1>1, OperationFields
<1>3. n \in Nat
  BY <1>1, PieceSizeFact
<1>4. /\ b' = mPktAdd_Fill(b, op.a, n, op.acc_mode, op.addr_map)
      /\ op' = [op EXCEPT !.a = @ + n, !.nb = @ - n]
      /\ UNCHANGED <<mPl1CntOutstandingOldest, mGetPktRqWasCalled>>
  BY DEF AddFill, Added
<1> HIDE DEF n
<1>5. Good(b', oldest) /\ mCheckAddrMapRulesInPkt(b', op.addr_map)
  BY <1>1, <1>2, <1>3, <1>4, FillGood
<1>6. op'.addr_map = op.addr_map
  BY <1>1, <1>4 DEF Operation
<1> QED BY <1>1, <1>4, <1>5, <1>6 DEF PktInv, Good

LEMMA GetRqGood ==
    ASSUME PktInv, rw_get_rq, TypeOK'
    PROVE  PktInv'
<1>1. /\ b \in Request /\ mPl1CntOutstandingOldest \in UInt16
      /\ Good(b, mPl1CntOutstandingOldest) /\ op.nb = 0
  BY DEF PktInv, TypeOK, Good, rw_get_rq, Idle
<1>2. Sent(b', mPl1CntOutstandingOldest)
  BY <1>1, CloseSent DEF rw_get_rq, Good
<1>3. b'.cur.mPl0AddrMapMask = {}
  BY DEF rw_get_rq, ClosePkt, NoPkt
<1>4. ~(op'.nb > 0) /\ mGetPktRqWasCalled' /\ UNCHANGED mPl1CntOutstandingOldest
  BY <1>1, SMT DEF rw_get_rq
<1> QED BY <1>2, <1>3, <1>4 DEF PktInv, Exclusive

LEMMA PktInvStep == PktInv /\ [Next]_vars => PktInv'
<1> SUFFICES ASSUME PktInv, [Next]_vars PROVE PktInv'
  OBVIOUS
<1>0. TypeOK'
  BY TypeStep DEF PktInv
<1>1. ASSUME Refuse, CanAdd PROVE PktInv'
  <2>1. op.nb = 0 /\ UNCHANGED op
    BY <1>1 DEF CanAdd, Idle, Refuse
  <2> QED BY <1>0, <1>1, <2>1, RestartGood, SameGood DEF Refuse
<1>2. CASE rw_start
  BY <1>0, <1>2, RestartGood DEF rw_start, Idle
<1>3. ASSUME NEW addr \in Addrs, NEW n \in Sizes, NEW acc \in AccModes, NEW am \in AddrMaps,
             rw_add_rd(addr, n, acc, am)
      PROVE  PktInv'
  BY <1>0, <1>1, <1>3, BeginGood DEF rw_add_rd
<1>4. ASSUME NEW addr \in Addrs, NEW n \in Sizes, NEW acc \in AccModes, NEW am \in AddrMaps,
             rw_add_wr(addr, n, acc, am)
      PROVE  PktInv'
  BY <1>0, <1>1, <1>4, BeginGood DEF rw_add_wr
<1>5. ASSUME NEW addr \in Addrs, NEW n \in Sizes, NEW acc \in AccModes, NEW am \in AddrMaps,
             rw_add_fill(addr, n, acc, am)
      PROVE  PktInv'
  BY <1>0, <1>1, <1>5, BeginGood DEF rw_add_fill
<1>6. CASE AddPiece
  BY <1>0, <1>6, AddPieceGood
<1>7. CASE AddFill
  BY <1>0, <1>7, AddFillGood
<1>8. CASE rw_set_trans
  BY <1>0, <1>8, RestartGood DEF rw_set_trans, Idle
<1>9. CASE rw_set_trans_done
  BY <1>0, <1>9, SameGood DEF rw_set_trans_done
<1>10. CASE rw_get_rq
  BY <1>0, <1>10, GetRqGood
<1>11. CASE UNCHANGED vars
  BY <1>0, <1>11, SameGood DEF vars
<1> QED
  BY <1>2, <1>3, <1>4, <1>5, <1>6, <1>7, <1>8, <1>9, <1>10, <1>11 DEF Next

--------------------------------------------------------------------------------
(* The accesses tile the transactions.                                        *)

\* What PieceSize cuts off is a naturally aligned access or a run of blocks.
LEMMA PieceAligned ==
    ASSUME b \in Request, op \in Operation, op.nb > 0, PieceSize > 0,
           op.type = "FILL" => op.a % 8 = 0 /\ op.nb % 8 = 0
    PROVE  /\ IF PieceSize <= 8 THEN tphrCheckIfNaturalAligned(op.a, PieceSize)
              ELSE op.a % 8 = 0 /\ PieceSize % 8 = 0 /\ PieceSize <= DataBlkSize
           /\ op.type = "FILL" => PieceSize % 8 = 0
<1> DEFINE rd == mGetRdDataBlkSizeInPktRsp(b, op.nb)
           wr == mGetWrDataBlkSizeInPktRq(b, op.nb, op.a)
           n  == PieceSize
           nb == op.nb
           a  == op.a
<1>1. nb \in Nat /\ a \in Nat
  BY OperationFields
<1>2. rd \in Nat /\ rd <= 1024 /\ rd % 8 = 0 /\ wr \in Nat /\ wr <= 1024 /\ wr % 8 = 0
  BY <1>1, RdBlockFact, WrBlockFact
<1>3. MinOf(nb, DataBlkSize) \in Nat /\ MinOf(nb, DataBlkSize) <= 1024
      /\ (nb % 8 = 0 => MinOf(nb, DataBlkSize) % 8 = 0)
  BY <1>1, SMT DEF MinOf, DataBlkSize
<1>4. CASE op.type = "FILL"
  <2>1. n = MinOf(nb, DataBlkSize)
    BY <1>4 DEF PieceSize
  <2>2. n \in Nat /\ n <= 1024 /\ n % 8 = 0 /\ n > 0 /\ a % 8 = 0
    BY <1>3, <1>4, <2>1
  <2> HIDE DEF n, a
  <2>3. n <= 8 => n = 8
    BY <2>2, SMT
  <2>4. n <= 8 => tphrCheckIfNaturalAligned(a, n)
    BY <2>2, <2>3, SMT DEF tphrCheckIfNaturalAligned
  <2> QED BY <2>2, <2>4 DEF n, a, DataBlkSize
<1>5. CASE op.type # "FILL"
  <2> HIDE DEF rd, wr
  <2>1. n = IF a % 2 = 1 THEN 1
            ELSE IF a % 4 = 2 /\ nb >= 2 THEN 2
            ELSE IF a % 8 = 4 /\ nb >= 4 THEN 4
            ELSE IF nb >= 8 THEN IF op.type = "RD" THEN rd ELSE wr
            ELSE IF nb >= 4 THEN 4
            ELSE IF nb >= 2 THEN 2
            ELSE 1
    BY <1>5 DEF PieceSize, rd, wr
  <2> DEFINE blk == IF op.type = "RD" THEN rd ELSE wr
  <2>2. blk \in Nat /\ blk <= 1024 /\ blk % 8 = 0
    BY <1>2
  <2>3. n = IF a % 2 = 1 THEN 1
            ELSE IF a % 4 = 2 /\ nb >= 2 THEN 2
            ELSE IF a % 8 = 4 /\ nb >= 4 THEN 4
            ELSE IF nb >= 8 THEN blk
            ELSE IF nb >= 4 THEN 4
            ELSE IF nb >= 2 THEN 2
            ELSE 1
    BY <2>1
  <2> HIDE DEF n, a, nb, blk
  <2>4. n > 0
    BY DEF n
  <2>5. \/ n = 1
        \/ n = 2 /\ a % 2 = 0
        \/ n = 4 /\ a % 4 = 0
        \/ n = blk /\ a % 8 = 0
    BY <1>1, <2>2, <2>3, SMT
  <2>6. IF n <= 8 THEN tphrCheckIfNaturalAligned(a, n)
        ELSE a % 8 = 0 /\ n % 8 = 0 /\ n <= DataBlkSize
    <3>1. CASE n = 1
      BY <1>1, <3>1, SMT DEF tphrCheckIfNaturalAligned
    <3>2. CASE n = 2 /\ a % 2 = 0
      BY <1>1, <3>2, SMT DEF tphrCheckIfNaturalAligned
    <3>3. CASE n = 4 /\ a % 4 = 0
      BY <1>1, <3>3, SMT DEF tphrCheckIfNaturalAligned
    <3>4. CASE n = blk /\ a % 8 = 0
      <4>1. n <= 8 => n = 8
        BY <2>2, <2>4, <3>4, SMT
      <4> QED BY <2>2, <3>4, <4>1, SMT DEF tphrCheckIfNaturalAligned, DataBlkSize
    <3> QED BY <2>5, <3>1, <3>2, <3>3, <3>4
  <2> QED BY <1>5, <2>6 DEF n, a
<1> QED BY <1>4, <1>5

LEMMA TransFields ==
    ASSUME NEW tr, tr \in Seq(Pl0Trans), NEW p, p \in 1..Len(tr)
    PROVE  tr[p] \in Pl0Trans /\ tr[p].addr \in Nat /\ tr[p].num_bytes \in Nat /\ tr[p].rw \in Nat
           /\ tr[p].pos \in Nat
<1>1. tr[p] \in Pl0Trans
  BY ElementOfSeq
<1> HIDE DEF Pl0Trans
<1>2. \A x : x \in Pl0Trans => x.addr \in Nat /\ x.num_bytes \in Nat /\ x.rw \in Nat /\ x.pos \in Nat
  BY SMT DEF Pl0Trans
<1> QED BY <1>1, <1>2

\* Tiling does not depend on what a call has not begun with.
LEMMA SameTiles ==
    ASSUME Tiles, UNCHANGED <<mPl0Trans, mRwTrans, op>>
    PROVE  Tiles'
BY DEF Tiles, AccessesTile, AccessesContinue, AccessesComplete, RwAt, LastIsOf

LEMMA NoTiles ==
    ASSUME mPl0Trans' = <<>>, mRwTrans' = <<>>, op'.nb = 0
    PROVE  Tiles'
<1>1. Len(mPl0Trans') = 0 /\ Len(mRwTrans') = 0
  BY EmptySeq
<1>2. ~(op'.nb > 0)
  BY SMT
<1>3. \A p : ~(p \in 1..0)
  BY SMT
<1> QED BY <1>1, <1>2, <1>3 DEF Tiles, AccessesTile, AccessesContinue, AccessesComplete, LastIsOf

\* A call begins with no access of its own transaction.
LEMMA BeginTiles ==
    ASSUME TypeOK, Tiles, op.nb = 0, NEW type, NEW g, NEW addr, addr \in Nat, NEW n, n \in Nat,
           NEW acc, NEW am, Begin(type, g, addr, n, acc, am),
           type = "FILL" => addr % 8 = 0 /\ n % 8 = 0
    PROVE  Tiles'
<1> DEFINE done == Len(mRwTrans)
           L == Len(mPl0Trans)
<1>1. mPl0Trans \in Seq(Pl0Trans) /\ mRwTrans \in Seq(Trans) /\ done \in Nat /\ L \in Nat
  BY LenProperties DEF TypeOK
<1>2. /\ mPl0Trans' = mPl0Trans /\ mRwTrans' = mRwTrans
      /\ op'.type = type /\ op'.addr = addr /\ op'.num_bytes = n /\ op'.a = addr /\ op'.nb = n
  BY DEF Begin, transVars
<1>3. \A p \in 1..L : mPl0Trans[p].rw \in 1..done
  <2>1. ~(op.nb > 0)
    BY SMT
  <2> QED BY <2>1 DEF Tiles
<1>4. AccessesContinue'
  <2> SUFFICES ASSUME NEW p \in 1..L
               PROVE  Continues(mPl0Trans, p, RwAt(mPl0Trans[p].rw)')
    BY <1>2 DEF AccessesContinue
  <2>1. Continues(mPl0Trans, p, RwAt(mPl0Trans[p].rw))
    BY DEF Tiles, AccessesTile, AccessesContinue
  <2>2. mPl0Trans[p].rw <= done
    BY <1>1, <1>3, SMT
  <2> QED BY <1>2, <2>1, <2>2 DEF RwAt
<1>5. AccessesComplete'
  BY <1>2 DEF Tiles, AccessesTile, AccessesComplete
<1>6. ~LastIsOf(done + 1)
  <2> SUFFICES ASSUME LastIsOf(done + 1) PROVE FALSE
    OBVIOUS
  <2>1. mPl0Trans # <<>> /\ mPl0Trans[L].rw = done + 1
    BY DEF LastIsOf
  <2>2. L \in 1..L
    BY <1>1, <2>1, EmptySeq, SMT
  <2> QED BY <1>1, <1>3, <2>1, <2>2, SMT
<1>7. \A p \in 1..L : mPl0Trans[p].rw \in 1..(IF op'.nb > 0 THEN done + 1 ELSE done)
  BY <1>1, <1>3, SMT
<1>8. \A t : LastIsOf(t)' <=> LastIsOf(t)
  BY <1>2 DEF LastIsOf
<1>9. op'.a + op'.nb = EndOf(op)'
  BY <1>2 DEF EndOf
<1>10. mPl0Trans' # <<>> => LastIsOf(done) \/ LastIsOf(done + 1)
  BY <1>2 DEF Tiles
<1>11. /\ op'.type = "FILL" => op'.a % 8 = 0 /\ op'.nb % 8 = 0
       /\ op'.a = op'.addr
  BY <1>2
<1> QED BY <1>2, <1>4, <1>5, <1>6, <1>7, <1>8, <1>9, <1>10, <1>11 DEF Tiles, AccessesTile

--------------------------------------------------------------------------------
LEMMA SameTrans ==
    ASSUME NEW p, NEW trans, NEW t, NEW u, Continues(trans, p, t),
           u.type = t.type, u.acc_mode = t.acc_mode, u.addr_map = t.addr_map, u.addr = t.addr
    PROVE  Continues(trans, p, u)
BY DEF Continues

\* One more access does not concern those before it.
LEMMA ContinuesBefore ==
    ASSUME NEW tr, tr \in Seq(Pl0Trans), NEW x, x \in Pl0Trans, NEW p, p \in 1..Len(tr), NEW t,
           Continues(tr, p, t)
    PROVE  Continues(Append(tr, x), p, t)
<1> DEFINE tr2 == Append(tr, x)
<1>1. tr2[p] = tr[p]
  BY AppendProperties
<1>2. p > 1 => tr2[p - 1] = tr[p - 1]
  <2>1. Len(tr) \in Nat
    BY LenProperties
  <2>2. p > 1 => p - 1 \in 1..Len(tr)
    BY <2>1, SMT
  <2> QED BY <2>2, AppendProperties
<1> HIDE DEF tr2
<1> QED BY <1>1, <1>2 DEF Continues, tr2

\* The access a step adds, which is the first of its transaction or goes on
\* where the one before has ended.
LEMMA ContinuesNext ==
    ASSUME NEW tr, tr \in Seq(Pl0Trans), NEW x, x \in Pl0Trans, NEW t,
           x.type = t.type, x.acc_mode = t.acc_mode, x.addr_map = t.addr_map, Aligned(x),
           x.addr = IF tr # <<>> /\ tr[Len(tr)].rw = x.rw THEN EndOf(tr[Len(tr)]) ELSE t.addr
    PROVE  Continues(Append(tr, x), Len(tr) + 1, t)
<1> DEFINE tr2 == Append(tr, x)
           L == Len(tr)
<1>1. L \in Nat /\ tr2[L + 1] = x /\ (tr # <<>> <=> L # 0) /\ (L + 1) - 1 = L
  BY LenProperties, AppendProperties, EmptySeq, SMT
<1>2. L + 1 > 1 <=> tr # <<>>
  BY <1>1, SMT
<1>3. tr # <<>> => tr2[L] = tr[L]
  <2>1. tr # <<>> => L \in 1..L
    BY <1>1, SMT
  <2> QED BY <2>1, AppendProperties
<1> HIDE DEF tr2, L
<1> QED BY <1>1, <1>2, <1>3 DEF Continues, tr2, L

LEMMA TransOfFields ==
    ASSUME NEW rt, rt \in Seq(Trans), NEW t, t \in 1..Len(rt)
    PROVE  rt[t] \in Trans /\ rt[t].addr \in Nat /\ rt[t].num_bytes \in Nat
<1>1. rt[t] \in Trans
  BY ElementOfSeq
<1> HIDE DEF Trans
<1>2. \A x : x \in Trans => x.addr \in Nat /\ x.num_bytes \in Nat
  BY SMT DEF Trans
<1> QED BY <1>1, <1>2

\* One step of a running call.
LEMMA AddedTiles ==
    ASSUME TypeOK, Tiles, op.nb > 0, NEW g, g \in Request, NEW n, n \in Nat, n > 0, n <= op.nb,
           Added(g, n), g.cur.mPl0AccMode = op.acc_mode, g.cur.mPl0AddrMap = op.addr_map,
           op.type = "FILL" => n % 8 = 0,
           IF n <= 8 THEN tphrCheckIfNaturalAligned(op.a, n)
           ELSE op.a % 8 = 0 /\ n % 8 = 0 /\ n <= DataBlkSize
    PROVE  Tiles'
<1>a. PICK tr : tr = mPl0Trans
  OBVIOUS
<1>b. PICK rt : rt = mRwTrans
  OBVIOUS
<1>c. PICK o : o = op
  OBVIOUS
<1> DEFINE done == Len(rt)
           L == Len(tr)
           x == [type |-> o.type, addr |-> o.a, num_bytes |-> n,
                 acc_mode |-> o.acc_mode, addr_map |-> o.addr_map,
                 rw |-> done + 1, pos |-> Len(g.cur.cmds)]
           t == [type |-> o.type, addr |-> o.addr, num_bytes |-> o.num_bytes,
                 acc_mode |-> o.acc_mode, addr_map |-> o.addr_map]
<1>1. tr \in Seq(Pl0Trans) /\ rt \in Seq(Trans) /\ done \in Nat /\ L \in Nat /\ o \in Operation
  BY <1>a, <1>b, <1>c, LenProperties DEF TypeOK
<1>2. /\ o.type \in {"RD", "WR", "FILL"} /\ o.addr \in Nat /\ o.num_bytes \in Nat
      /\ o.a \in Nat /\ o.nb \in Nat /\ o.acc_mode \in Nat /\ o.addr_map \in AddrMapId
  BY <1>1, OperationFields
<1>3. Len(g.cur.cmds) \in Nat
  BY OpenPacketFields, LenProperties
<1>4. o.nb > 0 /\ n <= o.nb /\ n # 0
  BY <1>c, SMT
<1>5. x \in Pl0Trans /\ t \in Trans
  BY <1>1, <1>2, <1>3, SMT DEF Pl0Trans, Trans
<1>6. /\ mPl0Trans' = Append(tr, x)
      /\ mRwTrans' = IF o.nb > n THEN rt ELSE Append(rt, t)
      /\ op' = [o EXCEPT !.a = @ + n, !.nb = @ - n]
  BY <1>4, <1>a, <1>b, <1>c DEF Added
<1>7. /\ op'.type = o.type /\ op'.addr = o.addr /\ op'.num_bytes = o.num_bytes
      /\ op'.acc_mode = o.acc_mode /\ op'.addr_map = o.addr_map
      /\ op'.a = o.a + n /\ op'.nb = o.nb - n
  BY <1>1, <1>6 DEF Operation
<1>8. /\ x.type = o.type /\ x.addr = o.a /\ x.num_bytes = n /\ x.acc_mode = o.acc_mode
      /\ x.addr_map = o.addr_map /\ x.rw = done + 1
      /\ t.type = o.type /\ t.addr = o.addr /\ t.num_bytes = o.num_bytes
      /\ t.acc_mode = o.acc_mode /\ t.addr_map = o.addr_map
  OBVIOUS
<1>9. Aligned(x)
  BY <1>8, <1>c DEF Aligned
<1> HIDE DEF x, t
<1>10. PICK tr2 : tr2 = Append(tr, x)
  OBVIOUS
<1>11. PICK rt2 : rt2 = IF o.nb > n THEN rt ELSE Append(rt, t)
  OBVIOUS
<1>12. /\ tr2 \in Seq(Pl0Trans) /\ Len(tr2) = L + 1 /\ tr2[L + 1] = x /\ tr2 # <<>>
       /\ \A p \in 1..L : tr2[p] = tr[p]
  BY <1>1, <1>5, <1>10, AppendProperties
<1>13. /\ Len(rt2) = IF o.nb > n THEN done ELSE done + 1
       /\ \A r \in 1..done : rt2[r] = rt[r]
       /\ ~(o.nb > n) => rt2[done + 1] = t
  BY <1>1, <1>5, <1>11, AppendProperties
<1>14. /\ AccessesContinue /\ AccessesComplete
       /\ \A p \in 1..L : tr[p].rw \in 1..(done + 1)
       /\ tr # <<>> => tr[L].rw = done \/ tr[L].rw = done + 1
       /\ o.a + o.nb = o.addr + o.num_bytes
       /\ o.type = "FILL" => o.a % 8 = 0 /\ o.nb % 8 = 0
       /\ o.a = IF tr # <<>> /\ tr[L].rw = done + 1 THEN EndOf(tr[L]) ELSE o.addr
  BY <1>a, <1>b, <1>c DEF Tiles, AccessesTile, LastIsOf, EndOf
<1>15. \A r : RwAt(r)' = IF r <= Len(rt2) THEN rt2[r] ELSE op'
  BY <1>6, <1>11, <1>a, <1>b DEF RwAt
<1>16. \A r : RwAt(r) = IF r <= done THEN rt[r] ELSE o
  BY <1>b, <1>c DEF RwAt
<1>17. ASSUME NEW r, r \in 1..(done + 1)
       PROVE  /\ RwAt(r)'.type = RwAt(r).type /\ RwAt(r)'.acc_mode = RwAt(r).acc_mode
              /\ RwAt(r)'.addr_map = RwAt(r).addr_map /\ RwAt(r)'.addr = RwAt(r).addr
  <2>1. CASE r \in 1..done
    <3>1. r <= done /\ r <= Len(rt2)
      BY <1>1, <1>13, <2>1, SMT
    <3> QED BY <1>13, <1>15, <1>16, <2>1, <3>1
  <2>2. CASE r = done + 1
    <3>1. ~(r <= done) /\ (r <= Len(rt2) <=> ~(o.nb > n))
      BY <1>1, <1>13, <2>2, SMT
    <3> QED BY <1>7, <1>8, <1>13, <1>15, <1>16, <2>2, <3>1
  <2>3. r \in 1..done \/ r = done + 1
    BY <1>1, <1>17, SMT
  <2> QED BY <2>1, <2>2, <2>3
<1>18. \A p \in 1..(L + 1) : p \in 1..L \/ p = L + 1
  BY <1>1, SMT
<1>19. AccessesContinue'
  <2> SUFFICES ASSUME NEW p \in 1..(L + 1)
               PROVE  Continues(tr2, p, RwAt(tr2[p].rw)')
    BY <1>6, <1>10, <1>12 DEF AccessesContinue
  <2>1. CASE p \in 1..L
    <3>1. Continues(tr, p, RwAt(tr[p].rw))
      BY <1>14, <1>a, <2>1 DEF AccessesContinue
    <3>2. Continues(tr2, p, RwAt(tr[p].rw))
      BY <1>1, <1>5, <1>10, <2>1, <3>1, ContinuesBefore
    <3>3. tr2[p].rw = tr[p].rw /\ tr[p].rw \in 1..(done + 1)
      BY <1>12, <1>14, <2>1
    <3>4. PICK u : u = RwAt(tr[p].rw)'
      OBVIOUS
    <3>5. PICK v : v = RwAt(tr[p].rw)
      OBVIOUS
    <3>6. u.type = v.type /\ u.acc_mode = v.acc_mode /\ u.addr_map = v.addr_map /\ u.addr = v.addr
      BY <1>17, <3>3, <3>4, <3>5
    <3>7. Continues(tr2, p, u)
      BY <3>2, <3>5, <3>6, SameTrans
    <3> QED BY <3>3, <3>4, <3>7
  <2>2. CASE p = L + 1
    <3>1. Continues(tr2, L + 1, o)
      BY <1>1, <1>5, <1>8, <1>9, <1>10, <1>14, ContinuesNext
    <3>2. PICK u : u = RwAt(done + 1)'
      OBVIOUS
    <3>3. done + 1 \in 1..(done + 1) /\ ~(done + 1 <= done)
      BY <1>1, SMT
    <3>4. u.type = o.type /\ u.acc_mode = o.acc_mode /\ u.addr_map = o.addr_map /\ u.addr = o.addr
      BY <1>16, <1>17, <3>2, <3>3
    <3>5. Continues(tr2, L + 1, u)
      BY <3>1, <3>4, SameTrans
    <3>6. tr2[p].rw = done + 1
      BY <1>8, <1>12, <2>2
    <3> QED BY <2>2, <3>2, <3>5, <3>6
  <2> QED BY <1>18, <2>1, <2>2
<1>20. AccessesComplete'
  <2> SUFFICES ASSUME NEW r \in 1..Len(rt2)
               PROVE  \E p \in 1..(L + 1) :
                        /\ tr2[p].rw = r
                        /\ EndOf(tr2[p]) = EndOf(rt2[r])
                        /\ p < L + 1 => tr2[p + 1].rw = r + 1
    BY <1>6, <1>10, <1>11, <1>12 DEF AccessesComplete
  <2>1. CASE r \in 1..done
    <3>1. PICK p \in 1..L : /\ tr[p].rw = r
                            /\ EndOf(tr[p]) = EndOf(rt[r])
                            /\ p < L => tr[p + 1].rw = r + 1
      BY <1>14, <1>a, <1>b, <2>1 DEF AccessesComplete
    <3>2. p \in 1..(L + 1) /\ tr2[p] = tr[p] /\ rt2[r] = rt[r]
      BY <1>1, <1>12, <1>13, <2>1, <3>1, SMT
    <3>3. tr2[p + 1].rw = r + 1
      <4>1. CASE p < L
        <5>1. p + 1 \in 1..L
          BY <1>1, <4>1, SMT
        <5> QED BY <1>12, <3>1, <4>1, <5>1
      <4>2. CASE p = L
        <5>1. tr # <<>>
          BY <1>1, <3>1, <4>2, EmptySeq, SMT
        <5>2. r = done
          <6>1. tr[L].rw = done \/ tr[L].rw = done + 1
            BY <1>14, <5>1
          <6> QED BY <1>1, <2>1, <3>1, <4>2, <6>1, SMT
        <5> QED BY <1>8, <1>12, <4>2, <5>2
      <4>3. p < L \/ p = L
        BY <1>1, <3>1, SMT
      <4> QED BY <4>1, <4>2, <4>3
    <3> QED BY <3>1, <3>2, <3>3
  <2>2. CASE ~(o.nb > n) /\ r = done + 1
    <3>1. tr2[L + 1].rw = r
      BY <1>8, <1>12, <2>2
    <3>2. EndOf(tr2[L + 1]) = EndOf(rt2[r])
      <4>1. n = o.nb
        BY <1>2, <1>4, <2>2, SMT
      <4>2. EndOf(x) = o.a + n /\ EndOf(t) = o.addr + o.num_bytes
        BY <1>8 DEF EndOf
      <4> QED BY <1>12, <1>13, <1>14, <2>2, <4>1, <4>2
    <3>3. L + 1 \in 1..(L + 1) /\ ~(L + 1 < L + 1)
      BY <1>1, SMT
    <3> QED BY <3>1, <3>2, <3>3
  <2>3. r \in 1..done \/ (~(o.nb > n) /\ r = done + 1)
    BY <1>1, <1>13, SMT
  <2> QED BY <2>1, <2>2, <2>3
<1>21. PICK o2 : o2 = op'
  OBVIOUS
<1>22. /\ o2.a = o.a + n /\ o2.nb = o.nb - n /\ o2.type = o.type
       /\ o2.addr = o.addr /\ o2.num_bytes = o.num_bytes
  BY <1>7, <1>21
<1>23. (o2.nb > 0 <=> o.nb > n)
  BY <1>2, <1>22, SMT
<1>24. \A p \in 1..(L + 1) : tr2[p].rw \in 1..(done + 1)
  <2> TAKE p \in 1..(L + 1)
  <2>1. done + 1 \in 1..(done + 1)
    BY <1>1, SMT
  <2> QED BY <1>8, <1>12, <1>14, <1>18, <2>1
<1>25. \A p \in 1..(L + 1) : tr2[p].rw \in 1..(IF o2.nb > 0 THEN Len(rt2) + 1 ELSE Len(rt2))
  BY <1>13, <1>23, <1>24
<1>26. o2.nb > 0 => /\ o2.a + o2.nb = o2.addr + o2.num_bytes
                    /\ o2.type = "FILL" => o2.a % 8 = 0 /\ o2.nb % 8 = 0
  <2>1. o2.a + o2.nb = o.a + o.nb
    BY <1>2, <1>22, SMT
  <2>2. o2.type = "FILL" => o2.a % 8 = 0 /\ o2.nb % 8 = 0
    <3> SUFFICES ASSUME o.type = "FILL" PROVE o2.a % 8 = 0 /\ o2.nb % 8 = 0
      BY <1>22
    <3>1. o.a % 8 = 0 /\ o.nb % 8 = 0 /\ n % 8 = 0
      BY <1>14, <1>c
    <3> QED BY <1>2, <1>4, <1>22, <3>1, SMT
  <2> QED BY <1>14, <1>22, <2>1, <2>2
<1>27. o2.a = EndOf(tr2[L + 1])
  BY <1>8, <1>12, <1>22 DEF EndOf
<1>28. tr2[L + 1].rw = done + 1
  BY <1>8, <1>12
<1>29. /\ mPl0Trans' = tr2 /\ mRwTrans' = rt2 /\ op' = o2 /\ Len(tr2) = L + 1
  BY <1>6, <1>10, <1>11, <1>12, <1>21
<1>30. /\ LastIsOf(Len(rt2))' \/ LastIsOf(Len(rt2) + 1)'
       /\ o2.nb > 0 => LastIsOf(Len(rt2) + 1)'
  BY <1>12, <1>13, <1>23, <1>28, <1>29 DEF LastIsOf
<1> QED
  BY <1>19, <1>20, <1>25, <1>26, <1>27, <1>29, <1>30 DEF Tiles, AccessesTile, EndOf

--------------------------------------------------------------------------------
(* The settings in force at a position of a packet.                           *)

Before(cmds, i, c) == {j \in 1..(i - 1) : cmds[j].cmd = c}
Newest(s) == CHOOSE j \in s : \A k \in s : k <= j
Now(cmds, c) == Setting(cmds, Len(cmds) + 1, c)

LEMMA SettingIs ==
    ASSUME NEW cmds, NEW i, NEW c
    PROVE  Setting(cmds, i, c) = IF Before(cmds, i, c) = {} THEN 0
                                 ELSE cmds[Newest(Before(cmds, i, c))].val
BY Zenon DEF Setting, Before, Newest

LEMMA NewestIn ==
    ASSUME NEW n, n \in Nat, NEW s, s \in SUBSET (1..n), s # {}
    PROVE  Newest(s) \in s
<1>1. Max(s) \in s /\ \A k \in s : Max(s) >= k
  BY MaxOf
<1>2. \A k \in s : k <= Max(s)
  <2> TAKE k \in s
  <2>1. PICK m : m = Max(s)
    OBVIOUS
  <2>2. m \in 1..n /\ k \in 1..n /\ m >= k
    BY <1>1, <2>1
  <2>3. k <= m
    BY <2>2, SMT
  <2> QED BY <2>1, <2>3
<1>3. \E j \in s : \A k \in s : k <= j
  BY <1>1, <1>2
<1> QED BY <1>3, Zenon DEF Newest

LEMMA NewestIs ==
    ASSUME NEW n, n \in Nat, NEW s, s \in SUBSET (1..n), n \in s
    PROVE  Newest(s) = n
<1>1. n \in s /\ \A k \in s : k <= n
  BY SMT
<1>2. Newest(s) \in s /\ \A k \in s : k <= Newest(s)
  BY <1>1, Zenon DEF Newest
<1>3. PICK m : m = Newest(s)
  OBVIOUS
<1>4. m \in 1..n /\ m <= n /\ n <= m
  BY <1>1, <1>2, <1>3
<1>5. m = n
  BY <1>4, SMT
<1> QED BY <1>3, <1>5

\* A command changes no setting at the positions up to its own.
LEMMA SettingStays ==
    ASSUME NEW cmds, cmds \in Seq(Command), NEW d, d \in Command,
           NEW i, i \in 1..(Len(cmds) + 1), NEW c
    PROVE  Setting(Append(cmds, d), i, c) = Setting(cmds, i, c)
<1> DEFINE e == Append(cmds, d)
           s == Before(cmds, i, c)
<1>1. Len(cmds) \in Nat /\ i - 1 \in Nat /\ \A j \in 1..(i - 1) : j \in 1..Len(cmds)
  BY LenProperties, SMT
<1>2. \A j \in 1..(i - 1) : e[j] = cmds[j]
  BY <1>1, AppendProperties
<1>3. Before(e, i, c) = s
  BY <1>2 DEF Before
<1>4. s \in SUBSET (1..(i - 1))
  BY DEF Before
<1>5. s # {} => Newest(s) \in 1..(i - 1)
  <2> HIDE DEF s
  <2> QED BY <1>1, <1>4, NewestIn
<1> HIDE DEF e, s
<1>6. s # {} => e[Newest(s)] = cmds[Newest(s)]
  BY <1>2, <1>5
<1>7. Setting(e, i, c) = IF s = {} THEN 0 ELSE e[Newest(s)].val
  BY <1>3, SettingIs
<1>8. Setting(cmds, i, c) = IF s = {} THEN 0 ELSE cmds[Newest(s)].val
  BY SettingIs DEF s
<1>9. CASE s = {}
  BY <1>7, <1>8, <1>9 DEF e
<1>10. CASE s # {}
  BY <1>6, <1>7, <1>8, <1>10 DEF e
<1> QED BY <1>9, <1>10

\* After a command its own setting is in force, and the others as before.
LEMMA SettingAfter ==
    ASSUME NEW cmds, cmds \in Seq(Command), NEW d, d \in Command, NEW c
    PROVE  Now(Append(cmds, d), c) = IF d.cmd = c THEN d.val ELSE Now(cmds, c)
<1> DEFINE e == Append(cmds, d)
           L == Len(cmds)
           s == Before(e, L + 2, c)
<1>1. L \in Nat /\ Len(e) = L + 1 /\ e[L + 1] = d /\ \A j \in 1..L : e[j] = cmds[j]
  BY LenProperties, AppendProperties
<1>2. (L + 2) - 1 = L + 1 /\ L + 1 \in 1..(L + 1) /\ L + 1 \in Nat /\ Len(e) + 1 = L + 2
  BY <1>1, SMT
<1>3. s = {j \in 1..(L + 1) : e[j].cmd = c}
  BY <1>2 DEF Before
<1>4. CASE d.cmd = c
  <2>1. L + 1 \in s /\ s \in SUBSET (1..(L + 1))
    BY <1>1, <1>2, <1>3, <1>4
  <2> HIDE DEF s
  <2>2. Newest(s) = L + 1
    BY <1>2, <2>1, NewestIs
  <2>3. Setting(e, L + 2, c) = IF s = {} THEN 0 ELSE e[Newest(s)].val
    BY SettingIs DEF s
  <2>4. s # {}
    BY <2>1
  <2>5. Setting(e, L + 2, c) = d.val
    BY <1>1, <2>2, <2>3, <2>4
  <2> HIDE DEF e, L
  <2> QED BY <1>2, <1>4, <2>5 DEF Now, e
<1>5. CASE d.cmd # c
  <2> DEFINE o == Before(cmds, L + 1, c)
  <2>1. \A j : j \in 1..(L + 1) <=> (j \in 1..L \/ j = L + 1)
    BY <1>1, SMT
  <2>2. o = {j \in 1..L : cmds[j].cmd = c}
    <3>1. (L + 1) - 1 = L
      BY <1>1, SMT
    <3> QED BY <3>1 DEF Before
  <2>3. s = o
    BY <1>1, <1>3, <1>5, <2>1, <2>2
  <2>4. o # {} => Newest(o) \in 1..L
    <3>1. o \in SUBSET (1..L)
      BY <2>2
    <3> HIDE DEF o
    <3> QED BY <1>1, <3>1, NewestIn
  <2> HIDE DEF o, s
  <2>5. o # {} => e[Newest(o)] = cmds[Newest(o)]
    BY <1>1, <2>4
  <2>6. Setting(e, L + 2, c) = IF o = {} THEN 0 ELSE e[Newest(o)].val
    BY <2>3, SettingIs DEF s
  <2>7. Setting(cmds, L + 1, c) = IF o = {} THEN 0 ELSE cmds[Newest(o)].val
    BY SettingIs DEF o
  <2>8. Setting(e, L + 2, c) = Setting(cmds, L + 1, c)
    <3>1. CASE o = {}
      BY <2>6, <2>7, <3>1
    <3>2. CASE o # {}
      BY <2>5, <2>6, <2>7, <3>2
    <3> QED BY <3>1, <3>2
  <2> HIDE DEF e
  <2> QED BY <1>2, <1>5, <2>8 DEF Now, e
<1> QED BY <1>4, <1>5

LEMMA SettingFirst ==
    ASSUME NEW c
    PROVE  Now(<<>>, c) = 0
<1>1. Len(<<>>) = 0 /\ (0 + 1) - 1 = 0 /\ 1..0 = {}
  BY SMT
<1>2. Before(<<>>, Len(<<>>) + 1, c) = {}
  BY <1>1 DEF Before
<1> QED BY <1>2, SettingIs DEF Now

--------------------------------------------------------------------------------
(* What the server decodes from a packet.                                     *)

LEMMA ExecutesStays ==
    ASSUME NEW cmds, cmds \in Seq(Command), NEW d, d \in Command,
           NEW i, i \in 1..Len(cmds), NEW x, Executes(cmds, i, x)
    PROVE  Executes(Append(cmds, d), i, x) /\ Append(cmds, d)[i] = cmds[i]
<1>1. i \in 1..(Len(cmds) + 1)
  <2>1. Len(cmds) \in Nat
    BY LenProperties
  <2> QED BY <2>1, SMT
<1>2. \A c : Setting(Append(cmds, d), i, c) = Setting(cmds, i, c)
  BY <1>1, SettingStays
<1>3. Append(cmds, d)[i] = cmds[i]
  BY AppendProperties
<1> QED BY <1>2, <1>3 DEF Executes

\* An access made later does not change what the packet stands for.
LEMMA DecodesStays ==
    ASSUME NEW tr, tr \in Seq(Pl0Trans), NEW x, x \in Pl0Trans, NEW cmds,
           NEW mine, mine \in SUBSET (1..Len(tr)), Decodes(cmds, tr, mine)
    PROVE  Decodes(cmds, Append(tr, x), mine) /\ Maps(Append(tr, x), mine) = Maps(tr, mine)
<1> DEFINE e == Append(tr, x)
<1>1. \A p \in mine : e[p] = tr[p]
  BY AppendProperties
<1> HIDE DEF e
<1>2. Maps(e, mine) = Maps(tr, mine)
  BY <1>1 DEF Maps
<1>3. Decodes(cmds, e, mine)
  BY <1>1 DEF Decodes
<1> QED BY <1>2, <1>3 DEF e

\* A setting in front of the next access.
LEMMA DecodesSetting ==
    ASSUME NEW cmds, cmds \in Seq(Command), NEW d, d \in Command, ~IsAccess(d),
           NEW tr, NEW mine, Decodes(cmds, tr, mine)
    PROVE  Decodes(Append(cmds, d), tr, mine)
<1> DEFINE e == Append(cmds, d)
           L == Len(cmds)
<1>1. L \in Nat /\ Len(e) = L + 1 /\ e[L + 1] = d
  BY LenProperties, AppendProperties
<1>2. ASSUME NEW p \in mine
      PROVE  /\ tr[p].pos \in 1..(L + 1)
             /\ IsAccess(e[tr[p].pos])
             /\ Executes(e, tr[p].pos, tr[p])
             /\ p - 1 \in mine => tr[p - 1].pos < tr[p].pos
  <2>1. /\ tr[p].pos \in 1..L /\ IsAccess(cmds[tr[p].pos]) /\ Executes(cmds, tr[p].pos, tr[p])
        /\ p - 1 \in mine => tr[p - 1].pos < tr[p].pos
    BY DEF Decodes
  <2>2. tr[p].pos \in 1..(L + 1)
    BY <1>1, <2>1, SMT
  <2>3. Executes(e, tr[p].pos, tr[p]) /\ e[tr[p].pos] = cmds[tr[p].pos]
    BY <2>1, ExecutesStays
  <2> QED BY <2>1, <2>2, <2>3
<1>3. ASSUME NEW i \in 1..(L + 1), IsAccess(e[i])
      PROVE  \E p \in mine : tr[p].pos = i
  <2>1. i # L + 1
    BY <1>1, <1>3
  <2>2. i \in 1..L
    BY <1>1, <2>1, SMT
  <2>3. e[i] = cmds[i]
    BY <2>2, AppendProperties
  <2> QED BY <1>3, <2>2, <2>3 DEF Decodes
<1> HIDE DEF e, L
<1> QED BY <1>1, <1>2, <1>3 DEF Decodes, e

\* The next access.
LEMMA DecodesAccess ==
    ASSUME NEW cmds, cmds \in Seq(Command), NEW d, d \in Command, IsAccess(d),
           NEW tr, tr \in Seq(Pl0Trans), NEW x, x \in Pl0Trans,
           NEW lo, lo \in Nat, lo <= Len(tr),
           Decodes(cmds, tr, (lo + 1)..Len(tr)),
           x.pos = Len(cmds) + 1, Executes(Append(cmds, d), Len(cmds) + 1, x)
    PROVE  Decodes(Append(cmds, d), Append(tr, x), (lo + 1)..(Len(tr) + 1))
<1> DEFINE e == Append(cmds, d)
           L == Len(cmds)
           N == Len(tr)
           t2 == Append(tr, x)
           old == (lo + 1)..N
           new == (lo + 1)..(N + 1)
<1>1. L \in Nat /\ Len(e) = L + 1 /\ e[L + 1] = d
  BY LenProperties, AppendProperties
<1>2. N \in Nat /\ t2[N + 1] = x /\ \A p \in 1..N : t2[p] = tr[p]
  BY LenProperties, AppendProperties
<1>3. /\ \A p : p \in new <=> (p \in old \/ p = N + 1)
      /\ \A p \in old : p \in 1..N
      /\ (N + 1) - 1 = N
  BY <1>2, SMT
<1>4. \A p \in old : t2[p] = tr[p]
  BY <1>2, <1>3
<1>5. \A p \in old : /\ tr[p].pos \in 1..L /\ IsAccess(cmds[tr[p].pos])
                     /\ Executes(cmds, tr[p].pos, tr[p])
                     /\ p - 1 \in old => tr[p - 1].pos < tr[p].pos
  BY DEF Decodes
<1>6. \A i \in 1..L : IsAccess(cmds[i]) => \E p \in old : tr[p].pos = i
  BY DEF Decodes
<1>7. ASSUME NEW p \in new
      PROVE  /\ t2[p].pos \in 1..(L + 1)
             /\ IsAccess(e[t2[p].pos])
             /\ Executes(e, t2[p].pos, t2[p])
             /\ p - 1 \in new => t2[p - 1].pos < t2[p].pos
  <2>1. CASE p \in old
    <3>1. tr[p].pos \in 1..(L + 1)
      BY <1>1, <1>5, <2>1, SMT
    <3>2. Executes(e, tr[p].pos, tr[p]) /\ e[tr[p].pos] = cmds[tr[p].pos]
      BY <1>5, <2>1, ExecutesStays
    <3>3. p - 1 \in new => p - 1 \in old
      BY <1>2, <2>1, SMT
    <3> QED BY <1>4, <1>5, <2>1, <3>1, <3>2, <3>3
  <2>2. CASE p = N + 1
    <3>1. t2[p] = x /\ L + 1 \in 1..(L + 1)
      BY <1>1, <1>2, <2>2, SMT
    <3>2. p - 1 \in new => t2[p - 1].pos < L + 1
      <4> SUFFICES ASSUME p - 1 \in new PROVE t2[p - 1].pos < L + 1
        OBVIOUS
      <4>1. p - 1 \in old
        BY <1>2, <2>2, SMT
      <4>2. t2[p - 1].pos \in 1..L
        BY <1>4, <1>5, <4>1
      <4> QED BY <1>1, <4>2, SMT
    <3> QED BY <1>1, <3>1, <3>2
  <2> QED BY <1>3, <2>1, <2>2
<1>8. ASSUME NEW i \in 1..(L + 1), IsAccess(e[i])
      PROVE  \E p \in new : t2[p].pos = i
  <2>1. CASE i = L + 1
    <3>1. N + 1 \in new
      BY <1>3
    <3> QED BY <1>2, <2>1, <3>1
  <2>2. CASE i # L + 1
    <3>1. i \in 1..L
      BY <1>1, <2>2, SMT
    <3>2. e[i] = cmds[i]
      BY <3>1, AppendProperties
    <3>3. PICK p \in old : tr[p].pos = i
      BY <1>6, <1>8, <3>1, <3>2
    <3> QED BY <1>3, <1>4, <3>3
  <2> QED BY <2>1, <2>2
<1> HIDE DEF e, L, t2, N
<1> QED BY <1>1, <1>7, <1>8 DEF Decodes, e, t2, N

--------------------------------------------------------------------------------
(* The settings an access needs, one by one.                                  *)

With(cmds, known, c) == IF known THEN cmds ELSE Append(cmds, c)

LEMMA WithIs ==
    ASSUME NEW cmds, cmds \in Seq(Command), NEW c, c \in Command, NEW known
    PROVE  /\ cmds \o (IF known THEN <<>> ELSE <<c>>) = With(cmds, known, c)
           /\ With(cmds, known, c) \in Seq(Command)
<1>1. cmds \o <<>> = cmds /\ cmds \o <<c>> = Append(cmds, c) /\ Append(cmds, c) \in Seq(Command)
  BY ConcatEmptySeq, AppendIsConcat, AppendProperties
<1>2. CASE known
  BY <1>1, <1>2 DEF With
<1>3. CASE ~known
  BY <1>1, <1>3 DEF With
<1> QED BY <1>2, <1>3

LEMMA WithKeeps ==
    ASSUME NEW cmds, cmds \in Seq(Command), NEW c, c \in Command, ~IsAccess(c), NEW known,
           NEW tr, NEW mine, Decodes(cmds, tr, mine)
    PROVE  Decodes(With(cmds, known, c), tr, mine)
BY DecodesSetting DEF With

LEMMA WithNow ==
    ASSUME NEW cmds, cmds \in Seq(Command), NEW c, c \in Command, NEW known, NEW k
    PROVE  Now(With(cmds, known, c), k) = IF c.cmd # k \/ known THEN Now(cmds, k) ELSE c.val
<1>1. CASE known
  BY <1>1 DEF With
<1>2. CASE ~known
  BY <1>2, SettingAfter DEF With
<1> QED BY <1>1, <1>2

\* The commands of the packet with the settings for an access.
Prepared(g, a, acc, am) ==
    With(With(With(g.cur.cmds, am = g.cur.mPl0AddrMap, Cmd("ADDR_MAP", am, 0)),
              acc = g.cur.mPl0AccMode, Cmd("ACCESS_MODE", acc, 0)),
         InWindow(g, a), Cmd("BASE_ADDR", BaseFor(g, a), IF a < Addr4G THEN 0 ELSE 1))

LEMMA SettingCmdsType ==
    ASSUME NEW g, g \in Request, NEW a, a \in Nat, NEW acc, acc \in Nat, NEW am, am \in AddrMapId
    PROVE  LET c1 == Cmd("ADDR_MAP", am, 0)
               c2 == Cmd("ACCESS_MODE", acc, 0)
               c3 == Cmd("BASE_ADDR", BaseFor(g, a), IF a < Addr4G THEN 0 ELSE 1)
           IN  /\ c1 \in Command /\ c2 \in Command /\ c3 \in Command
               /\ c1.cmd = "ADDR_MAP" /\ c2.cmd = "ACCESS_MODE" /\ c3.cmd = "BASE_ADDR"
               /\ c1.val = am /\ c2.val = acc /\ c3.val = BaseFor(g, a)
               /\ ~IsAccess(c1) /\ ~IsAccess(c2) /\ ~IsAccess(c3)
<1>1. BaseFor(g, a) \in Nat
  BY SettingsType
<1>2. am \in Nat /\ 0 \in Nat /\ 1 \in Nat
  BY SMT DEF AddrMapId
<1>3. (IF a < Addr4G THEN 0 ELSE 1) \in Nat
  BY <1>2
<1>4. /\ Cmd("ADDR_MAP", am, 0) \in Command /\ Cmd("ACCESS_MODE", acc, 0) \in Command
      /\ Cmd("BASE_ADDR", BaseFor(g, a), IF a < Addr4G THEN 0 ELSE 1) \in Command
  BY <1>1, <1>2, <1>3, CmdType
<1> QED BY <1>4, SMT DEF Cmd, IsAccess

LEMMA PreparedIs ==
    ASSUME NEW g, g \in Request, NEW a, a \in Nat, NEW acc, acc \in Nat, NEW am, am \in AddrMapId
    PROVE  /\ g.cur.cmds \o mPktAdd_SetAddrMapAccModeBaseAddr(g, am, acc, a) = Prepared(g, a, acc, am)
           /\ Prepared(g, a, acc, am) \in Seq(Command)
<1> DEFINE k1 == am = g.cur.mPl0AddrMap
           k2 == acc = g.cur.mPl0AccMode
           k3 == InWindow(g, a)
           c1 == Cmd("ADDR_MAP", am, 0)
           c2 == Cmd("ACCESS_MODE", acc, 0)
           c3 == Cmd("BASE_ADDR", BaseFor(g, a), IF a < Addr4G THEN 0 ELSE 1)
           s1 == IF k1 THEN <<>> ELSE <<c1>>
           s2 == IF k2 THEN <<>> ELSE <<c2>>
           s3 == IF k3 THEN <<>> ELSE <<c3>>
           cs == g.cur.cmds
           w1 == With(cs, k1, c1)
           w2 == With(w1, k2, c2)
           w3 == With(w2, k3, c3)
<1>1. cs \in Seq(Command) /\ c1 \in Command /\ c2 \in Command /\ c3 \in Command
  BY OpenPacketFields, SettingCmdsType
<1>2. mPktAdd_SetAddrMapAccModeBaseAddr(g, am, acc, a) = (s1 \o s2) \o s3
  BY Zenon DEF mPktAdd_SetAddrMapAccModeBaseAddr
<1>3. Prepared(g, a, acc, am) = w3
  BY Zenon DEF Prepared
<1> HIDE DEF k1, k2, k3, c1, c2, c3, cs
<1>4. s1 \in Seq(Command) /\ s2 \in Seq(Command) /\ s3 \in Seq(Command)
  <2>1. <<>> \in Seq(Command) /\ <<c1>> \in Seq(Command) /\ <<c2>> \in Seq(Command) /\ <<c3>> \in Seq(Command)
    BY <1>1, SMT
  <2> QED BY <2>1
<1>5. cs \o s1 = w1 /\ w1 \in Seq(Command)
  BY <1>1, WithIs
<1> HIDE DEF w1, s1
<1>6. w1 \o s2 = w2 /\ w2 \in Seq(Command)
  BY <1>1, <1>5, WithIs
<1> HIDE DEF w2, s2
<1>7. w2 \o s3 = w3 /\ w3 \in Seq(Command)
  BY <1>1, <1>6, WithIs
<1> HIDE DEF w3, s3
<1>8. s1 \o s2 \in Seq(Command)
  BY <1>4, ConcatProperties
<1>a. \A s, t, u \in Seq(Command) : (s \o t) \o u = s \o (t \o u)
  BY ConcatAssociative
<1>9. cs \o ((s1 \o s2) \o s3) = (cs \o (s1 \o s2)) \o s3
  <2>1. PICK s12 : s12 = s1 \o s2
    OBVIOUS
  <2>2. s12 \in Seq(Command)
    BY <1>8, <2>1
  <2>3. (cs \o s12) \o s3 = cs \o (s12 \o s3)
    <3>1. cs \in Seq(Command) /\ s3 \in Seq(Command)
      BY <1>1, <1>4
    <3> QED BY <1>a, <2>2, <3>1, ZenonT(30)
  <2> QED BY <2>1, <2>3
<1>10. cs \o (s1 \o s2) = (cs \o s1) \o s2
  BY <1>1, <1>4, <1>a
<1> QED BY <1>2, <1>3, <1>5, <1>6, <1>7, <1>9, <1>10 DEF cs

\* After them the server has the settings of the access.
LEMMA PreparedSettings ==
    ASSUME NEW g, g \in Request, NEW a, a \in Nat, NEW acc, acc \in Nat, NEW am, am \in AddrMapId,
           Now(g.cur.cmds, "ADDR_MAP") = g.cur.mPl0AddrMap,
           Now(g.cur.cmds, "ACCESS_MODE") = g.cur.mPl0AccMode,
           Now(g.cur.cmds, "BASE_ADDR") = g.cur.mPl0BaseAddr,
           NEW tr, NEW mine, Decodes(g.cur.cmds, tr, mine)
    PROVE  LET w == Prepared(g, a, acc, am)
           IN  /\ Now(w, "ADDR_MAP") = am /\ Now(w, "ACCESS_MODE") = acc
               /\ Now(w, "BASE_ADDR") = BaseFor(g, a)
               /\ Decodes(w, tr, mine)
<1> DEFINE k1 == am = g.cur.mPl0AddrMap
           k2 == acc = g.cur.mPl0AccMode
           k3 == InWindow(g, a)
           c1 == Cmd("ADDR_MAP", am, 0)
           c2 == Cmd("ACCESS_MODE", acc, 0)
           c3 == Cmd("BASE_ADDR", BaseFor(g, a), IF a < Addr4G THEN 0 ELSE 1)
           cs == g.cur.cmds
           w1 == With(cs, k1, c1)
           w2 == With(w1, k2, c2)
           w3 == With(w2, k3, c3)
<1>1. cs \in Seq(Command)
  BY OpenPacketFields
<1>2. /\ c1 \in Command /\ c2 \in Command /\ c3 \in Command
      /\ c1.cmd = "ADDR_MAP" /\ c2.cmd = "ACCESS_MODE" /\ c3.cmd = "BASE_ADDR"
      /\ c1.val = am /\ c2.val = acc /\ c3.val = BaseFor(g, a)
      /\ ~IsAccess(c1) /\ ~IsAccess(c2) /\ ~IsAccess(c3)
  BY SettingCmdsType
<1>3. /\ k1 => Now(cs, "ADDR_MAP") = am
      /\ k2 => Now(cs, "ACCESS_MODE") = acc
      /\ k3 => Now(cs, "BASE_ADDR") = BaseFor(g, a)
  BY DEF BaseFor
<1>4. Prepared(g, a, acc, am) = w3
  BY Zenon DEF Prepared
<1>5. "ADDR_MAP" # "ACCESS_MODE" /\ "ADDR_MAP" # "BASE_ADDR" /\ "ACCESS_MODE" # "BASE_ADDR"
  OBVIOUS
<1>6. Decodes(cs, tr, mine)
  OBVIOUS
<1> HIDE DEF k1, k2, k3, c1, c2, c3, cs
<1>7. w1 \in Seq(Command) /\ Decodes(w1, tr, mine)
  BY <1>1, <1>2, <1>6, WithIs, WithKeeps
<1>8. /\ Now(w1, "ADDR_MAP") = am
      /\ Now(w1, "ACCESS_MODE") = Now(cs, "ACCESS_MODE")
      /\ Now(w1, "BASE_ADDR") = Now(cs, "BASE_ADDR")
  BY <1>1, <1>2, <1>3, <1>5, WithNow
<1> HIDE DEF w1
<1>9. w2 \in Seq(Command) /\ Decodes(w2, tr, mine)
  BY <1>2, <1>7, WithIs, WithKeeps
<1>10. /\ Now(w2, "ADDR_MAP") = am
       /\ Now(w2, "ACCESS_MODE") = acc
       /\ Now(w2, "BASE_ADDR") = Now(cs, "BASE_ADDR")
  BY <1>2, <1>3, <1>5, <1>7, <1>8, WithNow
<1> HIDE DEF w2
<1>11. Decodes(w3, tr, mine)
  BY <1>2, <1>9, WithKeeps
<1>12. /\ Now(w3, "ADDR_MAP") = am
       /\ Now(w3, "ACCESS_MODE") = acc
       /\ Now(w3, "BASE_ADDR") = BaseFor(g, a)
  BY <1>2, <1>3, <1>5, <1>9, <1>10, WithNow
<1> QED BY <1>4, <1>11, <1>12

\* The base address and the offset make the address again.
LEMMA Window ==
    ASSUME NEW w, w \in Nat, w > 0, NEW base, base \in Nat, base % w = 0, NEW a, a \in Nat
    PROVE  /\ base <= a /\ a <= base + (w - 1) => base + (a % w) = a
           /\ (a - (a % w)) + (a % w) = a /\ (a - (a % w)) % w = 0 /\ a % w \in Nat
<1>1. PICK r : r = a % w
  OBVIOUS
<1>2. PICK q : q = a \div w
  OBVIOUS
<1>3. PICK p : p = base \div w
  OBVIOUS
<1>4. q \in Int /\ r \in Nat /\ r < w /\ a = w * q + r
  BY <1>1, <1>2, SMT
<1>5. p \in Int /\ base = w * p
  BY <1>3, SMT
<1>6. (a - r) + r = a
  BY <1>4, SMT
<1>7. (a - r) % w = 0
  <2>1. a - r = w * q
    BY <1>4, SMT
  <2>2. (w * q) % w = 0
    BY <1>4, SMT
  <2> QED BY <2>1, <2>2
<1>8. ASSUME base <= a, a <= base + (w - 1) PROVE base + r = a
  <2>1. q <= p
    <3> SUFFICES ASSUME q >= p + 1 PROVE FALSE
      BY <1>4, <1>5, SMT
    <3>1. w * q >= w * (p + 1)
      BY <1>4, <1>5, SMT
    <3>2. w * (p + 1) = w * p + w
      BY <1>4, <1>5, SMT
    <3> QED BY <1>4, <1>5, <1>8, <3>1, <3>2, SMT
  <2>2. q >= p
    <3> SUFFICES ASSUME p >= q + 1 PROVE FALSE
      BY <1>4, <1>5, SMT
    <3>1. w * p >= w * (q + 1)
      BY <1>4, <1>5, SMT
    <3>2. w * (q + 1) = w * q + w
      BY <1>4, <1>5, SMT
    <3> QED BY <1>4, <1>5, <1>8, <3>1, <3>2, SMT
  <2>3. q = p
    BY <1>4, <1>5, <2>1, <2>2, SMT
  <2> QED BY <1>4, <1>5, <2>3, SMT
<1> QED BY <1>1, <1>4, <1>6, <1>7, <1>8

--------------------------------------------------------------------------------
(* The packets follow the accesses.                                           *)

LEMMA LastOfType ==
    ASSUME NEW g, g \in Request, NEW k, k \in 0..(Len(g.mRqBuf) + 1)
    PROVE  LastOf(g, k) \in Nat
<1>1. g.mRqBuf \in Seq(Packet) /\ g.mPl0NumTrans \in Nat /\ Len(g.mRqBuf) \in Nat
  BY RequestFields, LenProperties
<1>2. CASE k = 0
  BY <1>2 DEF LastOf
<1>3. CASE k # 0 /\ k <= Len(g.mRqBuf)
  <2>1. k \in 1..Len(g.mRqBuf)
    BY <1>1, <1>3, SMT
  <2>2. g.mRqBuf[k] \in Packet
    BY <1>1, <2>1, ElementOfSeq
  <2>3. \A p : p \in Packet => p.num_pl0_rw \in Nat
    BY SMT DEF Packet
  <2> QED BY <1>3, <2>2, <2>3 DEF LastOf
<1>4. CASE k # 0 /\ ~(k <= Len(g.mRqBuf))
  BY <1>1, <1>4 DEF LastOf
<1> QED BY <1>2, <1>3, <1>4

\* The indices of the accesses of a packet.
LEMMA MineIn ==
    ASSUME NEW g, g \in Request, NEW tr, tr \in Seq(Pl0Trans), Follows(g, tr),
           NEW k, k \in 1..(Len(g.mRqBuf) + 1)
    PROVE  Mine(g, k) \in SUBSET (1..Len(tr))
<1>1. Len(g.mRqBuf) \in Nat /\ Len(tr) \in Nat
  BY RequestFields, LenProperties
<1>2. k \in 0..(Len(g.mRqBuf) + 1) /\ k - 1 \in 0..(Len(g.mRqBuf) + 1)
  BY <1>1, SMT
<1>3. PICK lo : lo = LastOf(g, k - 1)
  OBVIOUS
<1>4. PICK hi : hi = LastOf(g, k)
  OBVIOUS
<1>5. lo \in Nat /\ hi \in Nat /\ hi <= Len(tr)
  BY <1>2, <1>3, <1>4, LastOfType DEF Follows, NumPkts
<1>6. \A p \in (lo + 1)..hi : p \in 1..Len(tr)
  BY <1>1, <1>5, SMT
<1> QED BY <1>3, <1>4, <1>6 DEF Mine

\* A packet without commands and accesses.
Blank(cur) ==
    /\ cur.cmds = <<>> /\ cur.mPl0AddrMapMask = {} /\ cur.mPl0AddrMap = 0
    /\ cur.mPl0AccMode = 0 /\ cur.mPl0BaseAddr = 0

LEMMA BlankPkts == Blank(mPl2PktInit) /\ Blank(NoPkt)
BY DEF Blank, mPl2PktInit, NoPkt

LEMMA BlankSettings ==
    ASSUME NEW g, Blank(g.cur)
    PROVE  /\ Now(g.cur.cmds, "ADDR_MAP") = g.cur.mPl0AddrMap
           /\ Now(g.cur.cmds, "ACCESS_MODE") = g.cur.mPl0AccMode
           /\ Now(g.cur.cmds, "BASE_ADDR") = g.cur.mPl0BaseAddr
           /\ g.cur.mPl0BaseAddr % AddrWindow = 0
           /\ \A tr : Decodes(g.cur.cmds, tr, {}) /\ Maps(tr, {}) = {}
<1>1. 0 % AddrWindow = 0
  BY ArgumentAssumption, SMT
<1>2. Len(<<>>) = 0 /\ 1..0 = {}
  BY SMT
<1>3. \A tr : Decodes(<<>>, tr, {}) /\ Maps(tr, {}) = {}
  BY <1>2 DEF Decodes, Maps
<1> QED BY <1>1, <1>3, SettingFirst DEF Blank

\* What Follows says, with the names of the lemmas above.
LEMMA FollowsIs ==
    ASSUME NEW g, NEW tr
    PROVE  Follows(g, tr) <=>
             /\ g.mPl0NumTrans = Len(tr)
             /\ \A k \in 1..NumPkts(g) : /\ LastOf(g, k) <= Len(tr)
                                         /\ Decodes(CmdsOf(g, k), tr, Mine(g, k))
                                         /\ MaskOf(g, k) = Maps(tr, Mine(g, k))
             /\ Now(g.cur.cmds, "ADDR_MAP") = g.cur.mPl0AddrMap
             /\ Now(g.cur.cmds, "ACCESS_MODE") = g.cur.mPl0AccMode
             /\ Now(g.cur.cmds, "BASE_ADDR") = g.cur.mPl0BaseAddr
             /\ g.cur.mPl0BaseAddr % AddrWindow = 0
BY Zenon DEF Follows, Now

LEMMA EmptyFollows ==
    ASSUME NEW c
    PROVE  Follows(EmptyRequest(c), <<>>)
<1> DEFINE g == EmptyRequest(c)
<1>1. /\ g.mRqBuf = <<>> /\ g.mPl0NumTrans = 0 /\ g.cur = mPl2PktInit
  BY DEF EmptyRequest
<1> HIDE DEF g
<1>2. Len(<<>>) = 0
  BY SMT
<1>3. ASSUME NEW k \in 1..NumPkts(g)
      PROVE  k = 1 /\ k # 0 /\ ~(k <= 0) /\ k - 1 = 0
  BY <1>1, <1>2, SMT DEF NumPkts
<1>4. (0 + 1)..0 = {} /\ 0 <= 0
  BY SMT
<1>5. Blank(g.cur)
  BY <1>1, BlankPkts
<1>6. ASSUME NEW k \in 1..NumPkts(g)
      PROVE  /\ LastOf(g, k) <= Len(<<>>)
             /\ Decodes(CmdsOf(g, k), <<>>, Mine(g, k))
             /\ MaskOf(g, k) = Maps(<<>>, Mine(g, k))
  <2>1. CmdsOf(g, k) = g.cur.cmds /\ LastOf(g, k) = 0 /\ LastOf(g, k - 1) = 0
        /\ MaskOf(g, k) = g.cur.mPl0AddrMapMask
    BY <1>1, <1>2, <1>3 DEF CmdsOf, LastOf, MaskOf
  <2>2. Mine(g, k) = {}
    BY <1>4, <2>1 DEF Mine
  <2>3. g.cur.mPl0AddrMapMask = {}
    BY <1>5 DEF Blank
  <2> QED BY <1>2, <1>4, <1>5, <2>1, <2>2, <2>3, BlankSettings
<1>7. g.mPl0NumTrans = Len(<<>>)
  BY <1>1, <1>2
<1> QED BY <1>5, <1>6, <1>7, BlankSettings, FollowsIs DEF g

\* Closing a packet.
LEMMA CloseFollows ==
    ASSUME NEW g, g \in Request, NEW next, Blank(next), NEW tr, tr \in Seq(Pl0Trans), Follows(g, tr)
    PROVE  Follows(ClosePkt(g, next), tr)
<1> DEFINE h == ClosePkt(g, next)
           n == Len(g.mRqBuf)
           new == Closed(g)
<1>1. g.mRqBuf \in Seq(Packet) /\ n \in Nat /\ new \in Packet /\ Len(tr) \in Nat
  BY RequestFields, LenProperties, ClosedType
<1>2. h.mRqBuf = Append(g.mRqBuf, new) /\ h.mPl0NumTrans = g.mPl0NumTrans /\ h.cur = next
  BY DEF ClosePkt
<1>3. new.cmds = g.cur.cmds /\ new.num_pl0_rw = g.mPl0NumTrans /\ new.addr_map_mask = g.cur.mPl0AddrMapMask
  BY DEF Closed
<1> HIDE DEF h, new
<1>4. /\ Len(h.mRqBuf) = n + 1 /\ h.mRqBuf[n + 1] = new
      /\ \A k \in 1..n : h.mRqBuf[k] = g.mRqBuf[k]
  BY <1>1, <1>2, AppendProperties
<1>5. /\ g.mPl0NumTrans = Len(tr)
      /\ \A k \in 1..(n + 1) : /\ LastOf(g, k) <= Len(tr)
                               /\ Decodes(CmdsOf(g, k), tr, Mine(g, k))
                               /\ MaskOf(g, k) = Maps(tr, Mine(g, k))
  BY FollowsIs DEF NumPkts
<1>6. ASSUME NEW k \in 1..(n + 1)
      PROVE  CmdsOf(h, k) = CmdsOf(g, k) /\ LastOf(h, k) = LastOf(g, k) /\ MaskOf(h, k) = MaskOf(g, k)
  <2>1. k <= Len(h.mRqBuf) /\ k # 0
    BY <1>1, <1>4, SMT
  <2>2. CASE k \in 1..n
    <3>1. k <= n
      BY <1>1, <2>2, SMT
    <3> QED BY <1>4, <2>1, <2>2, <3>1 DEF CmdsOf, LastOf, MaskOf
  <2>3. CASE k = n + 1
    <3>1. ~(k <= n)
      BY <1>1, <2>3, SMT
    <3> QED BY <1>3, <1>4, <2>1, <2>3, <3>1 DEF CmdsOf, LastOf, MaskOf
  <2>4. k \in 1..n \/ k = n + 1
    BY <1>1, SMT
  <2> QED BY <2>2, <2>3, <2>4
<1>7. \A k \in 1..(n + 1) : LastOf(h, k - 1) = LastOf(g, k - 1)
  <2> TAKE k \in 1..(n + 1)
  <2>1. k - 1 = 0 \/ k - 1 \in 1..(n + 1)
    BY <1>1, SMT
  <2> QED BY <1>6, <2>1 DEF LastOf
<1>8. \A k \in 1..(n + 1) : Mine(h, k) = Mine(g, k)
  BY <1>6, <1>7 DEF Mine
<1>9. /\ CmdsOf(h, n + 2) = h.cur.cmds /\ MaskOf(h, n + 2) = h.cur.mPl0AddrMapMask
      /\ LastOf(h, n + 2) = Len(tr) /\ LastOf(h, (n + 2) - 1) = Len(tr)
  <2>1. ~(n + 2 <= n + 1) /\ n + 2 # 0 /\ n + 1 # 0 /\ (n + 2) - 1 = n + 1 /\ n + 1 <= n + 1
    BY <1>1, SMT
  <2> QED BY <1>2, <1>3, <1>4, <1>5, <2>1 DEF CmdsOf, LastOf, MaskOf
<1>10. Mine(h, n + 2) = {} /\ Len(tr) <= Len(tr)
  <2>1. (Len(tr) + 1)..Len(tr) = {} /\ Len(tr) <= Len(tr)
    BY <1>1, SMT
  <2> QED BY <1>9, <2>1 DEF Mine
<1>11. ASSUME NEW k \in 1..NumPkts(h)
       PROVE  /\ LastOf(h, k) <= Len(tr)
              /\ Decodes(CmdsOf(h, k), tr, Mine(h, k))
              /\ MaskOf(h, k) = Maps(tr, Mine(h, k))
  <2>1. k \in 1..(n + 1) \/ k = n + 2
    BY <1>1, <1>4, SMT DEF NumPkts
  <2>2. CASE k \in 1..(n + 1)
    BY <1>5, <1>6, <1>8, <2>2
  <2>3. CASE k = n + 2
    <3>1. h.cur.mPl0AddrMapMask = {} /\ Blank(h.cur)
      BY <1>2 DEF Blank
    <3> QED BY <1>9, <1>10, <2>3, <3>1, BlankSettings
  <2> QED BY <2>1, <2>2, <2>3
<1>12. Blank(h.cur)
  BY <1>2
<1> QED BY <1>2, <1>5, <1>11, <1>12, BlankSettings, FollowsIs DEF h

LEMMA FinalizeIfFollows ==
    ASSUME NEW g, g \in Request, NEW tr, tr \in Seq(Pl0Trans), Follows(g, tr), NEW cond
    PROVE  Follows(FinalizeIf(cond, g), tr)
<1>1. Follows(mPktFinalize(g), tr)
  BY CloseFollows, BlankPkts DEF mPktFinalize
<1> QED BY <1>1 DEF FinalizeIf

--------------------------------------------------------------------------------
\* The access x that command cmd makes of the settings it is given.
Stands(cmd, x, a, acc, am) ==
    /\ IsAccess(cmd)
    /\ x.type = IF cmd.cmd \in {"RD", "RDBLK"} THEN "RD"
                ELSE IF cmd.cmd \in {"WR", "WRBLK"} THEN "WR" ELSE "FILL"
    /\ cmd.val = a % AddrWindow /\ x.addr = a
    /\ x.num_bytes = NumBytes(cmd)
    /\ x.acc_mode = acc /\ x.addr_map = am

\* Request h has got the access x after those of tr.
Extends(h, tr, x, acc, am) ==
    Follows(h, Append(tr, x)) /\ h.cur.mPl0AccMode = acc /\ h.cur.mPl0AddrMap = am

\* Adding an access to the packet under construction.
LEMMA EmitFollows ==
    ASSUME NEW g, g \in Request, NEW tr, tr \in Seq(Pl0Trans), Follows(g, tr),
           NEW a, a \in Nat, NEW acc, acc \in Nat, NEW am, am \in AddrMapId,
           NEW cmd, cmd \in Command, NEW rq, NEW rsp, NEW x, x \in Pl0Trans,
           Stands(cmd, x, a, acc, am),
           NEW h, h = Emit(g, a, acc, am, cmd, rq, rsp),
           x.pos = Len(h.cur.cmds)
    PROVE  Extends(h, tr, x, acc, am)
<1> DEFINE w == Prepared(g, a, acc, am)
           e == Append(w, cmd)
           n == Len(g.mRqBuf)
           N == Len(tr)
           t2 == Append(tr, x)
<1>1. n \in Nat /\ N \in Nat /\ w \in Seq(Command)
  BY RequestFields, LenProperties, PreparedIs
<1>2. /\ h.mRqBuf = g.mRqBuf /\ h.mPl0NumTrans = g.mPl0NumTrans + 1
      /\ h.cur.cmds = e
      /\ h.cur.mPl0AddrMap = am /\ h.cur.mPl0AccMode = acc /\ h.cur.mPl0BaseAddr = BaseFor(g, a)
      /\ h.cur.mPl0AddrMapMask = g.cur.mPl0AddrMapMask \cup {am}
  BY PreparedIs DEF Emit
<1>3. /\ g.mPl0NumTrans = N
      /\ \A k \in 1..(n + 1) : /\ LastOf(g, k) <= N
                               /\ Decodes(CmdsOf(g, k), tr, Mine(g, k))
                               /\ MaskOf(g, k) = Maps(tr, Mine(g, k))
      /\ Now(g.cur.cmds, "ADDR_MAP") = g.cur.mPl0AddrMap
      /\ Now(g.cur.cmds, "ACCESS_MODE") = g.cur.mPl0AccMode
      /\ Now(g.cur.cmds, "BASE_ADDR") = g.cur.mPl0BaseAddr
      /\ g.cur.mPl0BaseAddr % AddrWindow = 0
  BY FollowsIs DEF NumPkts
<1>4. x.pos = Len(e)
  BY <1>2
<1> HIDE DEF e, w
<1>5. Len(t2) = N + 1 /\ t2[N + 1] = x /\ \A p \in 1..N : t2[p] = tr[p]
  BY AppendProperties
<1>6. Len(e) = Len(w) + 1 /\ Len(w) \in Nat /\ e[Len(w) + 1] = cmd /\ e \in Seq(Command)
  BY <1>1, AppendProperties, LenProperties DEF e
\* The packets before.
<1>7. ASSUME NEW k \in 1..n
      PROVE  /\ LastOf(h, k) <= N + 1
             /\ Decodes(CmdsOf(h, k), t2, Mine(h, k))
             /\ MaskOf(h, k) = Maps(t2, Mine(h, k))
  <2>1. k <= n /\ k # 0 /\ k \in 1..(n + 1) /\ k - 1 <= n
    BY <1>1, SMT
  <2>2. CmdsOf(h, k) = CmdsOf(g, k) /\ LastOf(h, k) = LastOf(g, k) /\ MaskOf(h, k) = MaskOf(g, k)
        /\ LastOf(h, k - 1) = LastOf(g, k - 1)
    BY <1>2, <2>1 DEF CmdsOf, LastOf, MaskOf
  <2>3. Mine(h, k) = Mine(g, k)
    BY <2>2 DEF Mine
  <2>4. Mine(g, k) \in SUBSET (1..N)
    BY <2>1, MineIn
  <2>5. LastOf(g, k) \in Nat /\ LastOf(g, k) <= N
    <3>1. k \in 0..(n + 1)
      BY <1>1, SMT
    <3> QED BY <1>3, <2>1, <3>1, LastOfType
  <2>6. LastOf(h, k) <= N + 1
    <3>1. PICK m : m = LastOf(g, k)
      OBVIOUS
    <3>2. m <= N + 1
      BY <1>1, <2>5, <3>1, SMT
    <3> QED BY <2>2, <3>1, <3>2
  <2>7. Decodes(CmdsOf(g, k), t2, Mine(g, k)) /\ Maps(t2, Mine(g, k)) = Maps(tr, Mine(g, k))
    BY <1>3, <2>1, <2>4, DecodesStays
  <2> QED BY <1>3, <2>1, <2>2, <2>3, <2>6, <2>7
\* The packet under construction.
<1>8. PICK lo : lo = LastOf(g, n)
  OBVIOUS
<1>9. lo \in Nat /\ lo <= N
  <2>1. n \in 0..(n + 1)
    BY <1>1, SMT
  <2>2. lo \in Nat
    BY <1>8, <2>1, LastOfType
  <2>3. CASE n = 0
    <3>1. lo = 0
      BY <1>8, <2>3 DEF LastOf
    <3> QED BY <1>1, <2>2, <3>1, SMT
  <2>4. CASE n # 0
    <3>1. n \in 1..(n + 1)
      BY <1>1, <2>4, SMT
    <3> QED BY <1>3, <1>8, <2>2, <3>1
  <2> QED BY <2>3, <2>4
<1>10. ~(n + 1 <= n) /\ n + 1 # 0 /\ (n + 1) - 1 = n /\ n + 1 \in 1..(n + 1) /\ n <= n
  BY <1>1, SMT
<1>11. /\ CmdsOf(g, n + 1) = g.cur.cmds /\ MaskOf(g, n + 1) = g.cur.mPl0AddrMapMask
       /\ Mine(g, n + 1) = (lo + 1)..N
  BY <1>3, <1>8, <1>10 DEF CmdsOf, MaskOf, LastOf, Mine
<1>12. LastOf(h, n) = lo
  BY <1>2, <1>8, <1>10 DEF LastOf
<1>13. /\ CmdsOf(h, n + 1) = e /\ MaskOf(h, n + 1) = g.cur.mPl0AddrMapMask \cup {am}
       /\ LastOf(h, n + 1) = N + 1 /\ Mine(h, n + 1) = (lo + 1)..(N + 1)
  BY <1>2, <1>3, <1>10, <1>12 DEF CmdsOf, MaskOf, LastOf, Mine
<1>14. Decodes(g.cur.cmds, tr, (lo + 1)..N) /\ g.cur.mPl0AddrMapMask = Maps(tr, (lo + 1)..N)
  BY <1>3, <1>10, <1>11
<1>15. /\ Now(w, "ADDR_MAP") = am /\ Now(w, "ACCESS_MODE") = acc
       /\ Now(w, "BASE_ADDR") = BaseFor(g, a)
       /\ Decodes(w, tr, (lo + 1)..N)
  BY <1>3, <1>14, PreparedSettings DEF w
<1>16. /\ BaseFor(g, a) + (a % AddrWindow) = a
       /\ BaseFor(g, a) % AddrWindow = 0
  <2>1. AddrWindow \in Nat /\ AddrWindow > 0 /\ g.cur.mPl0BaseAddr \in Nat
    BY ArgumentAssumption, OpenPacketFields
  <2>2. /\ InWindow(g, a) => g.cur.mPl0BaseAddr + (a % AddrWindow) = a
        /\ (a - (a % AddrWindow)) + (a % AddrWindow) = a
        /\ (a - (a % AddrWindow)) % AddrWindow = 0
    <3>1. PICK base : base = g.cur.mPl0BaseAddr
      OBVIOUS
    <3>2. base \in Nat /\ base % AddrWindow = 0
      BY <1>3, <2>1, <3>1
    <3>3. /\ base <= a /\ a <= base + (AddrWindow - 1) => base + (a % AddrWindow) = a
          /\ (a - (a % AddrWindow)) + (a % AddrWindow) = a
          /\ (a - (a % AddrWindow)) % AddrWindow = 0
      BY <2>1, <3>2, Window
    <3> QED BY <3>1, <3>3 DEF InWindow
  <2> QED BY <1>3, <2>2 DEF BaseFor
<1>17. Executes(e, Len(w) + 1, x)
  <2>1. \A c : Setting(e, Len(w) + 1, c) = Now(w, c)
    <3>1. Len(w) + 1 \in 1..(Len(w) + 1)
      BY <1>6, SMT
    <3> QED BY <1>1, <3>1, SettingStays DEF Now, e
  <2>2. /\ x.type = IF cmd.cmd \in {"RD", "RDBLK"} THEN "RD"
                    ELSE IF cmd.cmd \in {"WR", "WRBLK"} THEN "WR" ELSE "FILL"
        /\ cmd.val = a % AddrWindow /\ x.addr = a
        /\ x.num_bytes = NumBytes(cmd)
        /\ x.acc_mode = acc /\ x.addr_map = am
    BY DEF Stands
  <2>3. x.addr = Setting(e, Len(w) + 1, "BASE_ADDR") + e[Len(w) + 1].val
    BY <1>6, <1>15, <1>16, <2>1, <2>2
  <2> QED BY <1>6, <1>15, <2>1, <2>2, <2>3 DEF Executes
<1>18. Decodes(e, t2, (lo + 1)..(N + 1))
  <2>1. IsAccess(cmd) /\ x.pos = Len(w) + 1 /\ Executes(Append(w, cmd), Len(w) + 1, x)
    BY <1>4, <1>6, <1>17 DEF Stands, e
  <2> QED BY <1>1, <1>9, <1>15, <2>1, DecodesAccess DEF e
<1>19. g.cur.mPl0AddrMapMask \cup {am} = Maps(t2, (lo + 1)..(N + 1))
  <2>1. \A p : p \in (lo + 1)..(N + 1) <=> (p \in (lo + 1)..N \/ p = N + 1)
    BY <1>1, <1>9, SMT
  <2>2. \A p \in (lo + 1)..N : p \in 1..N
    BY <1>1, <1>9, SMT
  <2>3. \A p \in (lo + 1)..N : t2[p] = tr[p]
    BY <1>5, <2>2
  <2>4. t2[N + 1].addr_map = am
    BY <1>5 DEF Stands
  <2> QED BY <1>14, <2>1, <2>3, <2>4 DEF Maps
<1>20. ASSUME NEW k \in 1..NumPkts(h)
       PROVE  /\ LastOf(h, k) <= Len(t2)
              /\ Decodes(CmdsOf(h, k), t2, Mine(h, k))
              /\ MaskOf(h, k) = Maps(t2, Mine(h, k))
  <2>1. k \in 1..n \/ k = n + 1
    BY <1>1, <1>2, SMT DEF NumPkts
  <2>2. CASE k \in 1..n
    BY <1>5, <1>7, <2>2
  <2>3. CASE k = n + 1
    <3>1. N + 1 <= N + 1
      BY <1>1, SMT
    <3> QED BY <1>5, <1>13, <1>18, <1>19, <2>3, <3>1
  <2> QED BY <2>1, <2>2, <2>3
<1>21. /\ Now(e, "ADDR_MAP") = am /\ Now(e, "ACCESS_MODE") = acc
       /\ Now(e, "BASE_ADDR") = BaseFor(g, a)
  <2>1. cmd.cmd # "ADDR_MAP" /\ cmd.cmd # "ACCESS_MODE" /\ cmd.cmd # "BASE_ADDR"
    BY DEF Stands, IsAccess
  <2> QED BY <1>1, <1>15, <2>1, SettingAfter DEF e
<1>22. h.mPl0NumTrans = Len(t2)
  BY <1>2, <1>3, <1>5
<1>23. Follows(h, t2)
  BY <1>2, <1>16, <1>20, <1>21, <1>22, FollowsIs
<1> QED BY <1>2, <1>23 DEF Extends

\* The part common to the three mPktAdd_*() methods.
LEMMA PktAddFollows ==
    ASSUME NEW g, g \in Request, NEW tr, tr \in Seq(Pl0Trans), Follows(g, tr),
           NEW a, a \in Nat, NEW acc, acc \in Nat, NEW am, am \in AddrMapId,
           NEW needRq, NEW needRsp, NEW cmd, cmd \in Command, NEW rq, NEW rsp,
           NEW x, x \in Pl0Trans, Stands(cmd, x, a, acc, am),
           NEW h, h = PktAdd(g, a, acc, am, needRq, needRsp, cmd, rq, rsp),
           x.pos = Len(h.cur.cmds)
    PROVE  Extends(h, tr, x, acc, am)
<1> DEFINE g1 == FinalizeIf(g.cur.mPl2NumTrans >= Pl0MaxNumRw, g)
<1>1. PICK c : h = Emit(FinalizeIf(c, g1), a, acc, am, cmd, rq, rsp)
  BY Zenon DEF PktAdd, mPktFinalizeIfNeeded
<1>2. g1 \in Request /\ Follows(g1, tr)
  BY FinalizeIfType, FinalizeIfFollows
<1> HIDE DEF g1
<1>3. PICK g2 : g2 = FinalizeIf(c, g1)
  OBVIOUS
<1>4. g2 \in Request /\ Follows(g2, tr)
  BY <1>2, <1>3, FinalizeIfType, FinalizeIfFollows
<1>5. h = Emit(g2, a, acc, am, cmd, rq, rsp)
  BY <1>1, <1>3
<1> QED BY <1>4, <1>5, EmitFollows

--------------------------------------------------------------------------------
\* The access Added() records for request h.
AccessOf(type, h, a, n, rw) ==
    [type |-> type, addr |-> a, num_bytes |-> n, acc_mode |-> h.cur.mPl0AccMode,
     addr_map |-> h.cur.mPl0AddrMap, rw |-> rw, pos |-> Len(h.cur.cmds)]

\* The commands the three mPktAdd_*() methods write.
CmdOf(type, a, n) ==
    IF type = "FILL" THEN Cmd("FILL", a % AddrWindow, Wl(n))
    ELSE IF n <= 8 THEN Cmd(type, a % AddrWindow, n)
    ELSE Cmd(IF type = "RD" THEN "RDBLK" ELSE "WRBLK", a % AddrWindow, Wl(n))

\* The sizes an access can have.
SizeOk(type, n) ==
    /\ n > 0 /\ n <= 1024
    /\ n <= 8 \/ n % 8 = 0
    /\ type = "FILL" => n % 8 = 0

\* A block of 256 words is encoded as 0, and decoded as 256 words again.
LEMMA WlDecodes ==
    ASSUME NEW n, n \in Nat, n > 0, n <= 1024, n % 8 = 0
    PROVE  n = IF Wl(n) = 0 THEN 1024 ELSE 4 * Wl(n)
<1>1. PICK k \in Nat : n = 8 * k
  <2>1. n \div 8 \in Nat /\ n = 8 * (n \div 8)
    BY SMT
  <2> QED BY <2>1
<1>2. n \div 4 = 2 * k /\ k > 0 /\ k <= 128
  BY <1>1, SMT
<1>3. Wl(n) = (2 * k) % 256
  BY <1>2 DEF Wl
<1>4. CASE k = 128
  BY <1>1, <1>3, <1>4, SMT
<1>5. CASE k < 128
  <2>1. (2 * k) % 256 = 2 * k
    BY <1>1, <1>5, SMT
  <2> QED BY <1>1, <1>2, <1>3, <2>1, SMT
<1> QED BY <1>1, <1>2, <1>4, <1>5, SMT

LEMMA CmdStands ==
    ASSUME NEW type, type \in {"RD", "WR", "FILL"}, NEW a, a \in Nat, NEW n, n \in Nat,
           SizeOk(type, n), NEW x, x.type = type, x.addr = a, x.num_bytes = n,
           NEW acc, x.acc_mode = acc, NEW am, x.addr_map = am
    PROVE  CmdOf(type, a, n) \in Command /\ Stands(CmdOf(type, a, n), x, a, acc, am)
<1> DEFINE off == a % AddrWindow
           wl == Wl(n)
           c == CmdOf(type, a, n)
<1>1. off \in Nat /\ wl \in Nat
  BY AccessSizes
<1>2. n > 8 => n % 8 = 0
  BY SMT DEF SizeOk
<1>3. n % 8 = 0 => n = IF wl = 0 THEN 1024 ELSE 4 * wl
  BY WlDecodes DEF SizeOk
<1>4. n <= 8 \/ n > 8
  BY SMT
<1> HIDE DEF off, wl
<1>5. CASE type = "FILL"
  <2>1. c = Cmd("FILL", off, wl)
    BY <1>5 DEF CmdOf, off, wl
  <2>2. n % 8 = 0
    BY <1>5 DEF SizeOk
  <2>3. NumBytes(c) = n
    BY <1>3, <2>1, <2>2 DEF NumBytes, Cmd
  <2>4. c \in Command
    BY <1>1, <2>1, CmdType
  <2>5. IsAccess(c) /\ c.cmd = "FILL" /\ c.val = off
    BY <2>1 DEF IsAccess, Cmd
  <2> HIDE DEF c
  <2>6. Stands(c, x, a, acc, am)
    BY <1>5, <2>3, <2>5 DEF Stands, off
  <2> QED BY <2>4, <2>6 DEF c
<1>6. CASE type # "FILL" /\ n <= 8
  <2>1. c = Cmd(type, off, n) /\ type \in {"RD", "WR"}
    BY <1>6 DEF CmdOf, off
  <2>2. NumBytes(c) = n
    BY <2>1 DEF NumBytes, Cmd
  <2>3. c \in Command
    BY <1>1, <2>1, CmdType
  <2>4. IsAccess(c) /\ c.cmd = type /\ c.val = off
    BY <2>1 DEF IsAccess, Cmd
  <2> HIDE DEF c
  <2>5. Stands(c, x, a, acc, am)
    BY <2>1, <2>2, <2>4 DEF Stands, off
  <2> QED BY <2>3, <2>5 DEF c
<1>7. CASE type # "FILL" /\ n > 8
  <2>1. ~(n <= 8)
    BY <1>7, SMT
  <2> DEFINE k == IF type = "RD" THEN "RDBLK" ELSE "WRBLK"
  <2>2. c = Cmd(k, off, wl) /\ type \in {"RD", "WR"}
    BY <1>7, <2>1 DEF CmdOf, off, wl
  <2>3. NumBytes(c) = n
    BY <1>2, <1>3, <1>7, <2>2 DEF NumBytes, Cmd
  <2>4. c \in Command
    BY <1>1, <2>2, CmdType
  <2>5. IsAccess(c) /\ c.cmd = k /\ c.val = off
    BY <2>2 DEF IsAccess, Cmd
  <2>6. type = IF k \in {"RD", "RDBLK"} THEN "RD" ELSE IF k \in {"WR", "WRBLK"} THEN "WR" ELSE "FILL"
    BY <2>2
  <2> HIDE DEF c, k
  <2>7. Stands(c, x, a, acc, am)
    BY <2>3, <2>5, <2>6 DEF Stands, off
  <2> QED BY <2>4, <2>7 DEF c
<1> QED BY <1>4, <1>5, <1>6, <1>7

\* An access has the settings of the packet it is in.
LEMMA PktAddSettings ==
    ASSUME NEW g, NEW a, NEW acc, NEW am, NEW needRq, NEW needRsp, NEW cmd, NEW rq, NEW rsp,
           NEW h, h = PktAdd(g, a, acc, am, needRq, needRsp, cmd, rq, rsp)
    PROVE  h.cur.mPl0AccMode = acc /\ h.cur.mPl0AddrMap = am
BY Zenon DEF PktAdd, Emit

LEMMA PktAddAccess ==
    ASSUME NEW g, g \in Request, NEW tr, tr \in Seq(Pl0Trans), Follows(g, tr),
           NEW type, type \in {"RD", "WR", "FILL"}, NEW a, a \in Nat, NEW n, n \in Nat, SizeOk(type, n),
           NEW acc, acc \in Nat, NEW am, am \in AddrMapId, NEW rw, rw \in Nat,
           NEW needRq, NEW needRsp, NEW rq, NEW rsp,
           NEW h, h \in Request, h = PktAdd(g, a, acc, am, needRq, needRsp, CmdOf(type, a, n), rq, rsp)
    PROVE  AccessOf(type, h, a, n, rw) \in Pl0Trans
           /\ Extends(h, tr, AccessOf(type, h, a, n, rw), acc, am)
<1>1. PICK x : x = AccessOf(type, h, a, n, rw)
  OBVIOUS
<1>2. PICK c : c = CmdOf(type, a, n)
  OBVIOUS
<1>3. h.cur.mPl0AccMode = acc /\ h.cur.mPl0AddrMap = am /\ Len(h.cur.cmds) \in Nat
  BY PktAddSettings, OpenPacketFields, LenProperties
<1>4. /\ x.type = type /\ x.addr = a /\ x.num_bytes = n /\ x.acc_mode = acc /\ x.addr_map = am
      /\ x.pos = Len(h.cur.cmds)
  BY <1>1, <1>3 DEF AccessOf
<1>5. x \in Pl0Trans
  <2>1. x = [type |-> type, addr |-> a, num_bytes |-> n, acc_mode |-> acc, addr_map |-> am,
             rw |-> rw, pos |-> Len(h.cur.cmds)]
    BY <1>1, <1>3 DEF AccessOf
  <2> QED BY <1>3, <2>1, SMT DEF Pl0Trans
<1>6. c \in Command /\ Stands(c, x, a, acc, am)
  BY <1>2, <1>4, CmdStands
<1>7. h = PktAdd(g, a, acc, am, needRq, needRsp, c, rq, rsp)
  BY <1>2
<1>8. Extends(h, tr, x, acc, am)
  BY <1>4, <1>5, <1>6, <1>7, PktAddFollows
<1> QED BY <1>1, <1>5, <1>8

\* What the request is after the access of a turn.
AfterAccess(type, g, a, n, acc, am) ==
    IF type = "RD" THEN mPktAdd_Rd(g, a, n, acc, am)
    ELSE IF type = "WR" THEN mPktAdd_Wr(g, a, n, acc, am)
    ELSE mPktAdd_Fill(g, a, n, acc, am)

LEMMA AccessFollows ==
    ASSUME NEW g, g \in Request, NEW tr, tr \in Seq(Pl0Trans), Follows(g, tr),
           NEW type, type \in {"RD", "WR", "FILL"}, NEW a, a \in Nat, NEW n, n \in Nat, SizeOk(type, n),
           NEW acc, acc \in Nat, NEW am, am \in AddrMapId, NEW rw, rw \in Nat,
           NEW h, h = AfterAccess(type, g, a, n, acc, am),
           NEW x, x = AccessOf(type, h, a, n, rw)
    PROVE  h \in Request /\ x \in Pl0Trans /\ Extends(h, tr, x, acc, am)
<1>1. h \in Request
  BY AddType DEF AfterAccess
<1>2. n # 0
  BY SMT DEF SizeOk
<1>3. PICK needRq, needRsp, rq, rsp :
        h = PktAdd(g, a, acc, am, needRq, needRsp, CmdOf(type, a, n), rq, rsp)
  <2>1. CASE type = "RD"
    <3>1. CmdOf(type, a, n) = IF n <= 8 THEN Cmd("RD", a % AddrWindow, n)
                              ELSE Cmd("RDBLK", a % AddrWindow, Wl(n))
      BY <2>1 DEF CmdOf
    <3> QED BY <1>2, <2>1, <3>1, Zenon DEF mPktAdd_Rd, AfterAccess
  <2>2. CASE type = "WR"
    <3>1. CmdOf(type, a, n) = IF n <= 8 THEN Cmd("WR", a % AddrWindow, n)
                              ELSE Cmd("WRBLK", a % AddrWindow, Wl(n))
      BY <2>2 DEF CmdOf
    <3> QED BY <1>2, <2>2, <3>1, Zenon DEF mPktAdd_Wr, AfterAccess
  <2>3. CASE type = "FILL"
    <3>1. CmdOf(type, a, n) = Cmd("FILL", a % AddrWindow, Wl(n))
      BY <2>3 DEF CmdOf
    <3> QED BY <1>2, <2>3, <3>1, Zenon DEF mPktAdd_Fill, AfterAccess
  <2> QED BY <2>1, <2>2, <2>3
<1> QED BY <1>1, <1>3, PktAddAccess

--------------------------------------------------------------------------------
(* The steps.                                                                 *)

Fits == Follows(b, mPl0Trans) /\ Tiles

LEMMA TurnIs ==
    ASSUME op \in Operation, AddPiece \/ AddFill
    PROVE  LET h == AfterAccess(op.type, b, op.a, PieceSize, op.acc_mode, op.addr_map)
           IN  /\ op.nb > 0 /\ Added(h, PieceSize)
               /\ \E full : b' = FinalizeIf(full, h)
<1>1. op.type \in {"RD", "WR", "FILL"}
  BY OperationFields
<1>2. PICK h : h = AfterAccess(op.type, b, op.a, PieceSize, op.acc_mode, op.addr_map)
  OBVIOUS
<1>3. CASE AddPiece
  <2>1. op.type # "FILL" /\ op.nb > 0
    BY <1>3 DEF AddPiece, Busy
  <2>2. h = IF op.type = "RD" THEN mPktAdd_Rd(b, op.a, PieceSize, op.acc_mode, op.addr_map)
            ELSE mPktAdd_Wr(b, op.a, PieceSize, op.acc_mode, op.addr_map)
    BY <1>1, <1>2, <2>1 DEF AfterAccess
  <2>3. Added(h, PieceSize) /\ \E full : b' = FinalizeIf(full, h)
    BY <1>3, <2>2 DEF AddPiece
  <2> QED BY <1>2, <2>1, <2>3
<1>4. CASE AddFill
  <2>1. op.type = "FILL" /\ op.nb > 0
    BY <1>4 DEF AddFill, Busy
  <2>2. h = mPktAdd_Fill(b, op.a, PieceSize, op.acc_mode, op.addr_map)
    BY <1>2, <2>1 DEF AfterAccess
  <2>3. Added(h, PieceSize) /\ b' = h
    BY <1>4, <2>2 DEF AddFill
  <2>4. b' = FinalizeIf(FALSE, h)
    BY <2>3 DEF FinalizeIf
  <2> QED BY <1>2, <2>1, <2>3, <2>4
<1> QED BY <1>3, <1>4

LEMMA TurnFits ==
    ASSUME TypeOK, Fits, AddPiece \/ AddFill
    PROVE  Fits'
<1>a. PICK tr : tr = mPl0Trans
  OBVIOUS
<1>b. PICK n : n = PieceSize
  OBVIOUS
<1>c. PICK g : g = b
  OBVIOUS
<1>d. PICK o : o = op
  OBVIOUS
<1>e. PICK done : done = Len(mRwTrans)
  OBVIOUS
<1>1. b \in Request /\ op \in Operation /\ tr \in Seq(Pl0Trans) /\ mRwTrans \in Seq(Trans)
  BY <1>a DEF TypeOK
<1>2. PICK h : h = AfterAccess(o.type, g, o.a, n, o.acc_mode, o.addr_map)
  OBVIOUS
<1>3. op.nb > 0 /\ Added(h, n) /\ \E full : b' = FinalizeIf(full, h)
  BY <1>1, <1>2, <1>b, <1>c, <1>d, TurnIs
<1>4. PICK full : b' = FinalizeIf(full, h)
  BY <1>3
<1>5. /\ o.type \in {"RD", "WR", "FILL"} /\ o.a \in Nat /\ o.nb \in Nat
      /\ o.acc_mode \in Nat /\ o.addr_map \in AddrMapId /\ g \in Request
  BY <1>1, <1>c, <1>d, OperationFields
<1>6. n \in Nat /\ n <= op.nb /\ n <= 1024 /\ (o.type = "FILL" => n > 0)
  BY <1>1, <1>3, <1>b, <1>d, PieceSizeFact
<1>7. op.type = "FILL" => op.a % 8 = 0 /\ op.nb % 8 = 0
  BY <1>3 DEF Fits, Tiles
<1>8. Follows(g, tr)
  BY <1>a, <1>c DEF Fits
<1>9. CASE n = 0
  <2>1. h = g
    BY <1>2, <1>5, <1>6, <1>9, SMT DEF AfterAccess, mPktAdd_Rd, mPktAdd_Wr
  <2>2. op.nb > n
    BY <1>3, <1>9
  <2>3. mPl0Trans' = mPl0Trans /\ mRwTrans' = mRwTrans /\ op' = [op EXCEPT !.a = @ + n, !.nb = @ - n]
    BY <1>3, <1>9, <2>2 DEF Added
  <2>4. op.a + n = op.a /\ op.nb - n = op.nb
    BY <1>5, <1>9, <1>d, SMT
  <2>5. op' = op
    BY <1>1, <2>3, <2>4, Zenon DEF Operation
  <2>6. Tiles'
    BY <2>3, <2>5, SameTiles DEF Fits
  <2>7. Follows(b', tr)
    BY <1>1, <1>4, <1>5, <1>8, <2>1, FinalizeIfFollows
  <2> QED BY <1>a, <2>3, <2>6, <2>7 DEF Fits
<1>10. CASE n # 0
  <2>1. n > 0
    BY <1>6, <1>10, SMT
  <2>2. /\ IF n <= 8 THEN tphrCheckIfNaturalAligned(op.a, n)
           ELSE op.a % 8 = 0 /\ n % 8 = 0 /\ n <= DataBlkSize
        /\ op.type = "FILL" => n % 8 = 0
    BY <1>1, <1>3, <1>7, <1>b, <2>1, PieceAligned
  <2>3. SizeOk(o.type, n)
    BY <1>6, <1>d, <2>1, <2>2 DEF SizeOk
  <2>4. done + 1 \in Nat
    BY <1>1, <1>e, LenProperties, SMT
  <2>5. PICK x : x = AccessOf(o.type, h, o.a, n, done + 1)
    OBVIOUS
  <2>7. h \in Request /\ x \in Pl0Trans /\ Extends(h, tr, x, o.acc_mode, o.addr_map)
    BY <1>1, <1>5, <1>6, <1>8, <2>3, <2>4, <2>5, <1>2, AccessFollows
  <2>8. mPl0Trans' = Append(tr, x)
    BY <1>3, <1>10, <1>a, <1>d, <1>e, <2>5, Zenon DEF Added, AccessOf
  <2>9. PICK t2 : t2 = Append(tr, x)
    OBVIOUS
  <2>10. Follows(h, t2) /\ h.cur.mPl0AccMode = o.acc_mode /\ h.cur.mPl0AddrMap = o.addr_map
    BY <2>7, <2>9 DEF Extends
  <2>11. t2 \in Seq(Pl0Trans)
    BY <1>1, <2>7, <2>9, AppendProperties
  <2>12. Follows(b', t2)
    BY <1>4, <2>7, <2>10, <2>11, FinalizeIfFollows
  <2>13. Tiles'
    BY <1>3, <1>6, <1>d, <2>1, <2>2, <2>7, <2>10, AddedTiles DEF Fits
  <2> QED BY <2>8, <2>9, <2>12, <2>13 DEF Fits
<1> QED BY <1>9, <1>10

LEMMA InitFits == Init => Fits
<1> SUFFICES ASSUME Init PROVE Fits
  OBVIOUS
<1>1. PICK c : b = EmptyRequest(c)
  BY DEF Init
<1>2. Follows(b, mPl0Trans)
  BY <1>1, EmptyFollows DEF Init
<1>3. mPl0Trans = <<>> /\ mRwTrans = <<>> /\ op.nb = 0
  BY DEF Init, NoOp
<1>4. Len(mPl0Trans) = 0 /\ Len(mRwTrans) = 0 /\ ~(op.nb > 0) /\ \A p : ~(p \in 1..0)
  BY <1>3, SMT
<1>5. Tiles
  BY <1>3, <1>4 DEF Tiles, AccessesTile, AccessesContinue, AccessesComplete, LastIsOf
<1> QED BY <1>2, <1>5 DEF Fits

LEMMA RestartFits ==
    ASSUME Restart, op'.nb = 0
    PROVE  Fits'
<1>1. Follows(b', mPl0Trans')
  <2>1. PICK c : c = b.mPl1CntOutstandingLast
    OBVIOUS
  <2> QED BY <2>1, EmptyFollows DEF Restart
<1>2. Tiles'
  BY NoTiles DEF Restart
<1> QED BY <1>1, <1>2 DEF Fits

LEMMA SameFits ==
    ASSUME Fits, UNCHANGED <<b, mPl0Trans, mRwTrans, op>>
    PROVE  Fits'
BY SameTiles DEF Fits

LEMMA RefuseFits ==
    ASSUME Fits, op.nb = 0, Refuse
    PROVE  Fits'
BY RestartFits, SameFits DEF Refuse, transVars

LEMMA BeginFits ==
    ASSUME TypeOK, Fits, op.nb = 0, NEW type, NEW c1, NEW c2, NEW addr, addr \in Nat, NEW n, n \in Nat,
           NEW acc, NEW am, Begin(type, FinalizeIf(c1, FinalizeIf(c2, b)), addr, n, acc, am),
           type = "FILL" => addr % 8 = 0 /\ n % 8 = 0
    PROVE  Fits'
<1>1. b \in Request /\ mPl0Trans \in Seq(Pl0Trans) /\ Follows(b, mPl0Trans)
  BY DEF TypeOK, Fits
<1>2. FinalizeIf(c2, b) \in Request /\ Follows(FinalizeIf(c2, b), mPl0Trans)
  BY <1>1, FinalizeIfType, FinalizeIfFollows
<1>3. Follows(FinalizeIf(c1, FinalizeIf(c2, b)), mPl0Trans)
  BY <1>1, <1>2, FinalizeIfFollows
<1>4. b' = FinalizeIf(c1, FinalizeIf(c2, b)) /\ mPl0Trans' = mPl0Trans
  BY DEF Begin, transVars
<1>5. Tiles'
  BY BeginTiles DEF Fits
<1> QED BY <1>3, <1>4, <1>5 DEF Fits

LEMMA GetRqFits ==
    ASSUME TypeOK, Fits, rw_get_rq
    PROVE  Fits'
<1>1. b \in Request /\ mPl0Trans \in Seq(Pl0Trans) /\ Follows(b, mPl0Trans)
  BY DEF TypeOK, Fits
<1>2. b' = ClosePkt(b, NoPkt) /\ mPl0Trans' = mPl0Trans /\ mRwTrans' = mRwTrans /\ op' = op
  BY DEF rw_get_rq, transVars
<1>3. Follows(ClosePkt(b, NoPkt), mPl0Trans)
  BY <1>1, CloseFollows, BlankPkts
<1>4. Tiles'
  BY <1>2, SameTiles DEF Fits
<1> QED BY <1>2, <1>3, <1>4 DEF Fits

LEMMA FitsStep == TypeOK /\ Fits /\ [Next]_vars => Fits'
<1> SUFFICES ASSUME TypeOK, Fits, [Next]_vars PROVE Fits'
  OBVIOUS
<1>1. CASE rw_start
  BY <1>1, RestartFits DEF rw_start, Idle
<1>2. ASSUME NEW addr \in Addrs, NEW n \in Sizes, NEW acc \in AccModes, NEW am \in AddrMaps,
             rw_add_rd(addr, n, acc, am)
      PROVE  Fits'
  <2>1. op.nb = 0 /\ addr \in Nat /\ n \in Nat
    BY <1>2, ArgumentTypes DEF rw_add_rd, CanAdd, Idle
  <2>2. Refuse \/ \E c1, c2 : Begin("RD", FinalizeIf(c1, FinalizeIf(c2, b)), addr, n, acc, AddrMapOf(am))
    BY <1>2 DEF rw_add_rd
  <2> QED BY <2>1, <2>2, RefuseFits, BeginFits
<1>3. ASSUME NEW addr \in Addrs, NEW n \in Sizes, NEW acc \in AccModes, NEW am \in AddrMaps,
             rw_add_wr(addr, n, acc, am)
      PROVE  Fits'
  <2>1. op.nb = 0 /\ addr \in Nat /\ n \in Nat
    BY <1>3, ArgumentTypes DEF rw_add_wr, CanAdd, Idle
  <2>2. Refuse \/ \E c1, c2 : Begin("WR", FinalizeIf(c1, FinalizeIf(c2, b)), addr, n, acc, AddrMapOf(am))
    BY <1>3 DEF rw_add_wr
  <2> QED BY <2>1, <2>2, RefuseFits, BeginFits
<1>4. ASSUME NEW addr \in Addrs, NEW n \in Sizes, NEW acc \in AccModes, NEW am \in AddrMaps,
             rw_add_fill(addr, n, acc, am)
      PROVE  Fits'
  <2>1. op.nb = 0 /\ addr \in Nat /\ n \in Nat
    BY <1>4, ArgumentTypes DEF rw_add_fill, CanAdd, Idle
  <2>2. \/ Refuse
        \/ /\ addr % 8 = 0 /\ n % 8 = 0
           /\ \E c1, c2 : Begin("FILL", FinalizeIf(c1, FinalizeIf(c2, b)), addr, n, acc, am)
    BY <1>4 DEF rw_add_fill
  <2> QED BY <2>1, <2>2, RefuseFits, BeginFits
<1>5. CASE AddPiece \/ AddFill
  BY <1>5, TurnFits
<1>6. CASE rw_set_trans
  BY <1>6, RestartFits DEF rw_set_trans, Idle
<1>7. CASE rw_set_trans_done
  BY <1>7, SameFits DEF rw_set_trans_done, transVars
<1>8. CASE rw_get_rq
  BY <1>8, GetRqFits
<1>9. CASE UNCHANGED vars
  BY <1>9, SameFits DEF vars
<1> QED
  BY <1>1, <1>2, <1>3, <1>4, <1>5, <1>6, <1>7, <1>8, <1>9 DEF Next

\* The inductive invariant holds in every reachable state.
THEOREM Invariance == Spec => []IInv
<1>1. PktInv => TypeOK
  BY DEF PktInv
<1>2. IInv <=> PktInv /\ Fits
  BY DEF IInv, Fits
<1>3. Init => IInv
  BY <1>2, InitPktInv, InitFits
<1>4. IInv /\ [Next]_vars => IInv'
  <2> SUFFICES ASSUME IInv, [Next]_vars PROVE IInv'
    OBVIOUS
  <2>1. PktInv' /\ Fits'
    BY <1>1, <1>2, PktInvStep, FitsStep
  <2> QED BY <2>1 DEF IInv, Fits
<1> QED BY <1>3, <1>4, PTL DEF Spec

--------------------------------------------------------------------------------
(* What follows.                                                              *)

\* No packet exceeds the accesses and the response the server announced, and
\* only block writes and fills can exceed the request size.
THEOREM PktLimitsCorrect == Spec => []PktLimits
<1>1. IInv => PktLimits
  BY DEF IInv, PktInv, Sent, PktLimits
<1> QED BY <1>1, Invariance, PTL

\* Every packet carries the count rw_set_rsp() expects for it.
THEOREM CountsCorrect == Spec => []CountsConsecutive
<1>1. IInv => CountsConsecutive
  BY DEF IInv, PktInv, Sent, CountsConsecutive
<1> QED BY <1>1, Invariance, PTL

\* Address maps from 12 on are alone in their packet.
THEOREM AddrMapsExclusiveCorrect == Spec => []AddrMapsExclusive
<1>1. IInv => AddrMapsExclusive
  <2> SUFFICES ASSUME IInv, NEW k \in 1..NumPkts(b) PROVE Exclusive(MaskOf(b, k))
    BY DEF AddrMapsExclusive
  <2>1. CASE k <= Len(b.mRqBuf)
    <3>1. b.mRqBuf \in Seq(Packet)
      BY RequestFields DEF IInv, PktInv, TypeOK
    <3>2. k \in 1..Len(b.mRqBuf)
      BY <2>1, <3>1, SMT DEF NumPkts
    <3>3. Exclusive(b.mRqBuf[k].addr_map_mask)
      BY <3>2 DEF IInv, PktInv, Sent
    <3> QED BY <2>1, <3>3 DEF MaskOf
  <2>2. CASE ~(k <= Len(b.mRqBuf))
    BY <2>2 DEF MaskOf, IInv, PktInv
  <2> QED BY <2>1, <2>2
<1> QED BY <1>1, Invariance, PTL

\* The PL0 accesses of a transaction tile it, whatever its alignment and however
\* it is divided over packets: no byte is lost, none is transferred twice.
THEOREM AccessesTileCorrect == Spec => []AccessesTile
<1>1. IInv => AccessesTile
  BY DEF IInv, Tiles
<1> QED BY <1>1, Invariance, PTL

\* What a server decodes from each packet alone is what was asked for: settings
\* that are left out because they have not changed are never those of another
\* packet.
THEOREM ServerSeesCorrect == Spec => []ServerSeesTransactions
<1>1. IInv => ServerSeesTransactions
  BY DEF IInv, Follows, ServerSeesTransactions
<1> QED BY <1>1, Invariance, PTL

\* PL0_START of every packet announces the address maps of its accesses.
THEOREM AddrMapsAnnouncedCorrect == Spec => []AddrMapsAnnounced
<1>1. IInv => AddrMapsAnnounced
  BY DEF IInv, Follows, AddrMapsAnnounced
<1> QED BY <1>1, Invariance, PTL

\* In a packet without accesses there is room for a block of 8 bytes at least.
LEMMA FreshBlock ==
    ASSUME b \in Request, op \in Operation, op.nb > 0, Room(b), PieceSize = 0
    PROVE  b.cur.mPl2NumTrans > 0
<1> SUFFICES ASSUME ~(b.cur.mPl2NumTrans > 0) PROVE FALSE
  OBVIOUS
<1> DEFINE nb == op.nb
           mq == MinOf(MaxPl2Rq, MaxRqSize)
           mr == MinOf(MaxPl2Rsp, MaxRspSize)
           bq == mMaxWrDataBlkSizeInPktRq
           br == mMaxRdDataBlkSizeInPktRsp
           rd == mGetRdDataBlkSizeInPktRsp(b, nb)
           wr == mGetWrDataBlkSizeInPktRq(b, nb, op.a)
<1>1. nb \in Nat /\ op.a \in Nat /\ b.cur.mPl2NumTrans \in Nat
  BY OperationFields, OpenPacketFields
<1>2. b.cur.rq = 12 /\ b.cur.rsp = 8
  BY <1>1, SMT DEF Room
<1>3. /\ mq \in Nat /\ mq >= 128 /\ mr \in Nat /\ mr >= 128
      /\ bq \in Nat /\ bq >= 104 /\ br \in Nat /\ br >= 104
  BY ConInfoAssumption, BufferAssumption, SMT
     DEF MinOf, mMaxWrDataBlkSizeInPktRq, mMaxRdDataBlkSizeInPktRsp, DataBlkSize
<1> HIDE DEF mq, mr, bq, br
<1>4. mGetRemainingSizeInPktRq(b) = mq - 12 /\ mGetRemainingSizeInPktRsp(b) = mr - 8
  <2>1. /\ mGetRemainingSizeInPktRq(b) = IF b.cur.rq < mq THEN mq - b.cur.rq ELSE 0
        /\ mGetRemainingSizeInPktRsp(b) = IF b.cur.rsp < mr THEN mr - b.cur.rsp ELSE 0
    BY DEF mGetRemainingSizeInPktRq, mGetRemainingSizeInPktRsp, mq, mr
  <2> QED BY <1>2, <1>3, <2>1, SMT
<1>5. nb >= 8 => rd > 0
  <2> DEFINE m == MinOf(MinOf(nb, (mr - 8) - 8), br)
  <2>1. rd = IF 8 >= mr - 8 THEN 0 ELSE Floor8(m)
    BY <1>4, SMT DEF mGetRdDataBlkSizeInPktRsp, Pl0RspRd, Pl1RspEnd, br
  <2>2. nb >= 8 => m \in Nat /\ m >= 8
    BY <1>1, <1>3, SMT DEF MinOf
  <2> HIDE DEF m
  <2>3. m \in Nat /\ m >= 8 => Floor8(m) > 0
    BY SMT DEF Floor8
  <2> QED BY <1>3, <2>1, <2>2, <2>3, SMT
<1>6. nb >= 8 => wr > 0
  <2> DEFINE room == IF op.a >= Addr4G THEN Sub32((mq - 12) - 8, 8) ELSE (mq - 12) - 8
             m == MinOf(MinOf(nb, room), bq)
  <2>1. wr = IF 8 >= mq - 12 THEN 0 ELSE Floor8(m)
    BY <1>4, SMT DEF mGetWrDataBlkSizeInPktRq, Pl0RqWrBlk, Pl1RqEnd, Pl0RqBase64, bq
  <2>2. room \in Nat /\ room >= 100
    BY <1>3, SMT DEF Sub32
  <2> HIDE DEF room
  <2>3. nb >= 8 => m \in Nat /\ m >= 8
    BY <1>1, <1>3, <2>2, SMT DEF MinOf
  <2> HIDE DEF m
  <2>4. m \in Nat /\ m >= 8 => Floor8(m) > 0
    BY SMT DEF Floor8
  <2> QED BY <1>3, <2>1, <2>3, <2>4, SMT
<1>7. \/ PieceSize \in {1, 2, 4}
      \/ nb >= 8 /\ (PieceSize = rd \/ PieceSize = wr)
      \/ op.type = "FILL"
  BY DEF PieceSize
<1>8. ~(op.type = "FILL")
  <2>1. PieceSize \in Nat /\ (op.type = "FILL" => PieceSize > 0)
    BY PieceSizeFact
  <2> QED BY <2>1, SMT
<1>9. ~(PieceSize \in {1, 2, 4})
  BY SMT
<1> HIDE DEF rd, wr, nb
<1> QED BY <1>5, <1>6, <1>7, <1>8, <1>9, SMT

\* A turn of a running call without a transfer closes a packet with accesses.
THEOREM BlockLoopProgressCorrect == Spec => BlockLoopProgress
<1> DEFINE Progress == op.nb > 0 => op'.nb < op.nb \/ b.cur.mPl2NumTrans > 0
<1>1. PktInv /\ [Next]_vars => [Progress]_vars
  <2> SUFFICES ASSUME PktInv, Next, op.nb > 0 PROVE op'.nb < op.nb \/ b.cur.mPl2NumTrans > 0
    OBVIOUS
  <2>1. op.nb \in Nat /\ op \in Operation /\ b \in Request /\ Room(b)
    BY OperationFields DEF PktInv, TypeOK
  <2>2. ~Idle
    BY <2>1, SMT DEF Idle
  <2>3. AddPiece \/ AddFill
    BY <2>2 DEF Next, rw_start, rw_add_rd, rw_add_wr, rw_add_fill, CanAdd, rw_set_trans,
                rw_set_trans_done, rw_get_rq
  <2>4. op' = [op EXCEPT !.a = @ + PieceSize, !.nb = @ - PieceSize]
    BY <2>3 DEF AddPiece, AddFill, Added
  <2>5. op'.nb = op.nb - PieceSize
    BY <2>1, <2>4 DEF Operation
  <2>6. PieceSize \in Nat
    BY <2>1, PieceSizeFact
  <2>7. CASE PieceSize = 0
    BY <2>1, <2>7, FreshBlock
  <2>8. CASE PieceSize # 0
    BY <2>1, <2>5, <2>6, <2>8, SMT
  <2> QED BY <2>7, <2>8
<1> HIDE DEF Progress
<1>2. IInv => PktInv
  BY DEF IInv
<1>3. Spec => [][Progress]_vars
  BY <1>1, <1>2, Invariance, PTL DEF Spec
<1> QED BY <1>3 DEF BlockLoopProgress, Progress
================================================================================
