----------------------- MODULE TasPktHandlerRwRspProofs -----------------------
(******************************************************************************)
(* rw_set_rsp() for all requests and all servers: what it assigns belongs to  *)
(* the running request (SuccessIsOwn), its success means that all of it was   *)
(* answered (SuccessIsComplete), its error is the first one (FirstErrorWins), *)
(* and it refuses nothing but what answers another request (OwnNotRefused).   *)
(* And rw_get_trans_rsp() gives each transaction what its own accesses have   *)
(* (MergedRight).                                                             *)
(* - Sums and offsets: a response is walked through by positions and words,   *)
(*   which the model has as folds. Here they become functions of the index,   *)
(*   with a step each.                                                        *)
(* - Underway: the packets of all requests that are on the way have counts    *)
(*   without a gap, and those of the running request come last.               *)
(* - At: the turn of the loop, as a position in the answers to the packets    *)
(*   that were received: what was before it, what it expects, and which       *)
(*   accesses have their results.                                             *)
(* - Tiled, Turns: the accesses in their transactions, and the turns of       *)
(*   rw_get_trans_rsp() with the results behind each access.                  *)
(******************************************************************************)
EXTENDS TasPktHandlerRwRsp, Induction, SequenceTheorems, TLAPS

Cmds == {"PL0_START", "PL0_END", "RD", "RDBLK", "RDBLK1KB", "WR", "WRBLK", "FILL"}
Piece == [cmd : Cmds, wl : Nat, n : Nat, err : PlErr \cup {"DEV_RESET", "DEV_ACCESS"}, rq : Nat]

LEMMA PieceFields ==
    ASSUME NEW e \in Piece
    PROVE  /\ e.cmd \in Cmds /\ e.wl \in Nat /\ e.n \in Nat /\ e.rq \in Nat
           /\ e.err \in PlErr \cup {"DEV_RESET", "DEV_ACCESS"}
           /\ PartWords(e) \in Nat /\ PartWords(e) >= 1
<1>1. /\ e.cmd \in Cmds /\ e.wl \in Nat /\ e.n \in Nat /\ e.rq \in Nat
      /\ e.err \in PlErr \cup {"DEV_RESET", "DEV_ACCESS"}
  BY DEF Piece
<1>2. PartWords(e) \in Nat /\ PartWords(e) >= 1
  BY <1>1, SMT DEF PartWords, DataBlkWords
<1> QED BY <1>1, <1>2

\* C[i]: words of the first i parts of s.
Sums(s, C) ==
    /\ C \in [0..Len(s) -> Nat] /\ C[0] = 0
    /\ \A i \in 1..Len(s) : C[i] = C[i - 1] + PartWords(s[i])

LEMMA NumWordsSums ==
    ASSUME NEW s \in Seq(Piece)
    PROVE  \E C : Sums(s, C) /\ NumWords(s) = C[Len(s)]
<1> DEFINE n == Len(s)
           Body(it) == it = [t \in SUBSET (1..n) |->
                        IF t = {} THEN 0 ELSE it[t \ {Max(t)}] + PartWords(s[Max(t)])]
           F == CHOOSE it : Body(it)
<1>1. n \in Nat /\ DOMAIN s = 1..n /\ \A i \in 1..n : s[i] \in Piece /\ PartWords(s[i]) \in Nat
  <2>1. n \in Nat /\ DOMAIN s = 1..n /\ \A i \in 1..n : s[i] \in Piece
    BY SMT
  <2> QED BY <2>1, PieceFields
<1>2. NumWords(s) = F[1..n]
  BY <1>1, Zenon DEF NumWords, FoldLeft, MapThenFoldSet
<1>3. Body(F)
  <2> DEFINE g == [x \in (1..n) \X Nat |-> x[2] + PartWords(s[x[1]])]
  <2>1. g \in [(1..n) \X Nat -> Nat]
    <3>1. \A x \in (1..n) \X Nat : x[2] + PartWords(s[x[1]]) \in Nat
      <4> SUFFICES ASSUME NEW x \in (1..n) \X Nat PROVE x[2] + PartWords(s[x[1]]) \in Nat
        OBVIOUS
      <4>1. x[1] \in 1..n /\ x[2] \in Nat
        OBVIOUS
      <4>2. PartWords(s[x[1]]) \in Nat
        BY <1>1, <4>1
      <4> QED BY <4>1, <4>2
    <3> QED BY <3>1
  <2>2. PICK it \in [SUBSET (1..n) -> Nat] : Recursion(n, 0, g, it)
    <3>1. 0 \in Nat
      OBVIOUS
    <3> HIDE DEF g
    <3> QED BY <1>1, <2>1, <3>1, RecursionExists
  <2>3. ASSUME NEW t \in SUBSET (1..n), t # {}
        PROVE  g[<<Max(t), it[t \ {Max(t)}]>>] = it[t \ {Max(t)}] + PartWords(s[Max(t)])
    <3>1. Max(t) \in 1..n
      <4>1. Max(t) \in t
        BY <1>1, <2>3, MaxOf
      <4> QED BY <4>1
    <3>2. it[t \ {Max(t)}] \in Nat
      OBVIOUS
    <3> QED BY <3>1, <3>2
  <2>4. Body(it)
    <3>1. it = [t \in SUBSET (1..n) |-> IF t = {} THEN 0 ELSE g[<<Max(t), it[t \ {Max(t)}]>>]]
      BY <2>2 DEF Recursion
    <3> HIDE DEF g
    <3> QED BY <2>3, <3>1
  <2> HIDE DEF Body
  <2> QED BY <2>4, Zenon
<1> HIDE DEF F
<1>4. F[1..0] = 0
  <2>1. 1..0 = {} /\ {} \in SUBSET (1..n)
    OBVIOUS
  <2> QED BY <1>3, <2>1
<1>5. ASSUME NEW k \in 1..n PROVE F[1..k] = F[1..(k - 1)] + PartWords(s[k])
  <2>1. (1..k) \in SUBSET (1..n)
    BY SMT
  <2>2. Max(1..k) = k /\ (1..k) \ {k} = 1..(k - 1) /\ (1..k) # {}
    <3>1. k \in Nat /\ k # 0
      OBVIOUS
    <3> QED BY <3>1, MaxOfInterval
  <2>3. F[1..k] = IF 1..k = {} THEN 0 ELSE F[(1..k) \ {Max(1..k)}] + PartWords(s[Max(1..k)])
    BY <1>3, <2>1, Zenon
  <2> QED BY <2>2, <2>3
<1> HIDE DEF Body
<1> DEFINE C == [k \in 0..n |-> F[1..k]]
           P == {k \in Nat : k <= n => F[1..k] \in Nat}
<1>6. \A k \in Nat : k \in P
  <2>1. 0 \in P
    BY <1>4
  <2>2. ASSUME NEW k \in P PROVE k + 1 \in P
    <3>1. k \in Nat /\ k + 1 \in Nat
      OBVIOUS
    <3>2. ASSUME k + 1 <= n PROVE F[1..(k + 1)] \in Nat
      <4>1. k + 1 \in 1..n /\ k <= n /\ (k + 1) - 1 = k
        BY <1>1, <3>1, <3>2
      <4>2. F[1..k] \in Nat /\ F[1..(k + 1)] = F[1..k] + PartWords(s[k + 1])
        BY <1>5, <2>2, <4>1
      <4> QED BY <1>1, <4>1, <4>2
    <3> QED BY <3>1, <3>2
  <2>3. P \in SUBSET Nat /\ \A k \in P : k + 1 \in P
    BY <2>2
  <2> HIDE DEF P
  <2> QED BY <2>1, <2>3, SetInduction
<1>7. Sums(s, C)
  <2>1. C \in [0..n -> Nat]
    BY <1>1, <1>6
  <2>2. C[0] = 0
    BY <1>1, <1>4
  <2>3. ASSUME NEW i \in 1..n PROVE C[i] = C[i - 1] + PartWords(s[i])
    <3>1. i \in 0..n /\ i - 1 \in 0..n
      BY <1>1
    <3> QED BY <1>5, <3>1
  <2> HIDE DEF C
  <2> QED BY <2>1, <2>2, <2>3 DEF Sums
<1> QED BY <1>1, <1>2, <1>7

--------------------------------------------------------------------------------
(* The size of a response.                                                    *)

\* Words of the answer to an access, if it succeeds.
AnswerWords(a) == 1 + (IF a.type = "RD" THEN Words(a) ELSE 0)

LEMMA Quarters ==
    ASSUME NEW n \in Nat, n >= 1, n <= 1024
    PROVE  LET w == (n + 3) \div 4
           IN  w \in Nat /\ w >= 1 /\ w <= 256 /\ 4 * w < n + 4 /\ 4 * w >= n
BY SMT

LEMMA AccessFields ==
    ASSUME NEW a \in Pl0Access
    PROVE  /\ a.type \in Types /\ a.addr \in Nat /\ a.num_bytes \in Nat /\ a.rw \in Nat
           /\ a.num_bytes >= 1 /\ a.num_bytes <= 1024 /\ a.rw >= 1
           /\ Words(a) \in Nat /\ Words(a) >= 1 /\ Words(a) <= 256 /\ 4 * Words(a) < a.num_bytes + 4
           /\ 4 * Words(a) >= a.num_bytes
           /\ AnswerWords(a) \in Nat /\ AnswerWords(a) >= 1
<1>1. /\ a.type \in Types /\ a.addr \in Nat /\ a.num_bytes \in 1..1024 /\ a.rw \in Nat \ {0}
  BY SMT DEF Pl0Access, DataBlkWords
<1>2. /\ a.num_bytes \in Nat /\ a.rw \in Nat
      /\ a.num_bytes >= 1 /\ a.num_bytes <= 1024 /\ a.rw >= 1
  <2> DEFINE b == a.num_bytes
             r == a.rw
  <2>1. b \in 1..1024 /\ r \in Nat \ {0}
    BY <1>1, Zenon
  <2> HIDE DEF b, r
  <2>2. b \in Nat /\ r \in Nat /\ b >= 1 /\ b <= 1024 /\ r >= 1
    BY <2>1, SMT
  <2> QED BY <2>2, SMT DEF b, r
<1>3. Words(a) \in Nat /\ Words(a) >= 1 /\ Words(a) <= 256 /\ 4 * Words(a) < a.num_bytes + 4
      /\ 4 * Words(a) >= a.num_bytes
  BY <1>2, Quarters DEF Words
<1>4. AnswerWords(a) \in Nat /\ AnswerWords(a) >= 1
  BY <1>3 DEF AnswerWords
<1> QED BY <1>1, <1>2, <1>3, <1>4, ZenonT(40)

\* W[i]: words of the first i answers to acc.
AnswerSums(acc, W) ==
    /\ W \in [0..Len(acc) -> Nat] /\ W[0] = 0
    /\ \A i \in 1..Len(acc) : W[i] = W[i - 1] + AnswerWords(acc[i])

LEMMA RspWordsSums ==
    ASSUME NEW pkts \in Nat, NEW acc \in Seq(Pl0Access)
    PROVE  \E W : AnswerSums(acc, W) /\ RspWords(pkts, acc) = 3 * pkts + W[Len(acc)]
<1> DEFINE n == Len(acc)
           b == 3 * pkts
           Body(it) == it = [t \in SUBSET (1..n) |->
                        IF t = {} THEN b
                        ELSE it[t \ {Max(t)}] + 1 + (IF acc[Max(t)].type = "RD" THEN Words(acc[Max(t)]) ELSE 0)]
           F == CHOOSE it : Body(it)
<1>1. n \in Nat /\ DOMAIN acc = 1..n
  BY SMT
<1>2. \A i \in 1..n : acc[i] \in Pl0Access /\ Words(acc[i]) \in Nat /\ AnswerWords(acc[i]) \in Nat
  <2>1. \A i \in 1..n : acc[i] \in Pl0Access
    BY SMT
  <2> QED BY <2>1, AccessFields
<1>3. RspWords(pkts, acc) = F[1..n]
  BY <1>1, Zenon DEF RspWords, FoldLeft, MapThenFoldSet
<1>4. Body(F)
  <2> DEFINE g == [x \in (1..n) \X Nat |-> x[2] + 1 + (IF acc[x[1]].type = "RD" THEN Words(acc[x[1]]) ELSE 0)]
  <2>1. g \in [(1..n) \X Nat -> Nat]
    <3>1. \A x \in (1..n) \X Nat : x[2] + 1 + (IF acc[x[1]].type = "RD" THEN Words(acc[x[1]]) ELSE 0) \in Nat
      <4> SUFFICES ASSUME NEW x \in (1..n) \X Nat
                   PROVE  x[2] + 1 + (IF acc[x[1]].type = "RD" THEN Words(acc[x[1]]) ELSE 0) \in Nat
        OBVIOUS
      <4>1. x[1] \in 1..n /\ x[2] \in Nat
        OBVIOUS
      <4>2. Words(acc[x[1]]) \in Nat
        BY <1>2, <4>1
      <4> QED BY <4>1, <4>2
    <3> QED BY <3>1
  <2>2. PICK it \in [SUBSET (1..n) -> Nat] : Recursion(n, b, g, it)
    <3>1. b \in Nat
      OBVIOUS
    <3> HIDE DEF g
    <3> QED BY <1>1, <2>1, <3>1, RecursionExists
  <2>3. ASSUME NEW t \in SUBSET (1..n), t # {}
        PROVE  g[<<Max(t), it[t \ {Max(t)}]>>]
                 = it[t \ {Max(t)}] + 1 + (IF acc[Max(t)].type = "RD" THEN Words(acc[Max(t)]) ELSE 0)
    <3>1. Max(t) \in 1..n
      <4>1. Max(t) \in t
        BY <1>1, <2>3, MaxOf
      <4> QED BY <4>1
    <3>2. it[t \ {Max(t)}] \in Nat
      OBVIOUS
    <3> QED BY <3>1, <3>2
  <2>4. Body(it)
    <3>1. it = [t \in SUBSET (1..n) |-> IF t = {} THEN b ELSE g[<<Max(t), it[t \ {Max(t)}]>>]]
      BY <2>2 DEF Recursion
    <3> HIDE DEF g
    <3> QED BY <2>3, <3>1
  <2> HIDE DEF Body
  <2> QED BY <2>4, Zenon
<1> HIDE DEF F
<1>5. F[1..0] = b
  <2>1. 1..0 = {} /\ {} \in SUBSET (1..n)
    OBVIOUS
  <2> QED BY <1>4, <2>1
<1>6. ASSUME NEW k \in 1..n
      PROVE  F[1..k] = F[1..(k - 1)] + 1 + (IF acc[k].type = "RD" THEN Words(acc[k]) ELSE 0)
  <2>1. (1..k) \in SUBSET (1..n)
    BY SMT
  <2>2. Max(1..k) = k /\ (1..k) \ {k} = 1..(k - 1) /\ (1..k) # {}
    <3>1. k \in Nat /\ k # 0
      OBVIOUS
    <3> QED BY <3>1, MaxOfInterval
  <2>3. F[1..k] = IF 1..k = {} THEN b
                  ELSE F[(1..k) \ {Max(1..k)}] + 1
                        + (IF acc[Max(1..k)].type = "RD" THEN Words(acc[Max(1..k)]) ELSE 0)
    BY <1>4, <2>1, Zenon
  <2> QED BY <2>2, <2>3
<1> HIDE DEF Body
<1> DEFINE W == [k \in 0..n |-> F[1..k] - b]
           P == {k \in Nat : k <= n => F[1..k] \in Nat /\ F[1..k] >= b}
<1>7. \A k \in Nat : k \in P
  <2>1. 0 \in P
    BY <1>5
  <2>2. ASSUME NEW k \in P PROVE k + 1 \in P
    <3>1. k \in Nat /\ k + 1 \in Nat
      OBVIOUS
    <3>2. ASSUME k + 1 <= n PROVE F[1..(k + 1)] \in Nat /\ F[1..(k + 1)] >= b
      <4>1. k + 1 \in 1..n /\ k <= n /\ (k + 1) - 1 = k
        BY <1>1, <3>1, <3>2
      <4>2. /\ F[1..k] \in Nat /\ F[1..k] >= b
            /\ F[1..(k + 1)] = F[1..k] + 1 + (IF acc[k + 1].type = "RD" THEN Words(acc[k + 1]) ELSE 0)
            /\ Words(acc[k + 1]) \in Nat
        BY <1>2, <1>6, <2>2, <4>1
      <4>3. b \in Nat
        OBVIOUS
      <4> HIDE DEF P, b
      <4> QED BY <4>2, <4>3
    <3> QED BY <3>1, <3>2
  <2>3. P \in SUBSET Nat /\ \A k \in P : k + 1 \in P
    BY <2>2
  <2> HIDE DEF P
  <2> QED BY <2>1, <2>3, SetInduction
<1>8. AnswerSums(acc, W)
  <2>1. W \in [0..n -> Nat]
    <3>1. \A k \in 0..n : F[1..k] - b \in Nat
      BY <1>1, <1>7
    <3> QED BY <3>1
  <2>2. W[0] = 0
    BY <1>1, <1>5
  <2>3. ASSUME NEW i \in 1..n PROVE W[i] = W[i - 1] + AnswerWords(acc[i])
    <3>1. i \in 0..n /\ i - 1 \in 0..n /\ i - 1 \in Nat
      BY <1>1
    <3>2. W[i] = F[1..i] - b /\ W[i - 1] = F[1..(i - 1)] - b
      BY <3>1
    <3>3. F[1..i] = F[1..(i - 1)] + AnswerWords(acc[i])
      <4>1. F[1..(i - 1)] \in Nat /\ Words(acc[i]) \in Nat
        BY <1>2, <1>7, <3>1
      <4>2. F[1..i] = F[1..(i - 1)] + 1 + (IF acc[i].type = "RD" THEN Words(acc[i]) ELSE 0)
        BY <1>6
      <4> HIDE DEF W, b, P
      <4> QED BY <4>1, <4>2, SMT DEF AnswerWords
    <3>4. F[1..(i - 1)] \in Nat /\ AnswerWords(acc[i]) \in Nat /\ b \in Nat
      BY <1>2, <1>7, <3>1
    <3> HIDE DEF W, b, P
    <3> QED BY <3>2, <3>3, <3>4
  <2> HIDE DEF W
  <2> QED BY <2>1, <2>2, <2>3 DEF AnswerSums
<1>9. RspWords(pkts, acc) = b + W[n]
  <2>1. n \in 0..n /\ F[1..n] \in Nat
    BY <1>1, <1>7
  <2> QED BY <1>3, <2>1
<1> QED BY <1>8, <1>9

--------------------------------------------------------------------------------
(* Parts one behind the other.                                                *)

LEMMA ConcatAt ==
    ASSUME NEW S, NEW s \in Seq(S), NEW t \in Seq(S)
    PROVE  /\ s \o t \in Seq(S) /\ Len(s) \in Nat /\ Len(t) \in Nat /\ Len(s \o t) = Len(s) + Len(t)
           /\ \A k \in 1..Len(s) : (s \o t)[k] = s[k]
           /\ \A k \in 1..Len(t) : (s \o t)[Len(s) + k] = t[k]
BY SMT

LEMMA SumsUnique ==
    ASSUME NEW s \in Seq(Piece), NEW C, Sums(s, C), NEW D, Sums(s, D)
    PROVE  \A k \in 0..Len(s) : C[k] = D[k]
<1> DEFINE n == Len(s)
           P == {k \in Nat : k <= n => C[k] = D[k]}
<1>1. n \in Nat
  BY SMT
<1>2. 0 \in P
  BY DEF Sums
<1>3. ASSUME NEW k \in P PROVE k + 1 \in P
  <2>1. k \in Nat /\ k + 1 \in Nat /\ (k + 1) - 1 = k
    OBVIOUS
  <2>2. ASSUME k + 1 <= n PROVE C[k + 1] = D[k + 1]
    <3>1. k + 1 \in 1..n /\ k <= n
      BY <1>1, <2>1, <2>2
    <3>2. /\ C[k + 1] = C[(k + 1) - 1] + PartWords(s[k + 1])
          /\ D[k + 1] = D[(k + 1) - 1] + PartWords(s[k + 1])
      BY <3>1 DEF Sums
    <3> QED BY <1>3, <2>1, <3>1, <3>2
  <2> QED BY <2>1, <2>2
<1>4. \A k \in Nat : k \in P
  <2>1. P \in SUBSET Nat /\ \A k \in P : k + 1 \in P
    BY <1>3
  <2> HIDE DEF P
  <2> QED BY <1>2, <2>1, SetInduction
<1> QED BY <1>1, <1>4

LEMMA NumWordsConcat ==
    ASSUME NEW s \in Seq(Piece), NEW t \in Seq(Piece)
    PROVE  /\ NumWords(s) \in Nat /\ NumWords(t) \in Nat
           /\ NumWords(s \o t) = NumWords(s) + NumWords(t)
<1> DEFINE m == Len(s)
           n == Len(t)
           st == s \o t
<1>1. PICK C : Sums(s, C) /\ NumWords(s) = C[m]
  BY NumWordsSums
<1>2. PICK D : Sums(t, D) /\ NumWords(t) = D[n]
  BY NumWordsSums
<1>3. /\ st \in Seq(Piece) /\ m \in Nat /\ n \in Nat /\ Len(st) = m + n
      /\ \A k \in 1..m : st[k] = s[k]
      /\ \A k \in 1..n : st[m + k] = t[k]
  BY ConcatAt
<1>4. PICK E1 : Sums(st, E1) /\ NumWords(st) = E1[Len(st)]
  BY <1>3, NumWordsSums
<1> DEFINE F == [k \in 0..(m + n) |-> IF k <= m THEN C[k] ELSE C[m] + D[k - m]]
<1>5. /\ C \in [0..m -> Nat] /\ C[0] = 0 /\ \A i \in 1..m : C[i] = C[i - 1] + PartWords(s[i])
      /\ D \in [0..n -> Nat] /\ D[0] = 0 /\ \A i \in 1..n : D[i] = D[i - 1] + PartWords(t[i])
  BY <1>1, <1>2 DEF Sums
<1> HIDE DEF m, n, st
<1>6. Sums(st, F)
  <2>1. F \in [0..(m + n) -> Nat]
    <3>1. ASSUME NEW k \in 0..(m + n) PROVE (IF k <= m THEN C[k] ELSE C[m] + D[k - m]) \in Nat
      <4>1. CASE k <= m
        <5>1. k \in 0..m
          BY <1>3, <4>1
        <5> QED BY <1>5, <4>1, <5>1
      <4>2. CASE ~(k <= m)
        <5>1. m \in 0..m /\ k - m \in 0..n
          BY <1>3, <4>2
        <5>2. C[m] \in Nat /\ D[k - m] \in Nat
          BY <1>5, <5>1
        <5> QED BY <4>2, <5>2
      <4> QED BY <4>1, <4>2
    <3> QED BY <3>1
  <2>2. F[0] = 0
    BY <1>3, <1>5
  <2>3. ASSUME NEW i \in 1..(m + n) PROVE F[i] = F[i - 1] + PartWords(st[i])
    <3>1. i \in 0..(m + n) /\ i - 1 \in 0..(m + n)
      BY <1>3
    <3>2. CASE i <= m
      <4>1. i \in 1..m /\ i - 1 <= m
        BY <1>3, <3>2
      <4>2. F[i] = C[i] /\ F[i - 1] = C[i - 1] /\ st[i] = s[i]
        BY <1>3, <3>1, <4>1
      <4> QED BY <1>5, <4>1, <4>2
    <3>3. CASE ~(i <= m)
      <4>1. i - m \in 1..n /\ m + (i - m) = i /\ (i - m) - 1 = (i - 1) - m
        BY <1>3, <3>3
      <4>2. F[i] = C[m] + D[i - m] /\ st[i] = t[i - m]
        BY <1>3, <3>1, <3>3, <4>1
      <4>3. F[i - 1] = C[m] + D[(i - m) - 1]
        <5>1. CASE i - 1 <= m
          <6>1. i - 1 = m /\ (i - m) - 1 = 0
            BY <1>3, <3>3, <5>1
          <6>2. F[i - 1] = C[m] /\ C[m] \in Nat
            <7>1. m \in 0..m
              BY <1>3
            <7> QED BY <1>5, <3>1, <5>1, <6>1, <7>1
          <6> QED BY <1>5, <6>1, <6>2
        <5>2. CASE ~(i - 1 <= m)
          BY <3>1, <4>1, <5>2
        <5> QED BY <5>1, <5>2
      <4>4. D[i - m] = D[(i - m) - 1] + PartWords(t[i - m])
        BY <1>5, <4>1
      <4>5. C[m] \in Nat /\ D[(i - m) - 1] \in Nat /\ PartWords(t[i - m]) \in Nat
        <5>1. m \in 0..m /\ (i - m) - 1 \in 0..n
          BY <1>3, <4>1
        <5>2. t[i - m] \in Piece
          BY <4>1 DEF n
        <5> QED BY <1>5, <5>1, <5>2, PieceFields
      <4> HIDE DEF F
      <4> QED BY <4>2, <4>3, <4>4, <4>5
    <3> QED BY <3>2, <3>3
  <2> HIDE DEF F
  <2> QED BY <1>3, <2>1, <2>2, <2>3 DEF Sums
<1>7. E1[m + n] = F[m + n]
  <2>1. m + n \in 0..Len(st)
    BY <1>3
  <2> HIDE DEF F
  <2> QED BY <1>3, <1>4, <1>6, <2>1, SumsUnique
<1>8. F[m + n] = C[m] + D[n]
  <2>1. m + n \in 0..(m + n)
    BY <1>3
  <2>2. CASE m + n <= m
    <3>1. n = 0
      BY <1>3, <2>2
    <3>2. m \in 0..m /\ m + n = m
      BY <1>3, <3>1
    <3>3. F[m + n] = C[m] /\ C[m] \in Nat /\ D[n] = 0
      BY <1>5, <2>1, <2>2, <3>1, <3>2
    <3> HIDE DEF F
    <3> QED BY <3>3
  <2>3. CASE ~(m + n <= m)
    <3>1. (m + n) - m = n
      BY <1>3
    <3> QED BY <2>1, <2>3, <3>1
  <2> QED BY <2>2, <2>3
<1>9. C[m] \in Nat /\ D[n] \in Nat
  <2>1. m \in 0..m /\ n \in 0..n
    BY <1>3
  <2> QED BY <1>5, <2>1
<1> HIDE DEF F
<1> QED BY <1>1, <1>2, <1>3, <1>4, <1>7, <1>8, <1>9 DEF m, n, st

LEMMA NumWordsOne ==
    ASSUME NEW e \in Piece
    PROVE  NumWords(<<e>>) = PartWords(e) /\ NumWords(<<>>) = 0 /\ <<e>> \in Seq(Piece) /\ <<>> \in Seq(Piece)
<1>1. <<e>> \in Seq(Piece) /\ <<>> \in Seq(Piece) /\ Len(<<e>>) = 1 /\ Len(<<>>) = 0 /\ <<e>>[1] = e
  BY SMT
<1>2. PICK C : Sums(<<e>>, C) /\ NumWords(<<e>>) = C[1]
  BY <1>1, NumWordsSums
<1>3. PICK D : Sums(<<>>, D) /\ NumWords(<<>>) = D[0]
  BY <1>1, NumWordsSums
<1>4. C[1] = C[1 - 1] + PartWords(e) /\ C[0] = 0
  BY <1>1, <1>2 DEF Sums
<1>5. D[0] = 0
  BY <1>3 DEF Sums
<1>6. PartWords(e) \in Nat
  BY PieceFields
<1> QED BY <1>1, <1>2, <1>3, <1>4, <1>5, <1>6

LEMMA SumsGrow ==
    ASSUME NEW s \in Seq(Piece), NEW C, Sums(s, C), NEW i \in 0..Len(s)
    PROVE  \A j \in i..Len(s) : C[i] \in Nat /\ C[j] \in Nat /\ C[i] + (j - i) <= C[j]
<1> DEFINE n == Len(s)
           P == {k \in Nat : i + k <= n => C[i] + k <= C[i + k]}
<1>1. n \in Nat /\ C \in [0..n -> Nat] /\ i \in 0..n
  BY SMT DEF Sums
<1>2. 0 \in P
  BY <1>1
<1>3. ASSUME NEW k \in P PROVE k + 1 \in P
  <2>1. k \in Nat /\ k + 1 \in Nat /\ i + (k + 1) = (i + k) + 1
    BY <1>1
  <2>2. ASSUME i + (k + 1) <= n PROVE C[i] + (k + 1) <= C[i + (k + 1)]
    <3>1. (i + k) + 1 \in 1..n /\ i + k <= n /\ ((i + k) + 1) - 1 = i + k /\ i + k \in 0..n
      BY <1>1, <2>1, <2>2
    <3>2. C[(i + k) + 1] = C[i + k] + PartWords(s[(i + k) + 1])
      BY <3>1 DEF Sums
    <3>3. s[(i + k) + 1] \in Piece
      BY <3>1
    <3>4. PartWords(s[(i + k) + 1]) \in Nat /\ PartWords(s[(i + k) + 1]) >= 1
      BY <3>3, PieceFields
    <3>5. C[i] + k <= C[i + k] /\ C[i] \in Nat /\ C[i + k] \in Nat
      BY <1>1, <1>3, <3>1
    <3> HIDE DEF n, P
    <3> QED BY <2>1, <3>2, <3>4, <3>5
  <2> QED BY <2>1, <2>2
<1>4. \A k \in Nat : k \in P
  <2>1. P \in SUBSET Nat /\ \A k \in P : k + 1 \in P
    BY <1>3
  <2> HIDE DEF P
  <2> QED BY <1>2, <2>1, SetInduction
<1>5. ASSUME NEW j \in i..n PROVE C[i] \in Nat /\ C[j] \in Nat /\ C[i] + (j - i) <= C[j]
  <2>1. j - i \in Nat /\ i + (j - i) = j /\ j <= n /\ j \in 0..n
    BY <1>1
  <2>2. C[i] + (j - i) <= C[i + (j - i)]
    BY <1>4, <2>1
  <2> QED BY <1>1, <2>1, <2>2
<1> QED BY <1>5

--------------------------------------------------------------------------------
(* What the server answers.                                                   *)

Packet == [rq : Nat, cnt : Nat, acc : Seq(Pl0Access)]

AnswerOf(e, a, rq) ==
    \/ e = OkAnswer(a, rq)
    \/ \E n \in PartialWords(a), err \in PlErrs \cup {"CONSEQUENTIAL"} : e = ErrAnswer(a, n, err, rq)

\* After an access has failed, nothing is transferred.
FailsOn(acc, ans) ==
    \A i, j \in DOMAIN acc : i < j /\ ans[i].err # "NO_ERROR" => ans[j].err # "NO_ERROR" /\ ans[j].n = 0

\* An answer to packet q is an error or a reset only, or has an answer for each
\* of its accesses, and its count at the end.
AnswerTo(q, s) ==
    /\ s \in Seq(Piece) /\ Len(s) >= 1
    /\ \A i \in 1..Len(s) : s[i].rq = q.rq
    /\ s[1].cmd = "PL0_START" /\ s[1].n = NumWords(s)
    /\ \/ Len(s) = 1 /\ q.rq = 0 /\ s[1].err = "DEV_RESET"
       \/ Len(s) = 1 /\ q.rq # 0 /\ s[1].err = "DEV_ACCESS"
       \/ /\ q.rq # 0 /\ Len(s) = Len(q.acc) + 2 /\ s[1].err # "DEV_ACCESS"
          /\ s[Len(s)].cmd = "PL0_END" /\ s[Len(s)].wl = 0 /\ s[Len(s)].n = q.cnt
          /\ \A i \in 1..Len(q.acc) : AnswerOf(s[i + 1], q.acc[i], q.rq)
          /\ FailsOn(q.acc, [i \in DOMAIN q.acc |-> s[i + 1]])

LEMMA PieceType ==
    ASSUME NEW cmd \in Cmds, NEW wl \in Nat, NEW n \in Nat,
           NEW err \in PlErr \cup {"DEV_RESET", "DEV_ACCESS"}, NEW rq \in Nat
    PROVE  E(cmd, wl, n, err, rq) \in Piece
BY Zenon DEF E, Piece

LEMMA AnswerOfType ==
    ASSUME NEW a \in Pl0Access, NEW rq \in Nat, NEW e, AnswerOf(e, a, rq)
    PROVE  e \in Piece /\ e.rq = rq /\ e.err \in PlErr /\ PartWords(e) <= AnswerWords(a)
<1> DEFINE w == Words(a)
<1>1. /\ a.type \in Types /\ w \in Nat /\ w >= 1 /\ w <= 256
      /\ a.num_bytes \in Nat /\ 4 * w < a.num_bytes + 4
  BY AccessFields
<1>2. w % 256 \in Nat /\ w % 256 <= w /\ (w # 256 => w % 256 = w)
  <2> HIDE DEF w
  <2> QED BY <1>1
<1>3. CASE e = OkAnswer(a, rq)
  <2> DEFINE n == w % 256
  <2>1. n \in Nat
    BY <1>2
  <2>2. CASE a.type = "RD"
    <3> DEFINE c == IF ~IsBlk(a) THEN "RD" ELSE IF w = 256 THEN "RDBLK1KB" ELSE "RDBLK"
    <3>1. e = E(c, n, n, "NO_ERROR", rq)
      BY <1>3, <2>2 DEF OkAnswer, DataBlkWords
    <3>2. c \in Cmds /\ "NO_ERROR" \in PlErr
      BY DEF Cmds, PlErr
    <3>3. e \in Piece /\ e.cmd = c /\ e.wl = n /\ e.rq = rq /\ e.err \in PlErr
      <4> HIDE DEF c, n
      <4> QED BY <2>1, <3>1, <3>2, PieceType DEF E
    <3>4. PartWords(e) = IF c = "RDBLK1KB" THEN 257 ELSE 1 + n
      BY <3>3, SMT DEF PartWords, DataBlkWords
    <3>5. c = "RDBLK1KB" => w = 256
      OBVIOUS
    <3>6. AnswerWords(a) = 1 + w
      BY <2>2 DEF AnswerWords
    <3> HIDE DEF c, w
    <3> QED BY <1>1, <1>2, <3>3, <3>4, <3>5, <3>6
  <2>3. CASE a.type # "RD"
    <3> DEFINE c == IF a.type = "FILL" THEN "FILL" ELSE IF IsBlk(a) THEN "WRBLK" ELSE "WR"
    <3>1. e = E(c, 0, n, "NO_ERROR", rq)
      BY <1>3, <2>3 DEF OkAnswer
    <3>2. c \in Cmds /\ "NO_ERROR" \in PlErr /\ c # "PL0_START" /\ c # "RDBLK1KB" /\ 0 \in Nat
      BY DEF Cmds, PlErr
    <3>3. e \in Piece /\ e.cmd = c /\ e.wl = 0 /\ e.rq = rq /\ e.err \in PlErr
      <4> HIDE DEF c, n
      <4> QED BY <2>1, <3>1, <3>2, PieceType DEF E
    <3>4. PartWords(e) = 1
      <4> HIDE DEF c
      <4> QED BY <3>2, <3>3 DEF PartWords
    <3>5. AnswerWords(a) = 1
      BY <2>3 DEF AnswerWords
    <3> QED BY <3>3, <3>4, <3>5
  <2> QED BY <2>2, <2>3
<1>4. CASE e # OkAnswer(a, rq)
  <2>1. PICK n \in PartialWords(a), err \in PlErrs \cup {"CONSEQUENTIAL"} : e = ErrAnswer(a, n, err, rq)
    BY <1>4 DEF AnswerOf
  <2>2. n \in Nat /\ (n = 0 \/ (n = 1 /\ IsBlk(a))) /\ err \in PlErr
    BY <2>1 DEF PartialWords, PlErr
  <2>3. CASE a.type = "RD"
    <3> DEFINE c == IF IsBlk(a) THEN "RDBLK" ELSE "RD"
    <3>1. e = E(c, n, n, err, rq)
      BY <2>1, <2>3 DEF ErrAnswer
    <3>2. c \in Cmds /\ c # "PL0_START" /\ c # "RDBLK1KB"
      BY DEF Cmds
    <3>3. e \in Piece /\ e.cmd = c /\ e.wl = n /\ e.rq = rq /\ e.err \in PlErr
      <4> HIDE DEF c
      <4> QED BY <2>2, <3>1, <3>2, PieceType DEF E
    <3>4. PartWords(e) = 1 + n
      <4> HIDE DEF c
      <4> QED BY <3>2, <3>3 DEF PartWords
    <3>5. AnswerWords(a) = 1 + w
      BY <2>3 DEF AnswerWords
    <3> HIDE DEF w
    <3> QED BY <1>1, <2>2, <3>3, <3>4, <3>5
  <2>4. CASE a.type # "RD"
    <3> DEFINE c == IF a.type = "FILL" THEN "FILL" ELSE IF IsBlk(a) THEN "WRBLK" ELSE "WR"
    <3>1. e = E(c, 0, n, err, rq)
      BY <2>1, <2>4 DEF ErrAnswer
    <3>2. c \in Cmds /\ c # "PL0_START" /\ c # "RDBLK1KB" /\ 0 \in Nat
      BY DEF Cmds
    <3>3. e \in Piece /\ e.cmd = c /\ e.wl = 0 /\ e.rq = rq /\ e.err \in PlErr
      <4> HIDE DEF c
      <4> QED BY <2>2, <3>1, <3>2, PieceType DEF E
    <3>4. PartWords(e) = 1
      <4> HIDE DEF c
      <4> QED BY <3>2, <3>3 DEF PartWords
    <3>5. AnswerWords(a) = 1
      BY <2>4 DEF AnswerWords
    <3> QED BY <3>3, <3>4, <3>5
  <2> QED BY <2>3, <2>4
<1> QED BY <1>3, <1>4

\* A frame around answers, one for each access.
LEMMA FramedTo ==
    ASSUME NEW q \in Packet, q.rq # 0, NEW start \in {"NO_ERROR", "DEV_RESET"},
           NEW ans, DOMAIN ans = DOMAIN q.acc, ans = [i \in DOMAIN ans |-> ans[i]],
           \A i \in DOMAIN q.acc : AnswerOf(ans[i], q.acc[i], q.rq), FailsOn(q.acc, ans)
    PROVE  AnswerTo(q, Framed(start, q, ans))
<1> DEFINE n == Len(q.acc)
           s == Framed(start, q, ans)
           st == E("PL0_START", 0, 3 + NumWords(ans), start, q.rq)
           en == E("PL0_END", 0, q.cnt, "NO_ERROR", q.rq)
<1>1. n \in Nat /\ DOMAIN q.acc = 1..n /\ (\A i \in 1..n : q.acc[i] \in Pl0Access) /\ q.rq \in Nat /\ q.cnt \in Nat
  <2>1. q.acc \in Seq(Pl0Access) /\ q.rq \in Nat /\ q.cnt \in Nat
    BY DEF Packet
  <2> QED BY <2>1, SMT
<1>2. \A i \in 1..n : ans[i] \in Piece /\ ans[i].rq = q.rq /\ AnswerOf(ans[i], q.acc[i], q.rq)
  BY <1>1, AnswerOfType
<1>3. ans \in Seq(Piece) /\ Len(ans) = n
  <2>1. ans = [i \in 1..n |-> ans[i]]
    BY <1>1
  <2>2. [i \in 1..n |-> ans[i]] \in Seq(Piece) /\ Len([i \in 1..n |-> ans[i]]) = n
    <3> HIDE DEF n
    <3> QED BY <1>1, <1>2, SMT
  <2> QED BY <2>1, <2>2
<1>4. NumWords(ans) \in Nat
  BY <1>3, NumWordsConcat
<1>5. st \in Piece /\ en \in Piece
  <2>1. /\ "PL0_START" \in Cmds /\ "PL0_END" \in Cmds /\ 0 \in Nat /\ 3 + NumWords(ans) \in Nat
        /\ start \in PlErr \cup {"DEV_RESET", "DEV_ACCESS"}
        /\ "NO_ERROR" \in PlErr \cup {"DEV_RESET", "DEV_ACCESS"}
    BY <1>4 DEF Cmds, PlErr
  <2> QED BY <1>1, <2>1, PieceType
<1>6. /\ st.cmd = "PL0_START" /\ st.n = 3 + NumWords(ans) /\ st.err = start /\ st.rq = q.rq
      /\ en.cmd = "PL0_END" /\ en.n = q.cnt /\ en.rq = q.rq /\ en.wl = 0
  BY DEF E
<1>7. s = (<<st>> \o ans) \o <<en>>
  BY DEF Framed
<1> HIDE DEF s, st, en
<1>8. <<st>> \in Seq(Piece) /\ <<en>> \in Seq(Piece) /\ NumWords(<<st>>) = PartWords(st) /\ NumWords(<<en>>) = PartWords(en)
  BY <1>5, NumWordsOne
<1> DEFINE t == <<st>> \o ans
<1>9. /\ t \in Seq(Piece) /\ Len(t) = n + 1 /\ t[1] = st /\ \A i \in 1..n : t[i + 1] = ans[i]
      /\ NumWords(t) = PartWords(st) + NumWords(ans)
  <2>1. /\ t \in Seq(Piece) /\ Len(t) = Len(<<st>>) + Len(ans)
        /\ \A k \in 1..Len(<<st>>) : t[k] = <<st>>[k]
        /\ \A k \in 1..Len(ans) : t[Len(<<st>>) + k] = ans[k]
    BY <1>3, <1>8, ConcatAt
  <2>2. Len(<<st>>) = 1 /\ <<st>>[1] = st /\ 1 \in 1..1
    OBVIOUS
  <2>3. NumWords(t) = NumWords(<<st>>) + NumWords(ans)
    BY <1>3, <1>8, NumWordsConcat
  <2>4. \A i \in 1..n : 1 + i = i + 1
    BY <1>1
  <2> HIDE DEF t, n
  <2> QED BY <1>1, <1>3, <1>8, <2>1, <2>2, <2>3, <2>4
<1> HIDE DEF t
<1>10. /\ s \in Seq(Piece) /\ Len(s) = n + 2 /\ s[n + 2] = en /\ s[1] = st
       /\ \A i \in 1..n : s[i + 1] = ans[i]
       /\ NumWords(s) = PartWords(st) + NumWords(ans) + PartWords(en)
  <2>1. /\ s \in Seq(Piece) /\ Len(s) = Len(t) + Len(<<en>>)
        /\ \A k \in 1..Len(t) : s[k] = t[k]
        /\ \A k \in 1..Len(<<en>>) : s[Len(t) + k] = <<en>>[k]
    BY <1>7, <1>8, <1>9, ConcatAt DEF t
  <2>2. Len(<<en>>) = 1 /\ <<en>>[1] = en /\ 1 \in 1..1
    OBVIOUS
  <2>3. NumWords(s) = NumWords(t) + NumWords(<<en>>)
    BY <1>7, <1>8, <1>9, NumWordsConcat DEF t
  <2>4. s[Len(t) + 1] = en
    BY <2>1, <2>2
  <2>5. s[1] = st /\ \A i \in 1..n : s[i + 1] = ans[i]
    <3>1. 1 \in 1..(n + 1) /\ \A i \in 1..n : i + 1 \in 1..(n + 1)
      BY <1>1
    <3> HIDE DEF n
    <3> QED BY <1>9, <2>1, <3>1
  <2>6. (n + 1) + 1 = n + 2
    BY <1>1
  <2> HIDE DEF n
  <2> QED BY <1>1, <1>8, <1>9, <2>1, <2>2, <2>3, <2>4, <2>5, <2>6
<1>11. PartWords(st) = 2 /\ PartWords(en) = 1
  BY <1>6 DEF PartWords
<1>12. s[1].n = NumWords(s)
  BY <1>4, <1>6, <1>10, <1>11
<1>13. \A i \in 1..Len(s) : s[i].rq = q.rq
  <2> SUFFICES ASSUME NEW i \in 1..(n + 2) PROVE s[i].rq = q.rq
    BY <1>10
  <2>1. i = 1 \/ i = n + 2 \/ (i - 1 \in 1..n /\ (i - 1) + 1 = i)
    BY <1>1
  <2> HIDE DEF n
  <2> QED BY <1>2, <1>6, <1>10, <2>1
<1>14. Len(s) >= 1 /\ Len(s) = Len(q.acc) + 2 /\ s[Len(s)] = en
  BY <1>1, <1>10
<1>15. s[1].err # "DEV_ACCESS" /\ s[1].cmd = "PL0_START"
  BY <1>6, <1>10
<1>16. \A i \in 1..Len(q.acc) : AnswerOf(s[i + 1], q.acc[i], q.rq)
  BY <1>2, <1>10
<1>17. FailsOn(q.acc, [i \in DOMAIN q.acc |-> s[i + 1]])
  <2>1. \A i \in DOMAIN q.acc : [k \in DOMAIN q.acc |-> s[k + 1]][i] = ans[i]
    BY <1>1, <1>10
  <2> QED BY <2>1, Zenon DEF FailsOn
<1> HIDE DEF n
<1> QED BY <1>6, <1>10, <1>12, <1>13, <1>14, <1>15, <1>16, <1>17 DEF AnswerTo, s

LEMMA OnlyStartTo ==
    ASSUME NEW q \in Packet, NEW err, err = IF q.rq = 0 THEN "DEV_RESET" ELSE "DEV_ACCESS"
    PROVE  AnswerTo(q, OnlyStart(err, q))
<1> DEFINE st == E("PL0_START", 0, 2, err, q.rq)
<1>1. q.rq \in Nat
  BY DEF Packet
<1>2. st \in Piece
  <2>1. "PL0_START" \in Cmds /\ 0 \in Nat /\ 2 \in Nat /\ err \in PlErr \cup {"DEV_RESET", "DEV_ACCESS"}
    BY DEF Cmds
  <2> QED BY <1>1, <2>1, PieceType
<1>3. st.cmd = "PL0_START" /\ st.n = 2 /\ st.err = err /\ st.rq = q.rq
  BY DEF E
<1> HIDE DEF st
<1>4. PartWords(st) = 2
  BY <1>3 DEF PartWords
<1>5. NumWords(<<st>>) = 2 /\ <<st>> \in Seq(Piece)
  BY <1>2, <1>4, NumWordsOne
<1>6. Len(<<st>>) = 1 /\ <<st>>[1] = st
  OBVIOUS
<1>7. OnlyStart(err, q) = <<st>>
  BY DEF OnlyStart, st
<1>8. \A i \in 1..1 : i = 1
  OBVIOUS
<1> DEFINE s == <<st>>
<1>9. /\ s \in Seq(Piece) /\ Len(s) >= 1 /\ s[1].cmd = "PL0_START" /\ s[1].n = NumWords(s)
      /\ \A i \in 1..Len(s) : s[i].rq = q.rq
  BY <1>3, <1>5, <1>6, <1>8
<1>10. Len(s) = 1 /\ IF q.rq = 0 THEN s[1].err = "DEV_RESET" ELSE s[1].err = "DEV_ACCESS"
  BY <1>3, <1>6
<1> HIDE DEF s
<1>11. AnswerTo(q, s)
  BY <1>9, <1>10, Zenon DEF AnswerTo
<1> QED BY <1>7, <1>11 DEF s

LEMMA AnswersTo ==
    ASSUME NEW q \in Packet, NEW s \in ServerAnswers(q)
    PROVE  AnswerTo(q, s)
<1>1. CASE q.rq = 0
  <2>1. s = OnlyStart("DEV_RESET", q)
    BY <1>1 DEF ServerAnswers
  <2> QED BY <1>1, <2>1, OnlyStartTo
<1>2. CASE q.rq # 0
  <2>0. q.acc \in Seq(Pl0Access)
    BY DEF Packet
  <2>1. CASE s = OnlyStart("DEV_ACCESS", q)
    BY <1>2, <2>1, OnlyStartTo
  <2>2. CASE \E start \in {"NO_ERROR", "DEV_RESET"} :
                s = Framed(start, q, Answers(q.acc, q.rq, Len(q.acc) + 1, 0, "DATA"))
    <3> DEFINE ans == Answers(q.acc, q.rq, Len(q.acc) + 1, 0, "DATA")
    <3>1. PICK start \in {"NO_ERROR", "DEV_RESET"} : s = Framed(start, q, ans)
      BY <2>2
    <3>2. \A i \in DOMAIN q.acc : i < Len(q.acc) + 1
      BY <2>0, SMT
    <3>3. \A i \in DOMAIN q.acc : AnswerOf(ans[i], q.acc[i], q.rq)
      BY <3>2 DEF Answers, AnswerOf
    <3>4. DOMAIN ans = DOMAIN q.acc /\ ans = [i \in DOMAIN ans |-> ans[i]]
      BY DEF Answers
    <3>5. FailsOn(q.acc, ans)
      <4>1. \A i \in DOMAIN q.acc : ans[i].err = "NO_ERROR"
        BY <3>2 DEF Answers, OkAnswer, E
      <4> HIDE DEF ans
      <4> QED BY <4>1 DEF FailsOn
    <3> HIDE DEF ans
    <3> QED BY <1>2, <3>1, <3>3, <3>4, <3>5, FramedTo
  <2>3. CASE \E k \in DOMAIN q.acc : \E n \in PartialWords(q.acc[k]), err \in PlErrs :
                s = Framed("NO_ERROR", q, Answers(q.acc, q.rq, k, n, err))
    <3>1. PICK k \in DOMAIN q.acc : \E n \in PartialWords(q.acc[k]), err \in PlErrs :
                s = Framed("NO_ERROR", q, Answers(q.acc, q.rq, k, n, err))
      BY <2>3
    <3>2. PICK n \in PartialWords(q.acc[k]), err \in PlErrs :
                s = Framed("NO_ERROR", q, Answers(q.acc, q.rq, k, n, err))
      BY <3>1
    <3> DEFINE ans == Answers(q.acc, q.rq, k, n, err)
    <3>3. ASSUME NEW i \in DOMAIN q.acc PROVE AnswerOf(ans[i], q.acc[i], q.rq)
      <4>1. ans[i] = IF i < k THEN OkAnswer(q.acc[i], q.rq)
                     ELSE IF i = k THEN ErrAnswer(q.acc[i], n, err, q.rq)
                     ELSE ErrAnswer(q.acc[i], 0, "CONSEQUENTIAL", q.rq)
        BY DEF Answers
      <4>2. 0 \in PartialWords(q.acc[i])
        BY DEF PartialWords
      <4> HIDE DEF ans
      <4> QED BY <3>2, <4>1, <4>2, Zenon DEF AnswerOf
    <3>4. DOMAIN ans = DOMAIN q.acc /\ ans = [i \in DOMAIN ans |-> ans[i]]
      BY DEF Answers
    <3>5. s = Framed("NO_ERROR", q, ans)
      BY <3>2
    <3>6. FailsOn(q.acc, ans)
      <4> SUFFICES ASSUME NEW i \in DOMAIN q.acc, NEW j \in DOMAIN q.acc, i < j, ans[i].err # "NO_ERROR"
                   PROVE  ans[j].err # "NO_ERROR" /\ ans[j].n = 0
        BY DEF FailsOn
      <4>1. DOMAIN q.acc \subseteq Int
        BY <2>0, SMT
      <4>2. ~(i < k)
        BY DEF Answers, OkAnswer, E
      <4>3. ~(j < k) /\ j # k
        <5> HIDE DEF ans
        <5> QED BY <4>1, <4>2
      <4>4. ans[j] = ErrAnswer(q.acc[j], 0, "CONSEQUENTIAL", q.rq)
        BY <4>3 DEF Answers
      <4> HIDE DEF ans
      <4> QED BY <4>4 DEF ErrAnswer, E
    <3> HIDE DEF ans
    <3> QED BY <1>2, <3>3, <3>4, <3>5, <3>6, FramedTo
  <2>4. \/ s = OnlyStart("DEV_ACCESS", q)
        \/ s \in {Framed(start, q, Answers(q.acc, q.rq, Len(q.acc) + 1, 0, "DATA")) :
                    start \in {"NO_ERROR", "DEV_RESET"}}
        \/ s \in UNION {{Framed("NO_ERROR", q, Answers(q.acc, q.rq, k, n, err)) :
                        n \in PartialWords(q.acc[k]), err \in PlErrs} : k \in DOMAIN q.acc}
    BY <1>2 DEF ServerAnswers
  <2>5. ASSUME s \in UNION {{Framed("NO_ERROR", q, Answers(q.acc, q.rq, k, n, err)) :
                        n \in PartialWords(q.acc[k]), err \in PlErrs} : k \in DOMAIN q.acc}
        PROVE  AnswerTo(q, s)
    <3> DEFINE G(k) == {Framed("NO_ERROR", q, Answers(q.acc, q.rq, k, n, err)) :
                        n \in PartialWords(q.acc[k]), err \in PlErrs}
    <3>1. PICK k \in DOMAIN q.acc : s \in G(k)
      <4>1. s \in UNION {G(k) : k \in DOMAIN q.acc}
        BY <2>5
      <4> HIDE DEF G
      <4> QED BY <4>1
    <3>2. \E n \in PartialWords(q.acc[k]), err \in PlErrs :
                s = Framed("NO_ERROR", q, Answers(q.acc, q.rq, k, n, err))
      BY <3>1
    <3> QED BY <2>3, <3>2, Zenon
  <2>6. ASSUME s \in {Framed(start, q, Answers(q.acc, q.rq, Len(q.acc) + 1, 0, "DATA")) :
                    start \in {"NO_ERROR", "DEV_RESET"}}
        PROVE  AnswerTo(q, s)
    <3>1. \E start \in {"NO_ERROR", "DEV_RESET"} :
                s = Framed(start, q, Answers(q.acc, q.rq, Len(q.acc) + 1, 0, "DATA"))
      BY <2>6
    <3> QED BY <2>2, <3>1
  <2> DEFINE X1 == s \in {Framed(start, q, Answers(q.acc, q.rq, Len(q.acc) + 1, 0, "DATA")) :
                    start \in {"NO_ERROR", "DEV_RESET"}}
             X2 == s \in UNION {{Framed("NO_ERROR", q, Answers(q.acc, q.rq, k, n, err)) :
                        n \in PartialWords(q.acc[k]), err \in PlErrs} : k \in DOMAIN q.acc}
  <2>7. (X1 => AnswerTo(q, s)) /\ (X2 => AnswerTo(q, s)) /\ (s = OnlyStart("DEV_ACCESS", q) \/ X1 \/ X2)
    BY <2>4, <2>5, <2>6
  <2> HIDE DEF X1, X2
  <2> QED BY <2>1, <2>7
<1> QED BY <1>1, <1>2

\* The answer is not longer than rw_get_rq() has reckoned.
LEMMA AnswerToSize ==
    ASSUME NEW q \in Packet, NEW s, AnswerTo(q, s), NEW W, AnswerSums(q.acc, W)
    PROVE  NumWords(s) <= 3 + W[Len(q.acc)] /\ NumWords(s) \in Nat /\ W[Len(q.acc)] \in Nat
<1> DEFINE n == Len(q.acc)
<1>1. n \in Nat /\ q.acc \in Seq(Pl0Access) /\ q.rq \in Nat
  BY SMT DEF Packet
<1>2. s \in Seq(Piece) /\ Len(s) >= 1 /\ s[1].cmd = "PL0_START"
  BY DEF AnswerTo
<1>3. PICK C : Sums(s, C) /\ NumWords(s) = C[Len(s)]
  BY <1>2, NumWordsSums
<1>4. C \in [0..Len(s) -> Nat] /\ C[0] = 0 /\ \A i \in 1..Len(s) : C[i] = C[i - 1] + PartWords(s[i])
  BY <1>3 DEF Sums
<1>5. C[1] = 2
  <2>1. 1 \in 1..Len(s) /\ 1 - 1 = 0
    BY <1>2
  <2>2. PartWords(s[1]) = 2
    BY <1>2 DEF PartWords
  <2> QED BY <1>4, <2>1, <2>2
<1>6. W \in [0..n -> Nat] /\ W[0] = 0 /\ \A i \in 1..n : W[i] = W[i - 1] + AnswerWords(q.acc[i])
  BY DEF AnswerSums
<1>7. W[n] \in Nat /\ NumWords(s) \in Nat
  <2>1. n \in 0..n
    BY <1>1
  <2> QED BY <1>2, <1>6, <2>1, NumWordsConcat
<1>8. CASE Len(s) = 1
  BY <1>3, <1>5, <1>7, <1>8
<1>9. CASE Len(s) # 1
  <2>1. /\ Len(s) = n + 2 /\ s[n + 2].cmd = "PL0_END" /\ s[n + 2].wl = 0
        /\ \A i \in 1..n : AnswerOf(s[i + 1], q.acc[i], q.rq)
    <3>1. Len(s) = n + 2 /\ s[Len(s)].cmd = "PL0_END" /\ s[Len(s)].wl = 0 /\ \A i \in 1..n : AnswerOf(s[i + 1], q.acc[i], q.rq)
      BY <1>9 DEF AnswerTo
    <3> QED BY <3>1
  <2> DEFINE P == {k \in Nat : k <= n => C[k + 1] <= 2 + W[k]}
  <2>2. 0 \in P
    BY <1>5, <1>6
  <2>3. ASSUME NEW k \in P PROVE k + 1 \in P
    <3>1. k \in Nat /\ k + 1 \in Nat /\ (k + 1) - 1 = k
      OBVIOUS
    <3>2. ASSUME k + 1 <= n PROVE C[(k + 1) + 1] <= 2 + W[k + 1]
      <4>1. k + 1 \in 1..n /\ k <= n /\ (k + 1) + 1 \in 1..(n + 2) /\ ((k + 1) + 1) - 1 = k + 1
            /\ k + 1 \in 0..(n + 2) /\ k \in 0..n
        BY <1>1, <3>1, <3>2
      <4>2. C[(k + 1) + 1] = C[k + 1] + PartWords(s[(k + 1) + 1])
        BY <1>4, <2>1, <4>1
      <4>3. W[k + 1] = W[k] + AnswerWords(q.acc[k + 1])
        BY <1>6, <3>1, <4>1
      <4>4. /\ PartWords(s[(k + 1) + 1]) <= AnswerWords(q.acc[k + 1]) /\ PartWords(s[(k + 1) + 1]) \in Nat
            /\ AnswerWords(q.acc[k + 1]) \in Nat
        <5>1. q.acc[k + 1] \in Pl0Access
          BY <1>1, <4>1
        <5>2. AnswerOf(s[(k + 1) + 1], q.acc[k + 1], q.rq)
          BY <2>1, <4>1
        <5>3. s[(k + 1) + 1] \in Piece
          BY <1>1, <5>1, <5>2, AnswerOfType
        <5> QED BY <1>1, <5>1, <5>2, <5>3, AnswerOfType, AccessFields, PieceFields
      <4>5. C[k + 1] <= 2 + W[k] /\ C[k + 1] \in Nat /\ W[k] \in Nat
        BY <1>4, <1>6, <2>1, <2>3, <4>1
      <4> HIDE DEF n, P
      <4> QED BY <4>2, <4>3, <4>4, <4>5
    <3> HIDE DEF n
    <3> QED BY <3>1, <3>2
  <2>4. n \in P
    <3>1. P \in SUBSET Nat /\ \A k \in P : k + 1 \in P
      BY <2>3
    <3> HIDE DEF P
    <3> QED BY <1>1, <2>2, <3>1, SetInduction
  <2>5. C[n + 1] <= 2 + W[n]
    BY <1>1, <2>4
  <2>6. C[n + 2] = C[n + 1] + PartWords(s[n + 2])
    <3>1. n + 2 \in 1..(n + 2) /\ (n + 2) - 1 = n + 1
      BY <1>1
    <3> QED BY <1>4, <2>1, <3>1
  <2>7. C[n + 1] \in Nat /\ C[n + 2] \in Nat
    <3>1. n + 1 \in 0..(n + 2) /\ n + 2 \in 0..(n + 2)
      BY <1>1
    <3> QED BY <1>4, <2>1, <3>1
  <2>8. PartWords(s[n + 2]) = 1
    BY <2>1 DEF PartWords
  <2>9. C[n + 2] <= 3 + W[n]
    <3> HIDE DEF n, P
    <3> QED BY <1>7, <2>5, <2>6, <2>7, <2>8
  <2> QED BY <1>3, <1>7, <2>1, <2>9
<1> QED BY <1>8, <1>9

--------------------------------------------------------------------------------
(* A response of several packets.                                             *)

LEMMA ResponsesFold ==
    ASSUME NEW qs \in Seq(Packet)
    PROVE  \E F : /\ F[0] = {<<>>} /\ F[Len(qs)] = Responses(qs)
                  /\ \A k \in 1..Len(qs) :
                        F[k] = Joined(F[k - 1], ServerAnswers(qs[k]))
<1> DEFINE n == Len(qs)
           V == SUBSET Seq(Piece)
           Body(it) == it = [t \in SUBSET (1..n) |->
                        IF t = {} THEN {<<>>}
                        ELSE Joined(it[t \ {Max(t)}], ServerAnswers(qs[Max(t)]))]
           H == CHOOSE it : Body(it)
<1>1. n \in Nat /\ DOMAIN qs = 1..n /\ \A i \in 1..n : qs[i] \in Packet
  BY SMT
<1>2. \A i \in 1..n : ServerAnswers(qs[i]) \in V
  BY <1>1, AnswersTo DEF AnswerTo
<1>3. Responses(qs) = H[1..n]
  BY <1>1, Zenon DEF Responses, FoldLeft, MapThenFoldSet
<1>4. Body(H)
  <2> DEFINE Step(v, k) == Joined(v, ServerAnswers(qs[k]))
             g == [x \in (1..n) \X V |-> Step(x[2], x[1])]
  <2>1. g \in [(1..n) \X V -> V]
    <3>1. ASSUME NEW k \in 1..n, NEW v \in V PROVE Step(v, k) \in V
      <4>1. \A parts \in v, ans \in ServerAnswers(qs[k]) : parts \o ans \in Seq(Piece)
        <5> SUFFICES ASSUME NEW parts \in v, NEW ans \in ServerAnswers(qs[k]) PROVE parts \o ans \in Seq(Piece)
          OBVIOUS
        <5>1. parts \in Seq(Piece) /\ ans \in Seq(Piece)
          BY <1>2
        <5> QED BY <5>1, ConcatAt
      <4>2. Joined(v, ServerAnswers(qs[k])) \subseteq Seq(Piece)
        <5> HIDE DEF V
        <5> SUFFICES ASSUME NEW x \in Joined(v, ServerAnswers(qs[k])) PROVE x \in Seq(Piece)
          OBVIOUS
        <5>1. PICK s \in v, t \in ServerAnswers(qs[k]) : x = s \o t
          BY DEF Joined
        <5> QED BY <4>1, <5>1
      <4> QED BY <4>2
    <3> HIDE DEF Step, V
    <3> QED BY <3>1
  <2>2. PICK it \in [SUBSET (1..n) -> V] : Recursion(n, {<<>>}, g, it)
    <3>1. {<<>>} \in V
      BY SMT
    <3> HIDE DEF g, V
    <3> QED BY <1>1, <2>1, <3>1, RecursionExists
  <2>3. ASSUME NEW t \in SUBSET (1..n), t # {}
        PROVE  g[<<Max(t), it[t \ {Max(t)}]>>] = Step(it[t \ {Max(t)}], Max(t))
    <3>1. Max(t) \in 1..n
      <4>1. Max(t) \in t
        BY <1>1, <2>3, MaxOf
      <4> QED BY <4>1
    <3>2. it[t \ {Max(t)}] \in V
      <4>1. t \ {Max(t)} \in SUBSET (1..n)
        OBVIOUS
      <4> HIDE DEF V
      <4> QED BY <4>1
    <3> HIDE DEF Step, V
    <3> QED BY <3>1, <3>2
  <2>4. it = [t \in SUBSET (1..n) |-> IF t = {} THEN {<<>>} ELSE g[<<Max(t), it[t \ {Max(t)}]>>]]
    BY <2>2 DEF Recursion
  <2>5. it = [t \in SUBSET (1..n) |-> IF t = {} THEN {<<>>} ELSE Step(it[t \ {Max(t)}], Max(t))]
    <3> HIDE DEF g, Step
    <3> QED BY <2>3, <2>4
  <2>6. Body(it)
    BY <2>5
  <2> HIDE DEF Body
  <2> QED BY <2>6, Zenon
<1> HIDE DEF H
<1>5. H[1..0] = {<<>>}
  <2>1. 1..0 = {} /\ {} \in SUBSET (1..n)
    OBVIOUS
  <2> QED BY <1>4, <2>1, Zenon
<1>6. ASSUME NEW k \in 1..n
      PROVE  H[1..k] = Joined(H[1..(k - 1)], ServerAnswers(qs[k]))
  <2>1. (1..k) \in SUBSET (1..n)
    BY SMT
  <2>2. Max(1..k) = k /\ (1..k) \ {k} = 1..(k - 1) /\ (1..k) # {}
    <3>1. k \in Nat /\ k # 0
      OBVIOUS
    <3> QED BY <3>1, MaxOfInterval
  <2>3. H[1..k] = IF 1..k = {} THEN {<<>>}
                  ELSE Joined(H[(1..k) \ {Max(1..k)}], ServerAnswers(qs[Max(1..k)]))
    BY <1>4, <2>1, Zenon
  <2>4. H[1..k] = Joined(H[(1..k) \ {Max(1..k)}], ServerAnswers(qs[Max(1..k)]))
    BY <2>2, <2>3, Zenon
  <2> QED BY <2>2, <2>4, Zenon
<1> HIDE DEF Body
<1> DEFINE F == [k \in 0..n |-> H[1..k]]
<1>7. F[0] = {<<>>} /\ F[n] = Responses(qs)
  BY <1>1, <1>3, <1>5
<1>8. ASSUME NEW k \in 1..n
      PROVE  F[k] = Joined(F[k - 1], ServerAnswers(qs[k]))
  <2>1. F[k] = H[1..k] /\ F[k - 1] = H[1..(k - 1)]
    BY <1>1
  <2> HIDE DEF F
  <2> QED BY <1>6, <2>1, Zenon
<1> HIDE DEF F
<1> QED BY <1>7, <1>8, Zenon

\* A[k] is the answer to the k-th packet, R[k] all that comes behind it.
Behind(n, A, R) ==
    /\ A \in [1..n -> Seq(Piece)] /\ R \in [0..n -> Seq(Piece)]
    /\ R[n] = <<>>
    /\ \A k \in 1..n : R[k - 1] = A[k] \o R[k]

LEMMA PiecesConcat ==
    ASSUME NEW s \in Seq(Piece), NEW t \in Seq(Piece), NEW u \in Seq(Piece)
    PROVE  (s \o t) \o u = s \o (t \o u)
BY ConcatAssociative

\* One more answer, ans.
BehindAll(n, A, R, ans) ==
    \E B, S : /\ Behind(n + 1, B, S) /\ S[0] = R[0] \o ans
             /\ B[n + 1] = ans /\ \A k \in 1..n : B[k] = A[k]

LEMMA BehindStep ==
    ASSUME NEW n \in Nat, NEW A, NEW R, Behind(n, A, R), NEW ans \in Seq(Piece)
    PROVE  BehindAll(n, A, R, ans)
<1> DEFINE B == [k \in 1..(n + 1) |-> IF k = n + 1 THEN ans ELSE A[k]]
           S == [k \in 0..(n + 1) |-> IF k = n + 1 THEN <<>> ELSE R[k] \o ans]
<1>1. /\ A \in [1..n -> Seq(Piece)] /\ R \in [0..n -> Seq(Piece)] /\ R[n] = <<>>
      /\ \A k \in 1..n : R[k - 1] = A[k] \o R[k]
  BY DEF Behind
<1>2. B \in [1..(n + 1) -> Seq(Piece)]
  <2>1. \A k \in 1..(n + 1) : k # n + 1 => k \in 1..n
    OBVIOUS
  <2> QED BY <1>1, <2>1
<1>3. S \in [0..(n + 1) -> Seq(Piece)]
  <2>1. ASSUME NEW k \in 0..(n + 1) PROVE (IF k = n + 1 THEN <<>> ELSE R[k] \o ans) \in Seq(Piece)
    <3>1. CASE k = n + 1
      BY <3>1, SMT
    <3>2. CASE k # n + 1
      <4>1. R[k] \in Seq(Piece)
        <5>1. k \in 0..n
          BY <3>2
        <5> QED BY <1>1, <5>1
      <4>2. R[k] \o ans \in Seq(Piece)
        BY <4>1, ConcatAt
      <4> QED BY <3>2, <4>2
    <3> QED BY <3>1, <3>2
  <2> QED BY <2>1
<1>4. S[n + 1] = <<>>
  OBVIOUS
<1>5. ASSUME NEW k \in 1..(n + 1) PROVE S[k - 1] = B[k] \o S[k]
  <2>1. CASE k = n + 1
    <3>1. S[k - 1] = R[n] \o ans /\ B[k] = ans /\ S[k] = <<>>
      <4>1. k - 1 = n /\ n # n + 1 /\ n \in 0..(n + 1)
        BY <2>1
      <4> QED BY <2>1, <4>1
    <3>2. <<>> \o ans = ans /\ ans \o <<>> = ans
      BY SMT
    <3> HIDE DEF S, B
    <3> QED BY <1>1, <3>1, <3>2
  <2>2. CASE k # n + 1
    <3>1. k \in 1..n /\ k - 1 \in 0..n /\ k \in 0..(n + 1) /\ k - 1 \in 0..(n + 1) /\ k - 1 # n + 1
      BY <2>2
    <3>2. S[k - 1] = R[k - 1] \o ans /\ B[k] = A[k] /\ S[k] = R[k] \o ans
      BY <2>2, <3>1
    <3>3. A[k] \in Seq(Piece) /\ R[k] \in Seq(Piece) /\ R[k - 1] = A[k] \o R[k]
      <4>1. k \in 0..n
        BY <3>1
      <4> QED BY <1>1, <3>1, <4>1
    <3>4. (A[k] \o R[k]) \o ans = A[k] \o (R[k] \o ans)
      BY <3>3, PiecesConcat, Zenon
    <3> HIDE DEF S, B
    <3> QED BY <3>2, <3>3, <3>4
  <2> QED BY <2>1, <2>2
<1>6. S[0] = R[0] \o ans
  OBVIOUS
<1>7. B[n + 1] = ans /\ \A k \in 1..n : B[k] = A[k]
  <2>1. n + 1 \in 1..(n + 1) /\ \A k \in 1..n : k \in 1..(n + 1) /\ k # n + 1
    OBVIOUS
  <2> QED BY <2>1
<1> HIDE DEF B, S
<1> QED BY <1>2, <1>3, <1>4, <1>5, <1>6, <1>7 DEF Behind, BehindAll

LEMMA ResponseParts ==
    ASSUME NEW qs \in Seq(Packet), NEW parts \in Responses(qs)
    PROVE  \E A, R : /\ Behind(Len(qs), A, R) /\ R[0] = parts
                     /\ \A k \in 1..Len(qs) : AnswerTo(qs[k], A[k])
<1> DEFINE n == Len(qs)
           Made(k, s) == \E A, R : /\ Behind(k, A, R) /\ R[0] = s
                                   /\ \A i \in 1..k : AnswerTo(qs[i], A[i])
<1>1. n \in Nat /\ \A i \in 1..n : qs[i] \in Packet
  BY SMT
<1>2. PICK F : /\ F[0] = {<<>>} /\ F[n] = Responses(qs)
               /\ \A k \in 1..n :
                    F[k] = Joined(F[k - 1], ServerAnswers(qs[k]))
  BY ResponsesFold
<1> DEFINE P == {k \in Nat : k <= n => \A s \in F[k] : Made(k, s)}
<1>3. 0 \in P
  <2>1. Made(0, <<>>)
    <3> DEFINE A == [k \in 1..0 |-> <<>>]
               R == [k \in 0..0 |-> <<>>]
    <3>1. Behind(0, A, R)
      <4>1. <<>> \in Seq(Piece)
        BY SMT
      <4>2. A \in [1..0 -> Seq(Piece)] /\ R \in [0..0 -> Seq(Piece)]
        BY <4>1
      <4>3. R[0] = <<>>
        OBVIOUS
      <4>4. \A k \in 1..0 : R[k - 1] = A[k] \o R[k]
        OBVIOUS
      <4> HIDE DEF A, R
      <4> QED BY <4>2, <4>3, <4>4 DEF Behind
    <3>2. R[0] = <<>> /\ \A i \in 1..0 : AnswerTo(qs[i], A[i])
      OBVIOUS
    <3> HIDE DEF A, R
    <3> QED BY <3>1, <3>2
  <2> HIDE DEF Made
  <2> QED BY <1>2, <2>1
<1>4. ASSUME NEW k \in P PROVE k + 1 \in P
  <2>1. k \in Nat /\ k + 1 \in Nat /\ (k + 1) - 1 = k
    OBVIOUS
  <2>2. ASSUME k + 1 <= n, NEW s \in F[k + 1] PROVE Made(k + 1, s)
    <3>1. k + 1 \in 1..n /\ k <= n
      BY <1>1, <2>1, <2>2
    <3>2. F[k + 1] = Joined(F[k], ServerAnswers(qs[k + 1]))
      BY <1>2, <2>1, <3>1
    <3>3. PICK x \in F[k], ans \in ServerAnswers(qs[k + 1]) : s = x \o ans
      BY <2>2, <3>2 DEF Joined
    <3>4. PICK A, R : /\ Behind(k, A, R) /\ R[0] = x
                      /\ \A i \in 1..k : AnswerTo(qs[i], A[i])
      BY <1>4, <3>1
    <3>5. AnswerTo(qs[k + 1], ans)
      BY <1>1, <3>1, AnswersTo
    <3>6. PICK B, S : /\ Behind(k + 1, B, S) /\ S[0] = R[0] \o ans
                      /\ B[k + 1] = ans /\ \A i \in 1..k : B[i] = A[i]
      <4>1. ans \in Seq(Piece)
        BY <3>5 DEF AnswerTo
      <4>2. k \in Nat /\ Behind(k, A, R)
        BY <2>1, <3>4
      <4> HIDE DEF P, Made
      <4>3. BehindAll(k, A, R, ans)
        BY <4>1, <4>2, BehindStep, Zenon
      <4> QED BY <4>3, Zenon DEF BehindAll
    <3>7. \A i \in 1..(k + 1) : AnswerTo(qs[i], B[i])
      <4>1. \A i \in 1..(k + 1) : i = k + 1 \/ i \in 1..k
        BY <2>1
      <4> QED BY <3>4, <3>5, <3>6, <4>1
    <3> QED BY <3>3, <3>4, <3>6, <3>7
  <2> HIDE DEF Made
  <2> QED BY <2>1, <2>2
<1>5. n \in P
  <2>1. P \in SUBSET Nat /\ \A k \in P : k + 1 \in P
    BY <1>4
  <2> HIDE DEF P
  <2> QED BY <1>1, <1>3, <2>1, SetInduction
<1>6. Made(n, parts)
  <2> HIDE DEF Made
  <2> QED BY <1>1, <1>2, <1>5
<1> QED BY <1>6

--------------------------------------------------------------------------------
(* The accesses of a request, packet by packet.                               *)

LEMMA AccessesFold ==
    ASSUME NEW ss \in Seq(Seq(Pl0Access)), ss # <<>>
    PROVE  \E F : /\ F \in [0..Len(ss) -> Seq(Pl0Access)] /\ F[0] = <<>> /\ F[Len(ss)] = FlattenSeq(ss)
                  /\ \A k \in 1..Len(ss) : F[k] = F[k - 1] \o ss[k]
<1> DEFINE n == Len(ss)
           V == Seq(Pl0Access)
           Eq(f) == f = [i \in 1..n |-> IF i = 1 THEN ss[i] ELSE f[i - 1] \o ss[i]]
           G == CHOOSE f : Eq(f)
<1>1. n \in Nat /\ n # 0 /\ \A k \in 1..n : ss[k] \in V
  BY SMT
<1>2. FlattenSeq(ss) = G[n]
  BY <1>1, Zenon DEF FlattenSeq
<1>3. Eq(G)
  <2> DEFINE g == [x \in (1..n) \X V |-> IF x[1] = 1 THEN ss[1] ELSE x[2] \o ss[x[1]]]
  <2>1. g \in [(1..n) \X V -> V]
    <3>1. ASSUME NEW k \in 1..n, NEW v \in V PROVE (IF k = 1 THEN ss[1] ELSE v \o ss[k]) \in V
      <4>1. ss[k] \in V
        BY <1>1
      <4>2. v \o ss[k] \in V
        BY <4>1, ConcatAt
      <4> HIDE DEF V
      <4> QED BY <4>1, <4>2
    <3> HIDE DEF V
    <3> QED BY <3>1
  <2>2. PICK it \in [SUBSET (1..n) -> V] : Recursion(n, <<>>, g, it)
    <3>1. <<>> \in V
      BY SMT
    <3> HIDE DEF g, V
    <3> QED BY <1>1, <2>1, <3>1, RecursionExists
  <2>3. ASSUME NEW k \in 1..n PROVE it[1..k] = g[<<k, it[1..(k - 1)]>>]
    <3>1. it = [t \in SUBSET (1..n) |-> IF t = {} THEN <<>> ELSE g[<<Max(t), it[t \ {Max(t)}]>>]]
      BY <2>2 DEF Recursion
    <3>2. (1..k) \in SUBSET (1..n) /\ k \in Nat /\ k # 0
      BY <1>1
    <3>3. Max(1..k) = k /\ (1..k) \ {k} = 1..(k - 1) /\ (1..k) # {}
      BY <3>2, MaxOfInterval
    <3> HIDE DEF g, V
    <3>4. it[1..k] = IF 1..k = {} THEN <<>> ELSE g[<<Max(1..k), it[(1..k) \ {Max(1..k)}]>>]
      BY <3>1, <3>2
    <3> QED BY <3>3, <3>4
  <2> DEFINE f == [i \in 1..n |-> it[1..i]]
  <2>4. ASSUME NEW i \in 1..n PROVE f[i] = IF i = 1 THEN ss[i] ELSE f[i - 1] \o ss[i]
    <3>1. (1..(i - 1)) \in SUBSET (1..n)
      BY SMT
    <3>2. it[1..(i - 1)] \in V
      <4> HIDE DEF V
      <4> QED BY <3>1
    <3>3. g[<<i, it[1..(i - 1)]>>] = IF i = 1 THEN ss[1] ELSE it[1..(i - 1)] \o ss[i]
      <4> HIDE DEF V
      <4> QED BY <3>2
    <3>4. it[1..i] = IF i = 1 THEN ss[1] ELSE it[1..(i - 1)] \o ss[i]
      BY <2>3, <3>3, Zenon
    <3>5. i # 1 => i - 1 \in 1..n
      BY SMT
    <3>6. f[i] = it[1..i] /\ (i # 1 => f[i - 1] = it[1..(i - 1)])
      BY <3>5, Zenon
    <3> HIDE DEF f, g, V
    <3> QED BY <3>4, <3>6, Zenon
  <2>5. Eq(f)
    <3>1. f = [i \in 1..n |-> f[i]]
      OBVIOUS
    <3> HIDE DEF f
    <3> QED BY <2>4, <3>1
  <2> HIDE DEF f, Eq
  <2> QED BY <2>5, Zenon
<1> HIDE DEF G
<1>4. \A i \in 1..n : G[i] = IF i = 1 THEN ss[i] ELSE G[i - 1] \o ss[i]
  BY <1>3, Zenon
<1> HIDE DEF Eq
<1> DEFINE F == [k \in 0..n |-> IF k = 0 THEN <<>> ELSE G[k]]
           P == {k \in Nat : k <= n => F[k] \in V}
<1>5. F[0] = <<>> /\ F[n] = FlattenSeq(ss)
  BY <1>1, <1>2
<1>6. ASSUME NEW k \in 1..n, F[k - 1] \in V PROVE F[k] = F[k - 1] \o ss[k] /\ F[k] \in V
  <2>0. k \in 0..n /\ k - 1 \in 0..n /\ k # 0 /\ ss[k] \in V
    BY <1>1
  <2>1. F[k] = F[k - 1] \o ss[k]
    <3>1. CASE k = 1
      <4>1. F[k] = G[1] /\ F[k - 1] = <<>> /\ G[1] = ss[1]
        BY <1>4, <2>0, <3>1
      <4>2. <<>> \o ss[1] = ss[1]
        BY <2>0, <3>1, SMT
      <4> HIDE DEF F, V
      <4> QED BY <3>1, <4>1, <4>2, Zenon
    <3>2. CASE k # 1
      <4>1. k - 1 # 0
        BY <3>2
      <4>2. F[k] = G[k] /\ F[k - 1] = G[k - 1] /\ G[k] = G[k - 1] \o ss[k]
        BY <1>4, <2>0, <3>2, <4>1, Zenon
      <4> HIDE DEF F, V
      <4> QED BY <4>2, Zenon
    <3> QED BY <3>1, <3>2
  <2>2. F[k - 1] \o ss[k] \in V
    <3> HIDE DEF F
    <3> QED BY <1>6, <2>0, ConcatAt
  <2> HIDE DEF F, V
  <2> QED BY <2>1, <2>2, Zenon
<1>7. \A k \in Nat : k \in P
  <2>1. 0 \in P
    <3>1. <<>> \in V
      BY SMT
    <3> HIDE DEF F, V
    <3> QED BY <1>5, <3>1
  <2>2. ASSUME NEW k \in P PROVE k + 1 \in P
    <3>1. k \in Nat /\ k + 1 \in Nat /\ (k + 1) - 1 = k
      OBVIOUS
    <3>2. ASSUME k + 1 <= n PROVE F[k + 1] \in V
      <4>1. k + 1 \in 1..n /\ k <= n
        BY <1>1, <3>1, <3>2
      <4>2. F[k] \in V
        BY <2>2, <4>1
      <4> HIDE DEF F, V
      <4> QED BY <1>6, <3>1, <4>1, <4>2
    <3> HIDE DEF F, V
    <3> QED BY <3>1, <3>2
  <2>3. P \in SUBSET Nat /\ \A k \in P : k + 1 \in P
    BY <2>2
  <2> HIDE DEF P
  <2> QED BY <2>1, <2>3, SetInduction
<1>8. F \in [0..n -> V]
  <2>1. \A k \in 0..n : F[k] \in V
    <3>1. \A k \in 0..n : k \in Nat /\ k <= n
      BY <1>1
    <3> HIDE DEF F, V
    <3> QED BY <1>7, <3>1
  <2>2. F = [k \in 0..n |-> F[k]]
    OBVIOUS
  <2> HIDE DEF F, V
  <2> QED BY <2>1, <2>2
<1>9. \A k \in 1..n : F[k] = F[k - 1] \o ss[k]
  <2>1. \A k \in 1..n : k - 1 \in 0..n
    BY <1>1
  <2> HIDE DEF F, V
  <2> QED BY <1>6, <1>8, <2>1
<1> HIDE DEF F
<1> QED BY <1>5, <1>8, <1>9, Zenon

\* Accesses before the k-th packet: Off[k - 1].
Offsets(ss, acc, Off) ==
    /\ Off \in [0..Len(ss) -> Nat] /\ Off[0] = 0 /\ Off[Len(ss)] = Len(acc)
    /\ \A k \in 1..Len(ss) :
        /\ Off[k] = Off[k - 1] + Len(ss[k]) /\ Len(ss[k]) \in Nat
        /\ \A i \in 1..Len(ss[k]) : acc[Off[k - 1] + i] = ss[k][i]

LEMMA AccessConcat ==
    ASSUME NEW s \in Seq(Pl0Access), NEW t \in Seq(Pl0Access)
    PROVE  /\ Len(s) \in Nat /\ Len(t) \in Nat /\ Len(s \o t) = Len(s) + Len(t)
           /\ \A k \in 1..Len(s) : (s \o t)[k] = s[k]
           /\ \A k \in 1..Len(t) : (s \o t)[Len(s) + k] = t[k]
BY SMT

LEMMA AccessesAt ==
    ASSUME NEW ss \in Seq(Seq(Pl0Access)), ss # <<>>
    PROVE  /\ FlattenSeq(ss) \in Seq(Pl0Access)
           /\ \E Off : Offsets(ss, FlattenSeq(ss), Off)
<1> DEFINE n == Len(ss)
           acc == FlattenSeq(ss)
<1>1. n \in Nat /\ \A k \in 1..n : ss[k] \in Seq(Pl0Access)
  BY SMT
<1>2. PICK F : /\ F \in [0..n -> Seq(Pl0Access)] /\ F[0] = <<>> /\ F[n] = acc
               /\ \A k \in 1..n : F[k] = F[k - 1] \o ss[k]
  BY AccessesFold
<1> HIDE DEF acc, n
<1> DEFINE L(k) == Len(F[k])
<1>3. \A k \in 0..n : F[k] \in Seq(Pl0Access) /\ L(k) \in Nat
  <2>1. \A k \in 0..n : F[k] \in Seq(Pl0Access)
    BY <1>2
  <2>2. \A s \in Seq(Pl0Access) : Len(s) \in Nat
    BY SMT
  <2> QED BY <2>1, <2>2
<1>4. ASSUME NEW k \in 1..n
      PROVE  /\ k - 1 \in 0..n /\ k \in 0..n /\ Len(ss[k]) \in Nat /\ L(k) = L(k - 1) + Len(ss[k])
             /\ \A i \in 1..L(k - 1) : F[k][i] = F[k - 1][i]
             /\ \A i \in 1..Len(ss[k]) : F[k][L(k - 1) + i] = ss[k][i]
  <2>1. k - 1 \in 0..n /\ k \in 0..n
    BY <1>1
  <2>2. F[k - 1] \in Seq(Pl0Access) /\ ss[k] \in Seq(Pl0Access) /\ F[k] = F[k - 1] \o ss[k]
    BY <1>1, <1>2, <1>3, <2>1
  <2>3. /\ Len(ss[k]) \in Nat /\ Len(F[k - 1] \o ss[k]) = L(k - 1) + Len(ss[k])
        /\ \A i \in 1..L(k - 1) : (F[k - 1] \o ss[k])[i] = F[k - 1][i]
        /\ \A i \in 1..Len(ss[k]) : (F[k - 1] \o ss[k])[L(k - 1) + i] = ss[k][i]
    BY <2>2, AccessConcat, Zenon
  <2> QED BY <2>1, <2>2, <2>3, Zenon
<1> HIDE DEF L
<1>5. ASSUME NEW k \in 0..n
      PROVE  L(k) <= L(n) /\ \A i \in 1..L(k) : acc[i] = F[k][i]
  <2> DEFINE P == {d \in Nat : k + d <= n => L(k) <= L(k + d) /\ \A i \in 1..L(k) : F[k + d][i] = F[k][i]}
  <2>1. 0 \in P
    <3>1. k + 0 = k /\ k \in Nat /\ L(k) \in Nat
      BY <1>1, <1>3
    <3> QED BY <3>1
  <2>2. ASSUME NEW d \in P PROVE d + 1 \in P
    <3>1. d \in Nat /\ d + 1 \in Nat /\ (k + (d + 1)) - 1 = k + d
      OBVIOUS
    <3>2. ASSUME k + (d + 1) <= n
          PROVE  L(k) <= L(k + (d + 1)) /\ \A i \in 1..L(k) : F[k + (d + 1)][i] = F[k][i]
      <4>1. k + (d + 1) \in 1..n /\ k + d <= n
        BY <1>1, <3>1, <3>2
      <4>2. /\ L(k + (d + 1)) = L(k + d) + Len(ss[k + (d + 1)]) /\ Len(ss[k + (d + 1)]) \in Nat
            /\ \A i \in 1..L(k + d) : F[k + (d + 1)][i] = F[k + d][i]
            /\ L(k + d) \in Nat /\ L(k) \in Nat
        BY <1>3, <1>4, <3>1, <4>1
      <4>3. L(k) <= L(k + d) /\ \A i \in 1..L(k) : F[k + d][i] = F[k][i]
        BY <2>2, <4>1
      <4>4. \A i \in 1..L(k) : i \in 1..L(k + d)
        BY <4>2, <4>3
      <4> QED BY <4>2, <4>3, <4>4
    <3> QED BY <3>1, <3>2
  <2>3. \A d \in Nat : d \in P
    <3>1. P \in SUBSET Nat /\ \A d \in P : d + 1 \in P
      BY <2>2
    <3> HIDE DEF P
    <3> QED BY <2>1, <3>1, SetInduction
  <2>4. n - k \in Nat /\ k + (n - k) = n /\ n <= n
    BY <1>1
  <2> QED BY <1>2, <2>3, <2>4
<1> DEFINE Off == [k \in 0..n |-> L(k)]
<1>6. Off \in [0..n -> Nat] /\ \A k \in 0..n : Off[k] = L(k)
  BY <1>3
<1>7. Off[0] = 0 /\ Off[n] = Len(acc)
  <2>1. L(0) = 0 /\ L(n) = Len(acc)
    <3>1. Len(<<>>) = 0
      OBVIOUS
    <3> QED BY <1>2, <3>1, Zenon DEF L
  <2>2. 0 \in 0..n /\ n \in 0..n
    BY <1>1
  <2> QED BY <1>6, <2>1, <2>2
<1>8. ASSUME NEW k \in 1..n
      PROVE  /\ Off[k] = Off[k - 1] + Len(ss[k]) /\ Len(ss[k]) \in Nat
             /\ \A i \in 1..Len(ss[k]) : acc[Off[k - 1] + i] = ss[k][i]
  <2>1. k \in 0..n /\ k - 1 \in 0..n /\ L(k) \in Nat /\ L(k - 1) \in Nat
    BY <1>3, <1>4
  <2>2. Off[k] = L(k) /\ Off[k - 1] = L(k - 1)
    BY <1>6, <2>1
  <2>3. ASSUME NEW i \in 1..Len(ss[k]) PROVE acc[L(k - 1) + i] = ss[k][i]
    <3>1. L(k - 1) + i \in 1..L(k)
      BY <1>4, <2>1
    <3>2. acc[L(k - 1) + i] = F[k][L(k - 1) + i]
      BY <1>5, <2>1, <3>1, Zenon
    <3> QED BY <1>4, <3>2, Zenon
  <2> HIDE DEF Off
  <2> QED BY <1>4, <2>2, <2>3
<1>9. acc \in Seq(Pl0Access)
  <2>1. n \in 0..n
    BY <1>1
  <2> QED BY <1>2, <1>3, <2>1
<1> HIDE DEF Off
<1>10. Offsets(ss, acc, Off)
  BY <1>6, <1>7, <1>8, Zenon DEF Offsets, n
<1> QED BY <1>9, <1>10, Zenon DEF acc

--------------------------------------------------------------------------------
(* The invariant.                                                             *)

TransEntry == [a : Pl0Access, call : Nat]
Result == [num_bytes_ok : Nat, pl_err : PlErr, rq : Nat]
TasErrs == {"NONE", "SERVER_CON", "DEVICE_ACCESS", "DEVICE_LOCKED", "RW_READ", "RW_WRITE"}

\* The count behind x - 1.
Cnt(x) == x % 65536

Scalars ==
    /\ call \in Nat /\ resets \in Nat /\ mNumPl2Pkt \in Nat /\ mPl0NumTrans \in Nat /\ mRspSize \in Nat
    /\ tas_err \in TasErrs /\ phase \in {"idle", "sent", "parse", "done", "merged"}
    /\ phase # "idle" => call > 0
    /\ call > 0 => mNumPl2Pkt > 0
    /\ phase = "parse" => tas_err # "SERVER_CON"
Arrays ==
    /\ mPl0Trans \in Seq(TransEntry) /\ mPl0TransRsp \in Seq(Result)
    /\ Len(mPl0TransRsp) = Len(mPl0Trans) /\ mPl0NumTrans <= Len(mPl0Trans)
    /\ \A i \in 1..mPl0NumTrans : mPl0Trans[i].call = call
Counts == mPl1CntOutstandingOldest \in UInt16 /\ mPl1CntOutstandingLast \in UInt16
Parsed == rsp \in Seq(Piece) /\ p \in [wi : Nat, next : Nat, iTrans : Nat]

Types1 == Scalars /\ Arrays /\ Counts /\ Parsed /\ stream \in Seq(Packet)

\* The k-th packet of the request has the accesses from Off[k - 1] + 1 to Off[k].
\* W[i]: words of the first i answers.
Layout(Off, W) ==
    /\ Off \in [0..mNumPl2Pkt -> Nat] /\ Off[0] = 0 /\ Off[mNumPl2Pkt] = mPl0NumTrans
    /\ \A y \in 1..mNumPl2Pkt : Off[y - 1] <= Off[y] /\ Off[y - 1] < mPl0NumTrans
    /\ \A y \in 0..mNumPl2Pkt : Off[y] <= mPl0NumTrans
    /\ W \in [0..mPl0NumTrans -> Nat] /\ W[0] = 0
    /\ \A i \in 1..mPl0NumTrans : W[i] = W[i - 1] + AnswerWords(mPl0Trans[i].a)
    /\ mRspSize = 3 * mNumPl2Pkt + W[mPl0NumTrans]
    /\ \A y \in 1..mNumPl2Pkt : 3 + (W[Off[y]] - W[Off[y - 1]]) <= MaxRspSize

\* Packet q is the y-th one of the request.
Own(q, y, base, Off) ==
    /\ y \in 1..mNumPl2Pkt /\ q.cnt = Cnt(base + y)
    /\ Len(q.acc) = Off[y] - Off[y - 1]
    /\ \A i \in 1..Len(q.acc) : q.acc[i] = mPl0Trans[Off[y - 1] + i].a

\* Packets of requests underway have the counts without a gap; U[k] is the last one of
\* the first k, base that of the last packet before the running call.
Underway(u) ==
    /\ u.base \in Nat /\ mPl1CntOutstandingLast = Cnt(u.base + mNumPl2Pkt)
    /\ u.U \in [0..Len(stream) -> Nat] /\ u.U[Len(stream)] = u.base + mNumPl2Pkt
    /\ \A k \in 1..Len(stream) :
        /\ u.U[k] = IF stream[k].rq = 0 THEN u.U[k - 1] ELSE u.U[k - 1] + 1
        /\ stream[k].rq <= call
        /\ stream[k].rq # 0 => /\ stream[k].cnt = Cnt(u.U[k])
                               /\ Len(stream[k].acc) <= Len(mPl0Trans)
                               /\ stream[k].rq = call <=> u.U[k] > u.base
                               /\ stream[k].rq = call => Own(stream[k], u.U[k] - u.base, u.base, u.Off)
        /\ resets = 0 => stream[k].rq # 0
    /\ phase = "sent" => u.U[0] <= u.base /\ mPl1CntOutstandingOldest = Cnt(u.base + 1)

StreamInv == \E u : Layout(u.Off, u.W) /\ Underway(u)

Fresh == phase = "sent" => \A i \in 1..mPl0NumTrans : mPl0TransRsp[i] = Unanswered

\* Of the m accesses answered, the first failure decides.
FirstFailure(m) ==
    \E i \in 1..m : Failed(i) /\ ErrorOf(i) = tas_err /\ \A j \in 1..(i - 1) : ~Failed(j)
Entries(m) ==
    /\ m <= mPl0NumTrans
    /\ \A i \in 1..mPl0NumTrans :
        IF i <= m THEN mPl0TransRsp[i].rq = call ELSE mPl0TransRsp[i] = Unanswered
    /\ tas_err = "NONE" => \A i \in 1..m : ~Failed(i)
    /\ tas_err \notin {"NONE", "DEVICE_ACCESS"} => FirstFailure(m)

\* The packets qs whose answers A make up the response; R: see Behind.
\* Y[k]: packets of the running call among the first k.
Stale(q) == q.rq # 0 /\ q.rq # call
Taken(base, Off, qs, Y) ==
    /\ qs \in Seq(Packet) /\ Len(qs) = mNumPl2Pkt
    /\ Y \in [0..mNumPl2Pkt -> 0..mNumPl2Pkt] /\ Y[0] = 0
    /\ \A k \in 1..mNumPl2Pkt :
        /\ qs[k].rq = call => Y[k] = Y[k - 1] + 1 /\ Own(qs[k], Y[k], base, Off)
        /\ qs[k].rq # call => Y[k] = Y[k - 1]
        /\ Stale(qs[k]) => /\ Y[k - 1] = 0 /\ qs[k].cnt # Cnt(base + 1)
                           /\ Len(qs[k].acc) <= Len(mPl0Trans)
        /\ resets = 0 => qs[k].rq # 0
Response(g) ==
    /\ g.base \in Nat /\ mPl1CntOutstandingLast = Cnt(g.base + mNumPl2Pkt)
    /\ Layout(g.Off, g.W) /\ Taken(g.base, g.Off, g.qs, g.Y) /\ Behind(mNumPl2Pkt, g.A, g.R)
    /\ \A k \in 1..mNumPl2Pkt : AnswerTo(g.qs[k], g.A[k])

\* Accesses answered by the first j parts of an answer to q.
Got(j, q) == IF j <= 1 THEN 0 ELSE IF j - 1 <= Len(q.acc) THEN j - 1 ELSE Len(q.acc)

\* The response is not longer than expected. In the first packet that has answers, those
\* without an error that were accepted are as long as the answers expected.
Within(g, k, j) ==
    /\ NumWords(g.R[0]) <= mRspSize
    /\ g.Y[k - 1] = 0 =>
        \A i \in 1..Got(j, g.qs[k]) :
            i <= mPl0NumTrans /\ g.A[k][i + 1].err = "NO_ERROR"
                => PartWords(g.A[k][i + 1]) = AnswerWords(mPl0Trans[i].a)

\* rw_set_rsp() has parsed the answers to k - 1 packets and j parts of the next one.
At(g, k, j) ==
    /\ k \in 1..mNumPl2Pkt /\ j \in 0..Len(g.A[k])
    /\ rsp = SubSeq(g.R[k - 1], j + 1, Len(g.R[k - 1]))
    /\ \E C : Sums(g.A[k], C) /\ p.next = p.wi + (IF j = 0 THEN 0 ELSE C[Len(g.A[k])] - C[j])
    /\ p.iTrans = g.Off[g.Y[k - 1]] + Got(j, g.qs[k])
    /\ mPl1CntOutstandingOldest = Cnt(g.base + 1 + (IF j = Len(g.A[k]) THEN g.Y[k] ELSE g.Y[k - 1]))
    /\ g.Y[k - 1] < mNumPl2Pkt
    /\ j = Len(g.A[k]) => g.Y[k] < mNumPl2Pkt /\ ~Stale(g.qs[k]) /\ p.iTrans = g.Off[g.Y[k]]
    /\ resets = 0 => g.Y[k - 1] = k - 1
    /\ \A i \in 1..(k - 1) : ~Stale(g.qs[i])
    /\ ~Stale(g.qs[k]) => Entries(p.iTrans)
    /\ Within(g, k, j)

ParseInv == phase = "parse" =>
    \E g : Response(g) /\ \E k, j : At(g, k, j)

DoneInv ==
    /\ SuccessIsOwn /\ SuccessIsComplete /\ FirstErrorWins
    /\ phase = "done" /\ tas_err = "SERVER_CON" => \E i \in DOMAIN rsp : rsp[i].rq # call

IInv == Types1 /\ StreamInv /\ Fresh /\ ParseInv /\ DoneInv

\* Fewer packets are underway than there are counts.
FewUnderway == Len(stream) < 65536

--------------------------------------------------------------------------------
(* A turn of the loop.                                                        *)

\* The part the turn is about, and what is left behind it.
Here(g, k, j) ==
    /\ k \in 1..mNumPl2Pkt /\ j \in 0..(Len(g.A[k]) - 1) /\ Len(g.A[k]) \in Nat
    /\ Part = g.A[k][j + 1] /\ Part \in Piece
    /\ Tail(rsp) = SubSeq(g.R[k - 1], (j + 1) + 1, Len(g.R[k - 1]))

LEMMA PFields ==
    ASSUME Types1
    PROVE  p.wi \in Nat /\ p.next \in Nat /\ p.iTrans \in Nat
<1>1. p \in [wi : Nat, next : Nat, iTrans : Nat]
  BY Zenon DEF Types1, Parsed
<1> QED BY <1>1

LEMMA PiecesAt ==
    ASSUME NEW s \in Seq(Piece), NEW t \in Seq(Piece)
    PROVE  /\ Len(s) \in Nat /\ Len(t) \in Nat /\ Len(s \o t) = Len(s) + Len(t)
           /\ \A k \in 1..Len(s) : (s \o t)[k] = s[k]
           /\ \A k \in 1..Len(t) : (s \o t)[Len(s) + k] = t[k]
BY SMT

LEMMA TailOfSub ==
    ASSUME NEW s \in Seq(Piece), NEW i \in Nat, i >= 1, i <= Len(s)
    PROVE  /\ SubSeq(s, i, Len(s)) # <<>> /\ Head(SubSeq(s, i, Len(s))) = s[i]
           /\ Tail(SubSeq(s, i, Len(s))) = SubSeq(s, i + 1, Len(s)) /\ Len(s) \in Nat
<1>1. Len(s) \in Nat /\ \A k \in i..Len(s) : s[k] \in Piece
  BY SMT
<1>2. i \in 1..Len(s) /\ Len(s) \in i..Len(s) /\ i \in Int /\ Len(s) \in Int
  BY <1>1
<1>3. Head(SubSeq(s, i, Len(s))) = s[i] /\ Tail(SubSeq(s, i, Len(s))) = SubSeq(s, i + 1, Len(s))
  BY <1>2, HeadTailOfSubSeq
<1>4. Len(SubSeq(s, i, Len(s))) = Len(s) - i + 1
  <2> DEFINE n == Len(s)
  <2>1. n \in Int /\ i \in Int /\ i <= n /\ \A k \in i..n : s[k] \in Piece
    BY <1>1, <1>2
  <2> HIDE DEF n
  <2>2. Len(SubSeq(s, i, n)) = n - i + 1
    BY <2>1, SubSeqProperties
  <2> QED BY <2>2 DEF n
<1>5. SubSeq(s, i, Len(s)) # <<>>
  <2>1. Len(s) - i + 1 # 0 /\ Len(<<>>) = 0
    BY <1>1
  <2> QED BY <1>4, <2>1, Zenon
<1> QED BY <1>1, <1>3, <1>5

LEMMA SubBehind ==
    ASSUME NEW s \in Seq(Piece), NEW t \in Seq(Piece)
    PROVE  SubSeq(s \o t, Len(s) + 1, Len(s \o t)) = t /\ SubSeq(t, 0 + 1, Len(t)) = t
<1> DEFINE u == s \o t
           v == SubSeq(u, Len(s) + 1, Len(u))
<1>1. /\ u \in Seq(Piece) /\ Len(s) \in Nat /\ Len(t) \in Nat /\ Len(u) = Len(s) + Len(t)
      /\ \A i \in 1..Len(t) : u[Len(s) + i] = t[i]
  BY ConcatAt
<1>2. /\ v \in Seq(Piece) /\ Len(v) = Len(t)
      /\ \A i \in 1..Len(t) : v[i] = u[Len(s) + i]
  <2> HIDE DEF u
  <2> QED BY <1>1, SMT
<1>3. v = t
  <2> HIDE DEF v
  <2> QED BY <1>1, <1>2, SeqEqual
<1>4. SubSeq(t, 0 + 1, Len(t)) = t
  BY SMT
<1> QED BY <1>3, <1>4

Typed(g, k) ==
    /\ k - 1 \in 0..mNumPl2Pkt /\ k \in 0..mNumPl2Pkt /\ k \in Nat /\ mNumPl2Pkt \in Nat
    /\ g.base \in Nat /\ g.qs[k] \in Packet /\ g.qs[k].rq \in Nat /\ g.qs[k].cnt \in Nat
    /\ g.qs[k].acc \in Seq(Pl0Access) /\ Len(g.qs[k].acc) \in Nat
    /\ g.Y[k] \in 0..mNumPl2Pkt /\ g.Y[k - 1] \in 0..mNumPl2Pkt
    /\ g.Off[g.Y[k]] \in Nat /\ g.Off[g.Y[k - 1]] \in Nat
    /\ g.A[k] \in Seq(Piece) /\ g.R[k] \in Seq(Piece) /\ g.R[k - 1] \in Seq(Piece)
    /\ g.R[k - 1] = g.A[k] \o g.R[k] /\ AnswerTo(g.qs[k], g.A[k]) /\ Len(g.A[k]) \in Nat /\ Len(g.A[k]) >= 1

LEMMA ResponseTypes ==
    ASSUME Types1, NEW g, Response(g), NEW k \in 1..mNumPl2Pkt
    PROVE  Typed(g, k)
<1>0. mNumPl2Pkt \in Nat
  BY Zenon DEF Types1, Scalars
<1>1. k - 1 \in 0..mNumPl2Pkt /\ k \in 0..mNumPl2Pkt /\ k \in Nat /\ mNumPl2Pkt \in Nat
  BY <1>0
<1>2. g.base \in Nat /\ AnswerTo(g.qs[k], g.A[k])
  BY DEF Response
<1>3. g.qs[k] \in Packet
  <2>1. g.qs \in Seq(Packet) /\ Len(g.qs) = mNumPl2Pkt
    BY DEF Response, Taken
  <2> QED BY <2>1, ElementOfSeq
<1>4. g.qs[k].rq \in Nat /\ g.qs[k].cnt \in Nat /\ g.qs[k].acc \in Seq(Pl0Access) /\ Len(g.qs[k].acc) \in Nat
  <2>1. g.qs[k].rq \in Nat /\ g.qs[k].cnt \in Nat /\ g.qs[k].acc \in Seq(Pl0Access)
    BY <1>3 DEF Packet
  <2> QED BY <2>1, LenProperties
<1>5. g.Y[k] \in 0..mNumPl2Pkt /\ g.Y[k - 1] \in 0..mNumPl2Pkt
  <2>1. g.Y \in [0..mNumPl2Pkt -> 0..mNumPl2Pkt]
    BY Zenon DEF Response, Taken
  <2> QED BY <1>1, <2>1
<1>6. g.Off[g.Y[k]] \in Nat /\ g.Off[g.Y[k - 1]] \in Nat
  <2>1. g.Off \in [0..mNumPl2Pkt -> Nat]
    BY Zenon DEF Response, Layout
  <2> QED BY <1>5, <2>1
<1>7. g.A[k] \in Seq(Piece) /\ g.R[k] \in Seq(Piece) /\ g.R[k - 1] \in Seq(Piece) /\ g.R[k - 1] = g.A[k] \o g.R[k]
  <2>1. /\ g.A \in [1..mNumPl2Pkt -> Seq(Piece)] /\ g.R \in [0..mNumPl2Pkt -> Seq(Piece)]
        /\ g.R[k - 1] = g.A[k] \o g.R[k]
    BY Zenon DEF Response, Behind
  <2> QED BY <1>1, <2>1
<1>8. Len(g.A[k]) \in Nat /\ Len(g.A[k]) >= 1
  <2>1. Len(g.A[k]) >= 1
    BY <1>2 DEF AnswerTo
  <2> QED BY <1>7, <2>1, LenProperties
<1> QED BY <1>1, <1>2, <1>3, <1>4, <1>5, <1>6, <1>7, <1>8, Zenon DEF Typed

LEMMA WithinStays ==
    ASSUME NEW g, NEW k, NEW j, Within(g, k, j), NEW l, Got(l, g.qs[k]) = Got(j, g.qs[k]),
           mRspSize' = mRspSize, mPl0NumTrans' = mPl0NumTrans, mPl0Trans' = mPl0Trans
    PROVE  Within(g, k, l)'
BY Zenon DEF Within

LEMMA WithinStart ==
    ASSUME NEW g, NumWords(g.R[0]) <= mRspSize, NEW k, NEW l, Got(l, g.qs[k]) = 0
    PROVE  Within(g, k, l)
<1>1. \A i \in 1..0 : FALSE
  OBVIOUS
<1> QED BY <1>1, Zenon DEF Within

\* Behind an answer the next one begins.
LEMMA NextPacket ==
    ASSUME Types1, phase = "parse", rsp # <<>>,
           NEW g, Response(g), NEW k, At(g, k, Len(g.A[k]))
    PROVE  At(g, k + 1, 0)
<1> DEFINE n == mNumPl2Pkt
           j == Len(g.A[k])
<1>1. k \in 1..n /\ rsp = SubSeq(g.R[k - 1], j + 1, Len(g.R[k - 1]))
  BY DEF At
<1>2. /\ k \in Nat /\ n \in Nat /\ g.A[k] \in Seq(Piece) /\ g.R[k] \in Seq(Piece) /\ g.R[k - 1] = g.A[k] \o g.R[k]
      /\ j \in Nat /\ j >= 1 /\ g.qs[k].rq \in Nat
      /\ g.Y[k - 1] \in 0..n /\ g.Y[k] \in 0..n /\ g.base \in Nat /\ g.Off[g.Y[k]] \in Nat
  <2>1. Typed(g, k)
    BY <1>1, ResponseTypes, Zenon
  <2> QED BY <2>1, Zenon DEF Typed
<1>3. rsp = g.R[k] /\ rsp = SubSeq(g.R[k], 0 + 1, Len(g.R[k]))
  BY <1>1, <1>2, SubBehind, Zenon
<1>4. k + 1 \in 1..n /\ (k + 1) - 1 = k
  <2>1. g.R[n] = <<>>
    BY DEF Response, Behind
  <2>2. k # n
    BY <1>3, <2>1
  <2> QED BY <1>1, <1>2, <2>2
<1>5. /\ k + 1 \in Nat /\ g.A[k + 1] \in Seq(Piece) /\ Len(g.A[k + 1]) \in Nat /\ Len(g.A[k + 1]) >= 1
  <2>1. Typed(g, k + 1)
    BY <1>4, ResponseTypes, Zenon
  <2>2. k + 1 \in Nat
    BY <1>2
  <2> QED BY <2>1, <2>2, Zenon DEF Typed
<1>6. 0 \in 0..Len(g.A[k + 1]) /\ 0 # Len(g.A[k + 1])
  BY <1>5
<1>7. g.Y[k] < n /\ ~Stale(g.qs[k]) /\ p.iTrans = g.Off[g.Y[k]]
  BY DEF At
<1>8. \E C : Sums(g.A[k + 1], C) /\ p.next = p.wi + (IF 0 = 0 THEN 0 ELSE C[Len(g.A[k + 1])] - C[0])
  <2>1. PICK C : Sums(g.A[k + 1], C)
    BY <1>5, NumWordsSums
  <2>2. p.next = p.wi + 0
    <3>1. PICK D : Sums(g.A[k], D) /\ p.next = p.wi + (IF j = 0 THEN 0 ELSE D[j] - D[j])
      BY DEF At
    <3>2. D[j] \in Nat /\ p.wi \in Nat
      <4>1. j \in 0..j /\ D \in [0..j -> Nat]
        BY <1>2, <3>1 DEF Sums
      <4>2. p.wi \in Nat
        BY PFields
      <4> QED BY <4>1, <4>2
    <3> HIDE DEF j
    <3> QED BY <1>2, <3>1, <3>2
  <2> QED BY <2>1, <2>2, Zenon
<1>9. p.iTrans = g.Off[g.Y[k]] + Got(0, g.qs[k + 1])
  BY <1>2, <1>7 DEF Got
<1>10. mPl1CntOutstandingOldest = Cnt(g.base + 1 + g.Y[k])
  BY DEF At
<1>11. resets = 0 => g.Y[k] = k
  <2>1. resets = 0 => g.Y[k - 1] = k - 1
    BY DEF At
  <2>2. resets = 0 => g.qs[k].rq # 0
    BY <1>1 DEF Response, Taken
  <2>3. resets = 0 => g.qs[k].rq = call
    BY <1>7, <2>2 DEF Stale
  <2>4. g.qs[k].rq = call => g.Y[k] = g.Y[k - 1] + 1
    BY <1>1 DEF Response, Taken
  <2> QED BY <1>2, <2>1, <2>3, <2>4
<1>12. \A i \in 1..k : ~Stale(g.qs[i])
  <2>1. \A i \in 1..(k - 1) : ~Stale(g.qs[i])
    BY DEF At
  <2>2. \A i \in 1..k : i = k \/ i \in 1..(k - 1)
    BY <1>2
  <2> QED BY <1>7, <2>1, <2>2
<1>13. Entries(p.iTrans)
  BY <1>7 DEF At
<1>14. mPl1CntOutstandingOldest = Cnt(g.base + 1 + (IF 0 = Len(g.A[k + 1]) THEN g.Y[k + 1] ELSE g.Y[k]))
  BY <1>6, <1>10, Zenon
<1>15. Within(g, k + 1, 0)
  <2>1. NumWords(g.R[0]) <= mRspSize
    BY Zenon DEF At, Within
  <2>2. Got(0, g.qs[k + 1]) = 0
    BY DEF Got
  <2> QED BY <2>1, <2>2, WithinStart, Zenon
<1> HIDE DEF n, j
<1> QED BY <1>3, <1>4, <1>6, <1>7, <1>8, <1>9, <1>11, <1>12, <1>13, <1>14, <1>15, Zenon DEF At, n

LEMMA HerePart ==
    ASSUME Types1, phase = "parse", rsp # <<>>,
           NEW g, Response(g), NEW k, NEW j, At(g, k, j),
           j # Len(g.A[k])
    PROVE  Here(g, k, j)
<1>1. /\ k \in 1..mNumPl2Pkt /\ j \in 0..Len(g.A[k])
      /\ rsp = SubSeq(g.R[k - 1], j + 1, Len(g.R[k - 1]))
  BY DEF At
<1>2. /\ g.A[k] \in Seq(Piece) /\ g.R[k] \in Seq(Piece) /\ g.R[k - 1] = g.A[k] \o g.R[k] /\ g.R[k - 1] \in Seq(Piece)
      /\ Len(g.A[k]) \in Nat
  <2>1. Typed(g, k)
    BY <1>1, ResponseTypes, Zenon
  <2> QED BY <2>1, Zenon DEF Typed
<1>3. /\ Len(g.R[k]) \in Nat /\ Len(g.R[k - 1]) = Len(g.A[k]) + Len(g.R[k])
      /\ \A i \in 1..Len(g.A[k]) : g.R[k - 1][i] = g.A[k][i]
  <2> DEFINE a == g.A[k]
             r == g.R[k]
             ar == a \o r
  <2>1. /\ Len(r) \in Nat /\ Len(ar) = Len(a) + Len(r)
        /\ \A i \in 1..Len(a) : ar[i] = a[i]
    BY <1>2, PiecesAt, Zenon
  <2>2. g.R[k - 1] = ar
    BY <1>2
  <2> HIDE DEF ar
  <2> QED BY <2>1, <2>2, Zenon
<1>4. /\ j \in 0..(Len(g.A[k]) - 1) /\ j + 1 \in Nat /\ j + 1 >= 1 /\ j + 1 <= Len(g.R[k - 1])
      /\ j + 1 \in 1..Len(g.A[k])
  <2> DEFINE a == Len(g.A[k])
             r == Len(g.R[k - 1])
             b == Len(g.R[k])
  <2>1. a \in Nat /\ b \in Nat /\ r = a + b /\ j \in 0..a /\ j # a
    BY <1>1, <1>2, <1>3
  <2> HIDE DEF a, b, r
  <2>2. j \in 0..(a - 1) /\ j + 1 \in Nat /\ j + 1 >= 1 /\ j + 1 <= r /\ j + 1 \in 1..a
    BY <2>1
  <2> QED BY <2>2 DEF a, r
<1>5. Part = g.R[k - 1][j + 1] /\ Tail(rsp) = SubSeq(g.R[k - 1], (j + 1) + 1, Len(g.R[k - 1]))
  BY <1>1, <1>2, <1>4, TailOfSub, Zenon DEF Part
<1>6. g.A[k][j + 1] \in Piece
  BY <1>2, <1>4, ElementOfSeq
<1> QED BY <1>1, <1>2, <1>3, <1>4, <1>5, <1>6 DEF Here

\* Wherever the loop is, there is an answer whose part comes next.
LEMMA TurnAt ==
    ASSUME Types1, ParseInv, phase = "parse", rsp # <<>>
    PROVE  \E g : Response(g) /\ \E k, j : At(g, k, j) /\ Here(g, k, j)
<1>1. PICK g : Response(g) /\ \E k, j : At(g, k, j)
  BY Zenon DEF ParseInv
<1>2. PICK k, j : At(g, k, j)
  BY <1>1, Zenon
<1>3. CASE j # Len(g.A[k])
  BY <1>1, <1>2, <1>3, HerePart, Zenon
<1>4. CASE j = Len(g.A[k])
  <2>1. At(g, k + 1, 0)
    BY <1>1, <1>2, <1>4, NextPacket, Zenon
  <2>2. 0 # Len(g.A[k + 1])
    <3>1. k + 1 \in 1..mNumPl2Pkt
      BY <2>1 DEF At
    <3>2. Typed(g, k + 1)
      BY <1>1, <3>1, ResponseTypes, Zenon
    <3> QED BY <3>2 DEF Typed
  <2> QED BY <1>1, <2>1, <2>2, HerePart, Zenon
<1> QED BY <1>3, <1>4, Zenon

\* What ParseRd and ParseWr ask of an answer.
RdOk(e, a) ==
    /\ e.wl = e.n
    /\ a.type = "RD"
    /\ IF e.cmd = "RDBLK1KB"
       THEN Words(a) = DataBlkWords /\ e.wl = 0 /\ e.err = "NO_ERROR"
       ELSE IF e.err # "NO_ERROR"
       THEN IF e.cmd = "RDBLK" THEN e.n <= Words(a) ELSE e.n = 0
       ELSE e.n = Words(a) % 256
WrOk(e, a) ==
    /\ e.wl = 0 /\ a.type \in {"WR", "FILL"}
    /\ IF e.err # "NO_ERROR"
       THEN IF e.cmd = "WRBLK" THEN e.n < Words(a) ELSE e.n = 0
       ELSE e.n = Words(a) % 256

RdCmds == {"RD", "RDBLK", "RDBLK1KB"}
WrCmds == {"WR", "WRBLK", "FILL"}

\* The server's answers pass.
LEMMA AnswerPasses ==
    ASSUME NEW a \in Pl0Access, NEW rq \in Nat, NEW e, AnswerOf(e, a, rq)
    PROVE  \/ e.cmd \in RdCmds /\ RdOk(e, a)
           \/ e.cmd \in WrCmds /\ WrOk(e, a)
<1> DEFINE w == Words(a)
<1>1. /\ a.type \in Types /\ w \in Nat /\ w >= 1 /\ w <= 256
      /\ a.num_bytes \in Nat /\ 4 * w >= a.num_bytes
  BY AccessFields
<1>2. IsBlk(a) => w > 1
  <2> HIDE DEF w
  <2> QED BY <1>1 DEF IsBlk
<1>3. CASE e = OkAnswer(a, rq)
  <2> DEFINE n == w % 256
  <2>1. w = 256 => n = 0
    OBVIOUS
  <2>2. CASE a.type = "RD"
    <3> DEFINE c == IF ~IsBlk(a) THEN "RD" ELSE IF w = 256 THEN "RDBLK1KB" ELSE "RDBLK"
    <3>1. e = E(c, n, n, "NO_ERROR", rq)
      BY <1>3, <2>2 DEF OkAnswer, DataBlkWords
    <3>2. e.cmd = c /\ e.wl = n /\ e.n = n /\ e.err = "NO_ERROR"
      <4> HIDE DEF c, n
      <4> QED BY <3>1, Zenon DEF E
    <3>3. c \in RdCmds /\ (c = "RDBLK1KB" => w = 256)
      BY DEF RdCmds
    <3> HIDE DEF c
    <3>4. RdOk(e, a)
      <4>1. c = "RDBLK1KB" => w = DataBlkWords /\ n = 0
        BY <2>1, <3>3 DEF DataBlkWords
      <4> HIDE DEF n
      <4> QED BY <2>2, <3>2, <4>1 DEF RdOk, n
    <3> QED BY <3>2, <3>3, <3>4
  <2>3. CASE a.type # "RD"
    <3> DEFINE c == IF a.type = "FILL" THEN "FILL" ELSE IF IsBlk(a) THEN "WRBLK" ELSE "WR"
    <3>1. e = E(c, 0, n, "NO_ERROR", rq)
      BY <1>3, <2>3 DEF OkAnswer
    <3>2. e.cmd = c /\ e.wl = 0 /\ e.n = n /\ e.err = "NO_ERROR"
      <4> HIDE DEF c, n
      <4> QED BY <3>1, Zenon DEF E
    <3>3. c \in WrCmds /\ a.type \in {"WR", "FILL"}
      BY <1>1, <2>3 DEF WrCmds, Types
    <3> HIDE DEF c
    <3>4. WrOk(e, a)
      BY <3>2, <3>3, Zenon DEF WrOk
    <3> QED BY <3>2, <3>3, <3>4
  <2> QED BY <2>2, <2>3
<1>4. CASE e # OkAnswer(a, rq)
  <2>1. PICK n \in PartialWords(a), err \in PlErrs \cup {"CONSEQUENTIAL"} : e = ErrAnswer(a, n, err, rq)
    BY <1>4 DEF AnswerOf
  <2>2. n \in Nat /\ (n = 0 \/ (n = 1 /\ IsBlk(a) /\ a.type # "FILL")) /\ err # "NO_ERROR"
    <3>1. err # "NO_ERROR"
      <4>1. "NO_ERROR" \notin PlErrs
        BY ErrorAssumption
      <4> QED BY <2>1, <4>1
    <3>2. n = 0 \/ (n = 1 /\ IsBlk(a) /\ a.type # "FILL")
      BY <2>1, Zenon DEF PartialWords
    <3> QED BY <3>1, <3>2
  <2>3. CASE a.type = "RD"
    <3> DEFINE c == IF IsBlk(a) THEN "RDBLK" ELSE "RD"
    <3>1. e = E(c, n, n, err, rq)
      BY <2>1, <2>3 DEF ErrAnswer
    <3>2. e.cmd = c /\ e.wl = n /\ e.n = n /\ e.err = err
      <4> HIDE DEF c
      <4> QED BY <3>1, Zenon DEF E
    <3>3. c \in RdCmds /\ c # "RDBLK1KB" /\ (c # "RDBLK" => n = 0)
      BY <2>2 DEF RdCmds
    <3>4. n <= w
      <4> HIDE DEF w
      <4> QED BY <1>1, <2>2
    <3> HIDE DEF c
    <3>5. RdOk(e, a)
      BY <2>2, <2>3, <3>2, <3>3, <3>4, Zenon DEF RdOk
    <3> QED BY <3>2, <3>3, <3>5
  <2>4. CASE a.type # "RD"
    <3> DEFINE c == IF a.type = "FILL" THEN "FILL" ELSE IF IsBlk(a) THEN "WRBLK" ELSE "WR"
    <3>1. e = E(c, 0, n, err, rq)
      BY <2>1, <2>4 DEF ErrAnswer
    <3>2. e.cmd = c /\ e.wl = 0 /\ e.n = n /\ e.err = err
      <4> HIDE DEF c
      <4> QED BY <3>1, Zenon DEF E
    <3>3. c \in WrCmds /\ a.type \in {"WR", "FILL"} /\ (c # "WRBLK" => n = 0)
      BY <1>1, <2>2, <2>4 DEF WrCmds, Types
    <3>4. n < w
      <4> HIDE DEF w
      <4> QED BY <1>1, <1>2, <2>2
    <3> HIDE DEF c
    <3>5. WrOk(e, a)
      BY <2>2, <3>2, <3>3, <3>4, Zenon DEF WrOk
    <3> QED BY <3>2, <3>3, <3>5
  <2> QED BY <2>3, <2>4
<1> QED BY <1>3, <1>4

\* What ParseRd and ParseWr accept.
Passes(e, a) == \/ e.cmd \in RdCmds /\ RdOk(e, a)
                \/ e.cmd \in WrCmds /\ WrOk(e, a)

\* An answer that tells of no error and passes for another access than its own has the
\* length of an answer to that one.
LEMMA PassesWords ==
    ASSUME NEW a0 \in Pl0Access, NEW a \in Pl0Access, NEW rq, NEW e, AnswerOf(e, a0, rq),
           e.err = "NO_ERROR", Passes(e, a)
    PROVE  PartWords(e) = AnswerWords(a)
<1>1. /\ a0.type \in Types /\ Words(a0) \in Nat /\ Words(a0) >= 1 /\ Words(a0) <= 256
      /\ a.type \in Types /\ Words(a) \in Nat /\ Words(a) >= 1 /\ Words(a) <= 256
  BY AccessFields
<1>2. e = OkAnswer(a0, rq)
  <2> SUFFICES ASSUME NEW n, NEW err \in PlErrs \cup {"CONSEQUENTIAL"}, e = ErrAnswer(a0, n, err, rq)
               PROVE  FALSE
    BY Zenon DEF AnswerOf
  <2>1. err # "NO_ERROR"
    BY ErrorAssumption
  <2>2. e.err = err
    BY DEF ErrAnswer, E
  <2> QED BY <2>1, <2>2
<1> DEFINE w0 == Words(a0)
           w == Words(a)
           n == w0 % 256
<1>3. CASE a0.type = "RD"
  <2> DEFINE c == IF ~IsBlk(a0) THEN "RD" ELSE IF w0 = 256 THEN "RDBLK1KB" ELSE "RDBLK"
  <2>1. e = E(c, n, n, "NO_ERROR", rq)
    BY <1>2, <1>3 DEF OkAnswer, DataBlkWords
  <2>2. e.cmd = c /\ e.wl = n /\ e.n = n
    <3> HIDE DEF c, n
    <3> QED BY <2>1, Zenon DEF E
  <2>3. c \in RdCmds /\ c \notin WrCmds /\ c # "PL0_START"
    BY DEF RdCmds, WrCmds
  <2>4. RdOk(e, a) /\ a.type = "RD"
    BY <2>2, <2>3, Zenon DEF Passes, RdOk
  <2>5. c # "RDBLK1KB" => n = w0 /\ n >= 1
    <3>1. ~IsBlk(a0) => w0 < 256
      <4>1. a0.num_bytes \in Nat /\ 4 * w0 < a0.num_bytes + 4
        BY AccessFields
      <4> HIDE DEF w0
      <4> QED BY <1>1, <4>1 DEF IsBlk, w0
    <3>2. c # "RDBLK1KB" => w0 < 256
      <4> HIDE DEF w0
      <4>1. w0 \in Nat /\ w0 <= 256
        BY <1>1 DEF w0
      <4> QED BY <3>1, <4>1
    <3> HIDE DEF w0, c
    <3>3. w0 \in Nat /\ w0 >= 1
      BY <1>1 DEF w0
    <3> QED BY <3>2, <3>3
  <2>6. CASE c = "RDBLK1KB"
    <3>1. w = 256
      BY <2>2, <2>4, <2>6 DEF RdOk, DataBlkWords
    <3>2. PartWords(e) = 257
      BY <2>2, <2>6 DEF PartWords, DataBlkWords
    <3> QED BY <2>4, <3>1, <3>2 DEF AnswerWords
  <2>7. CASE c # "RDBLK1KB"
    <3>1. n = w % 256
      BY <2>2, <2>4, <2>7 DEF RdOk
    <3>2. w = n
      <4> HIDE DEF w0, c
      <4>1. n >= 1 /\ n = w % 256 /\ w \in Nat /\ w <= 256 /\ w >= 1
        BY <1>1, <2>5, <2>7, <3>1
      <4> HIDE DEF n, w
      <4> QED BY <4>1
    <3>3. PartWords(e) = 1 + n
      <4> HIDE DEF c, n
      <4> QED BY <2>2, <2>3, <2>7 DEF PartWords
    <3> QED BY <2>4, <3>2, <3>3 DEF AnswerWords
  <2> QED BY <2>6, <2>7
<1>4. CASE a0.type # "RD"
  <2> DEFINE c == IF a0.type = "FILL" THEN "FILL" ELSE IF IsBlk(a0) THEN "WRBLK" ELSE "WR"
  <2>1. e = E(c, 0, n, "NO_ERROR", rq)
    BY <1>2, <1>4 DEF OkAnswer
  <2>2. e.cmd = c /\ e.wl = 0
    <3> HIDE DEF c, n
    <3> QED BY <2>1, Zenon DEF E
  <2>3. c \in WrCmds /\ c \notin RdCmds /\ c # "PL0_START" /\ c # "RDBLK1KB"
    BY DEF RdCmds, WrCmds
  <2>4. a.type # "RD"
    <3>1. WrOk(e, a)
      BY <2>2, <2>3, Zenon DEF Passes
    <3> QED BY <3>1 DEF WrOk
  <2>5. PartWords(e) = 1
    <3> HIDE DEF c
    <3> QED BY <2>2, <2>3 DEF PartWords
  <2> QED BY <2>4, <2>5 DEF AnswerWords
<1> QED BY <1>3, <1>4

\* A part of an answer that comes before its end.
LEMMA AnswerPart ==
    ASSUME Types1, NEW g, Response(g), NEW k, NEW j, Here(g, k, j)
    PROVE  \/ j = 0 /\ Part.cmd = "PL0_START" /\ Part.n = NumWords(g.A[k])
           \/ /\ j >= 1 /\ j <= Len(g.qs[k].acc) /\ Len(g.A[k]) = Len(g.qs[k].acc) + 2 /\ g.qs[k].rq # 0
              /\ g.qs[k].acc[j] \in Pl0Access /\ AnswerOf(Part, g.qs[k].acc[j], g.qs[k].rq)
           \/ /\ j >= 1 /\ j = Len(g.qs[k].acc) + 1 /\ Len(g.A[k]) = Len(g.qs[k].acc) + 2 /\ g.qs[k].rq # 0
              /\ Part.cmd = "PL0_END" /\ Part.n = g.qs[k].cnt
<1> DEFINE q == g.qs[k]
           s == g.A[k]
           m == Len(q.acc)
<1>1. k \in 1..mNumPl2Pkt /\ j \in 0..(Len(s) - 1) /\ Part = s[j + 1] /\ Len(s) \in Nat
  BY DEF Here
<1>2. AnswerTo(q, s) /\ q.acc \in Seq(Pl0Access) /\ m \in Nat
  <2>1. Typed(g, k)
    BY <1>1, ResponseTypes, Zenon
  <2> QED BY <2>1, Zenon DEF Typed
<1>3. CASE j = 0
  BY <1>1, <1>2, <1>3 DEF AnswerTo
<1>4. CASE j # 0
  <2>1. /\ q.rq # 0 /\ Len(s) = m + 2 /\ s[Len(s)].cmd = "PL0_END" /\ s[Len(s)].n = q.cnt
        /\ \A i \in 1..m : AnswerOf(s[i + 1], q.acc[i], q.rq)
    <3>1. Len(s) # 1
      BY <1>1, <1>4
    <3> QED BY <1>2, <3>1, Zenon DEF AnswerTo
  <2>2. CASE j <= m
    <3>1. j \in 1..m
      BY <1>1, <1>2, <1>4, <2>2
    <3>2. q.acc[j] \in Pl0Access
      BY <1>2, <3>1, ElementOfSeq
    <3> QED BY <1>1, <2>1, <2>2, <3>1, <3>2
  <2>3. CASE ~(j <= m)
    <3>1. j = m + 1 /\ j + 1 = Len(s) /\ j >= 1
      <4> DEFINE z == Len(s)
      <4>1. j \in 0..(z - 1) /\ z = m + 2 /\ m \in Nat
        BY <1>1, <1>2, <2>1
      <4> HIDE DEF m, z
      <4>2. j = m + 1 /\ j + 1 = z /\ j >= 1
        BY <2>3, <4>1
      <4> QED BY <4>2 DEF z
    <3> QED BY <1>1, <2>1, <3>1
  <2> QED BY <2>2, <2>3
<1> QED BY <1>3, <1>4

LEMMA CntPlus ==
    ASSUME NEW x \in Nat
    PROVE  Inc16(Cnt(x)) = Cnt(x + 1)
<1>1. ((x % 65536) + 1) % 65536 = (x + 1) % 65536
  BY SMT
<1> QED BY <1>1, SMT DEF Cnt, Inc16

LEMMA Inc16Type == ASSUME NEW c \in UInt16 PROVE Inc16(c) \in UInt16
BY SMT DEF Inc16, UInt16

LEMMA CntsDiffer ==
    ASSUME NEW x \in Nat, NEW y \in Nat, x < y, y - x < 65536
    PROVE  Cnt(x) # Cnt(y)
BY SMT DEF Cnt

\* Nothing of a response changes while it is parsed.
LEMMA ResponseStays ==
    ASSUME UNCHANGED requestVars, UNCHANGED <<call, resets>>, NEW g, Response(g)
    PROVE  Response(g)'
<1>1. /\ mNumPl2Pkt' = mNumPl2Pkt /\ mPl1CntOutstandingLast' = mPl1CntOutstandingLast
      /\ mPl0Trans' = mPl0Trans /\ mPl0NumTrans' = mPl0NumTrans /\ mRspSize' = mRspSize
      /\ call' = call /\ resets' = resets
  BY DEF requestVars
<1>2. Layout(g.Off, g.W) => Layout(g.Off, g.W)'
  BY <1>1, Zenon DEF Layout
<1>3. Taken(g.base, g.Off, g.qs, g.Y) => Taken(g.base, g.Off, g.qs, g.Y)'
  BY <1>1, Zenon DEF Taken, Own, Stale
<1> QED BY <1>1, <1>2, <1>3, Zenon DEF Response

LEMMA EntriesStay ==
    ASSUME mPl0Trans' = mPl0Trans, mPl0NumTrans' = mPl0NumTrans, mPl0TransRsp' = mPl0TransRsp,
           call' = call, tas_err' = tas_err, NEW m, Entries(m)
    PROVE  Entries(m)'
BY Zenon DEF Entries, FirstFailure, Failed, ErrorOf

Reading(g, k, j) == Response(g) /\ At(g, k, j) /\ Here(g, k, j)

LEMMA Position ==
    ASSUME Types1, phase = "parse", NEW g, NEW k, NEW j, Reading(g, k, j)
    PROVE  /\ k \in 1..mNumPl2Pkt /\ j \in Nat /\ Len(g.A[k]) \in Nat /\ j < Len(g.A[k])
           /\ Part.rq = g.qs[k].rq
           /\ AtStart <=> j = 0
           /\ \E C : /\ Sums(g.A[k], C)
                     /\ p.next = p.wi + (IF j = 0 THEN 0 ELSE C[Len(g.A[k])] - C[j])
                     /\ C[j + 1] = C[j] + PartWords(Part)
                     /\ C[j] \in Nat /\ C[j + 1] \in Nat /\ C[Len(g.A[k])] \in Nat
<1> DEFINE s == g.A[k]
           m == Len(s)
<1>1. Response(g) /\ At(g, k, j) /\ Here(g, k, j)
  BY DEF Reading
<1>2. k \in 1..mNumPl2Pkt /\ j \in 0..(m - 1) /\ m \in Nat /\ Part = s[j + 1]
  BY <1>1, Zenon DEF Here
<1>3. s \in Seq(Piece) /\ AnswerTo(g.qs[k], s)
  <2>1. Typed(g, k)
    BY <1>1, <1>2, ResponseTypes, Zenon
  <2> QED BY <2>1, Zenon DEF Typed
<1> HIDE DEF s
<1>4. /\ j \in Nat /\ j < m /\ j + 1 \in 1..m /\ (j + 1) - 1 = j /\ j \in 0..m /\ j + 1 \in 0..m
      /\ m \in 0..m /\ m \in j..m
  <2> HIDE DEF m
  <2> QED BY <1>2
<1>5. Part.rq = g.qs[k].rq
  BY <1>2, <1>3, <1>4, Zenon DEF AnswerTo
<1>6. PICK C : Sums(s, C) /\ p.next = p.wi + (IF j = 0 THEN 0 ELSE C[m] - C[j])
  BY <1>1, Zenon DEF At, s
<1>7. C[j + 1] = C[j] + PartWords(Part) /\ C[j] \in Nat /\ C[j + 1] \in Nat /\ C[m] \in Nat
  <2>1. C \in [0..m -> Nat] /\ \A i \in 1..m : C[i] = C[i - 1] + PartWords(s[i])
    BY <1>6, Zenon DEF Sums
  <2>2. C[j] \in Nat /\ C[j + 1] \in Nat /\ C[m] \in Nat
    <3> HIDE DEF m
    <3> QED BY <1>4, <2>1
  <2>3. C[j + 1] = C[(j + 1) - 1] + PartWords(s[j + 1])
    BY <1>4, <2>1, Zenon
  <2> QED BY <1>2, <1>4, <2>2, <2>3, Zenon
<1>8. C[j] + (m - j) <= C[m]
  BY <1>3, <1>4, <1>6, SumsGrow
<1>9. AtStart <=> j = 0
  <2>1. p.wi \in Nat /\ p.next \in Nat
    BY PFields
  <2> HIDE DEF m
  <2> QED BY <1>4, <1>6, <1>7, <1>8, <2>1 DEF AtStart
<1> QED BY <1>2, <1>4, <1>5, <1>6, <1>7, <1>9, Zenon DEF s

\* The packet that is read is one of the running call.
LEMMA OwnPosition ==
    ASSUME Types1, NEW g, NEW k, NEW j, Reading(g, k, j), g.qs[k].rq = call
    PROVE  /\ g.Y[k] \in 1..mNumPl2Pkt /\ g.Y[k] \in Nat /\ g.Y[k - 1] = g.Y[k] - 1
           /\ Own(g.qs[k], g.Y[k], g.base, g.Off)
           /\ g.Off[g.Y[k]] = g.Off[g.Y[k - 1]] + Len(g.qs[k].acc)
           /\ g.Off[g.Y[k]] \in Nat /\ g.Off[g.Y[k - 1]] \in Nat /\ Len(g.qs[k].acc) \in Nat
           /\ g.Off[g.Y[k]] <= mPl0NumTrans
           /\ mPl1CntOutstandingOldest = g.qs[k].cnt
           /\ p.iTrans = g.Off[g.Y[k - 1]] + Got(j, g.qs[k])
           /\ Entries(p.iTrans)
<1> DEFINE n == mNumPl2Pkt
           q == g.qs[k]
           y == g.Y[k]
           m == Len(q.acc)
<1>1. Response(g) /\ At(g, k, j) /\ Here(g, k, j)
  BY DEF Reading
<1>2. k \in 1..n /\ j \in 0..(Len(g.A[k]) - 1) /\ Len(g.A[k]) \in Nat
  BY <1>1, Zenon DEF Here
<1>3. Typed(g, k)
  BY <1>1, <1>2, ResponseTypes, Zenon
<1>4. /\ n \in Nat /\ y \in 0..n /\ g.Y[k - 1] \in 0..n /\ g.base \in Nat /\ m \in Nat
      /\ g.Off[y] \in Nat /\ g.Off[g.Y[k - 1]] \in Nat
  BY <1>3, Zenon DEF Typed
<1>5. y = g.Y[k - 1] + 1 /\ Own(q, y, g.base, g.Off)
  BY <1>1, <1>2, Zenon DEF Response, Taken
<1>6. g.Y[k - 1] = y - 1 /\ y \in 1..n /\ y \in Nat
  <2> DEFINE x == g.Y[k - 1]
  <2> HIDE DEF y, x
  <2>1. x = y - 1 /\ y \in 1..n /\ y \in Nat
    BY <1>4, <1>5 DEF y, x
  <2> QED BY <2>1 DEF x, y
<1>7. g.Off[y] = g.Off[g.Y[k - 1]] + m
  <2>1. m = g.Off[y] - g.Off[y - 1]
    BY <1>5, Zenon DEF Own
  <2>2. m = g.Off[y] - g.Off[g.Y[k - 1]]
    BY <1>6, <2>1, Zenon
  <2> DEFINE o == g.Off[y]
             x == g.Off[g.Y[k - 1]]
  <2> HIDE DEF m, o, x
  <2>3. o = x + m
    BY <1>4, <2>2 DEF o, x
  <2> QED BY <2>3 DEF o, x
<1>8. g.Off[y] <= mPl0NumTrans
  BY <1>1, <1>4, Zenon DEF Response, Layout
<1>9. mPl1CntOutstandingOldest = q.cnt
  <2>1. j # Len(g.A[k])
    BY <1>2
  <2>2. mPl1CntOutstandingOldest = Cnt(g.base + 1 + g.Y[k - 1])
    BY <1>1, <2>1, Zenon DEF At
  <2>3. q.cnt = Cnt(g.base + y)
    BY <1>5, Zenon DEF Own
  <2>4. g.base + 1 + g.Y[k - 1] = g.base + y
    BY <1>4, <1>5
  <2> QED BY <2>2, <2>3, <2>4, Zenon
<1>10. p.iTrans = g.Off[g.Y[k - 1]] + Got(j, q) /\ Entries(p.iTrans)
  <2>1. ~Stale(q)
    BY Zenon DEF Stale
  <2> QED BY <1>1, <2>1, Zenon DEF At
<1> HIDE DEF n, y, m
<1> QED BY <1>4, <1>5, <1>6, <1>7, <1>8, <1>9, <1>10, Zenon DEF n, y, m

LEMMA EntryFields ==
    ASSUME Types1, NEW i \in 1..Len(mPl0Trans)
    PROVE  /\ mPl0Trans[i].a \in Pl0Access /\ mPl0Trans[i].call \in Nat
           /\ AnswerWords(mPl0Trans[i].a) \in Nat
<1>1. mPl0Trans \in Seq(TransEntry)
  BY Zenon DEF Types1, Arrays
<1>2. mPl0Trans[i] \in TransEntry
  BY <1>1, ElementOfSeq
<1>3. mPl0Trans[i].a \in Pl0Access /\ mPl0Trans[i].call \in Nat
  BY <1>2 DEF TransEntry
<1>4. AnswerWords(mPl0Trans[i].a) \in Nat
  BY <1>3, AccessFields
<1> QED BY <1>3, <1>4

LEMMA WordsGrow ==
    ASSUME Types1, NEW Off, NEW W, Layout(Off, W), NEW i \in 0..mPl0NumTrans
    PROVE  \A j \in i..mPl0NumTrans : W[i] \in Nat /\ W[j] \in Nat /\ W[i] <= W[j]
<1> DEFINE n == mPl0NumTrans
           P == {d \in Nat : i + d <= n => W[i] <= W[i + d]}
<1>1. n \in Nat /\ Len(mPl0Trans) \in Nat /\ n <= Len(mPl0Trans) /\ i \in 0..n
  <2>1. mPl0Trans \in Seq(TransEntry)
    BY Zenon DEF Types1, Arrays
  <2>2. Len(mPl0Trans) \in Nat
    BY <2>1, LenProperties
  <2> QED BY <2>2, Zenon DEF Types1, Scalars, Arrays
<1>2. W \in [0..n -> Nat] /\ \A k \in 1..n : W[k] = W[k - 1] + AnswerWords(mPl0Trans[k].a)
  BY Zenon DEF Layout
<1>3. \A k \in 1..n : AnswerWords(mPl0Trans[k].a) \in Nat
  <2>1. \A k \in 1..n : k \in 1..Len(mPl0Trans)
    BY <1>1
  <2> QED BY <2>1, EntryFields
<1> HIDE DEF n
<1>4. 0 \in P
  BY <1>1, <1>2
<1>5. ASSUME NEW d \in P PROVE d + 1 \in P
  <2>1. d \in Nat /\ d + 1 \in Nat /\ i + (d + 1) = (i + d) + 1
    BY <1>1
  <2>2. ASSUME i + (d + 1) <= n PROVE W[i] <= W[i + (d + 1)]
    <3>1. (i + d) + 1 \in 1..n /\ i + d <= n /\ ((i + d) + 1) - 1 = i + d /\ i + d \in 0..n
      BY <1>1, <2>1, <2>2
    <3>2. W[(i + d) + 1] = W[i + d] + AnswerWords(mPl0Trans[(i + d) + 1].a)
      BY <1>2, <3>1
    <3>3. AnswerWords(mPl0Trans[(i + d) + 1].a) \in Nat
      BY <1>3, <3>1
    <3>4. W[i] <= W[i + d] /\ W[i] \in Nat /\ W[i + d] \in Nat
      BY <1>1, <1>2, <1>5, <3>1
    <3> HIDE DEF P
    <3> QED BY <2>1, <3>2, <3>3, <3>4
  <2> QED BY <2>1, <2>2
<1>6. \A d \in Nat : d \in P
  <2>1. P \in SUBSET Nat /\ \A d \in P : d + 1 \in P
    BY <1>5
  <2> HIDE DEF P
  <2> QED BY <1>4, <2>1, SetInduction
<1>7. ASSUME NEW j \in i..n PROVE W[i] \in Nat /\ W[j] \in Nat /\ W[i] <= W[j]
  <2>1. j - i \in Nat /\ i + (j - i) = j /\ j <= n /\ j \in 0..n
    BY <1>1
  <2>2. W[i] <= W[i + (j - i)]
    BY <1>6, <2>1
  <2> QED BY <1>1, <1>2, <2>1, <2>2
<1> QED BY <1>7 DEF n

\* Words of the answer to the y-th packet of the request, at most.
PacketWords(Off, W, y) == 3 + (W[Off[y]] - W[Off[y - 1]])

\* The answer to a packet of the running call is not longer than rw_set_rsp() admits.
LEMMA OwnSize ==
    ASSUME Types1, NEW Off, NEW W, Layout(Off, W), NEW q \in Packet, NEW y, NEW base,
           Own(q, y, base, Off), NEW s, AnswerTo(q, s)
    PROVE  /\ NumWords(s) <= PacketWords(Off, W, y) /\ PacketWords(Off, W, y) <= MaxRspSize
           /\ NumWords(s) \in Nat /\ W[Off[y]] \in Nat /\ W[Off[y - 1]] \in Nat
           /\ W[Off[y - 1]] <= W[Off[y]]
<1> DEFINE n == mNumPl2Pkt
           N == mPl0NumTrans
           o == Off[y - 1]
           m == Len(q.acc)
<1>1. n \in Nat /\ N \in Nat /\ y \in 1..n
  BY Zenon DEF Types1, Scalars, Own
<1>2. y \in 0..n /\ y - 1 \in 0..n
  BY <1>1
<1>3. /\ Off \in [0..n -> Nat] /\ (\A z \in 1..n : Off[z - 1] <= Off[z]) /\ (\A z \in 0..n : Off[z] <= N)
      /\ W \in [0..N -> Nat] /\ (\A i \in 1..N : W[i] = W[i - 1] + AnswerWords(mPl0Trans[i].a))
      /\ \A z \in 1..n : 3 + (W[Off[z]] - W[Off[z - 1]]) <= MaxRspSize
  BY Zenon DEF Layout
<1>4. m = Off[y] - o /\ \A i \in 1..m : q.acc[i] = mPl0Trans[o + i].a
  BY Zenon DEF Own
<1>5. o \in Nat /\ Off[y] \in Nat /\ o <= Off[y] /\ Off[y] <= N
  BY <1>1, <1>2, <1>3
<1>6. m \in Nat /\ Off[y] = o + m /\ q.acc \in Seq(Pl0Access)
  <2>1. q.acc \in Seq(Pl0Access)
    BY Zenon DEF Packet
  <2>2. m \in Nat
    BY <2>1, LenProperties
  <2> DEFINE e == Off[y]
  <2>3. e \in Nat /\ m = e - o /\ o \in Nat /\ m \in Nat
    BY <1>4, <1>5, <2>2
  <2> HIDE DEF e, o, m
  <2>4. e = o + m
    BY <2>3
  <2> QED BY <2>1, <2>2, <2>4 DEF e
<1> HIDE DEF o, m, n, N
<1>7. \A i \in 0..m : /\ o + i \in 0..N /\ W[o + i] \in Nat /\ W[o] \in Nat /\ W[o] <= W[o + i]
  <2> SUFFICES ASSUME NEW i \in 0..m
               PROVE  o + i \in 0..N /\ W[o + i] \in Nat /\ W[o] \in Nat /\ W[o] <= W[o + i]
    OBVIOUS
  <2>1. o \in 0..N /\ o + i \in o..N /\ o + i \in 0..N
    BY <1>1, <1>5, <1>6
  <2> QED BY <2>1, WordsGrow DEF N
<1> DEFINE V == [i \in 0..m |-> W[o + i] - W[o]]
<1>8. AnswerSums(q.acc, V)
  <2>1. V \in [0..m -> Nat]
    BY <1>7
  <2>2. V[0] = 0
    <3>1. 0 \in 0..m /\ o + 0 = o
      BY <1>5, <1>6
    <3> QED BY <1>7, <3>1
  <2>3. ASSUME NEW i \in 1..m PROVE V[i] = V[i - 1] + AnswerWords(q.acc[i])
    <3>1. i \in 0..m /\ i - 1 \in 0..m /\ o + i \in 1..N /\ (o + i) - 1 = o + (i - 1)
      BY <1>1, <1>5, <1>6
    <3>2. W[o + i] = W[o + (i - 1)] + AnswerWords(mPl0Trans[o + i].a)
      BY <1>3, <3>1 DEF N
    <3>3. q.acc[i] = mPl0Trans[o + i].a
      BY <1>4
    <3>4. AnswerWords(q.acc[i]) \in Nat
      <4>1. q.acc[i] \in Pl0Access
        BY <1>6, ElementOfSeq DEF m
      <4> QED BY <4>1, AccessFields
    <3>5. V[i] = W[o + i] - W[o] /\ V[i - 1] = W[o + (i - 1)] - W[o]
      BY <3>1
    <3>6. W[o + i] \in Nat /\ W[o + (i - 1)] \in Nat /\ W[o] \in Nat
      BY <1>7, <3>1
    <3> HIDE DEF V
    <3> QED BY <3>2, <3>3, <3>4, <3>5, <3>6
  <2> HIDE DEF V
  <2> QED BY <2>1, <2>2, <2>3, Zenon DEF AnswerSums, m
<1>9. m \in 0..m /\ V[m] = W[o + m] - W[o]
  BY <1>6
<1> HIDE DEF V
<1>10. NumWords(s) <= 3 + V[m] /\ NumWords(s) \in Nat
  BY <1>8, AnswerToSize, Zenon DEF m
<1>11. W[o + m] = W[Off[y]] /\ W[o + m] \in Nat /\ W[o] \in Nat /\ W[o] <= W[o + m]
  BY <1>6, <1>7, <1>9
<1>12. 3 + (W[Off[y]] - W[Off[y - 1]]) <= MaxRspSize
  BY <1>1, <1>3
<1> QED BY <1>9, <1>10, <1>11, <1>12 DEF PacketWords, o

Refused == phase' = "done" /\ tas_err' = "SERVER_CON"

LEMMA RefusedDone ==
    ASSUME Types1, rsp # <<>>, rsp' = rsp, call' = call, Part.rq # call, Refused
    PROVE  DoneInv'
<1>1. phase' = "done" /\ tas_err' = "SERVER_CON"
  BY DEF Refused
<1>2. 1 \in DOMAIN rsp /\ Part = rsp[1]
  <2>1. rsp \in Seq(Piece)
    BY Zenon DEF Types1, Parsed
  <2> QED BY <2>1 DEF Part
<1>3. \E i \in DOMAIN rsp' : (rsp')[i].rq # call'
  BY <1>2
<1>4. SuccessIsOwn' /\ SuccessIsComplete' /\ FirstErrorWins'
  BY <1>1, Zenon DEF SuccessIsOwn, SuccessIsComplete, FirstErrorWins, Success
<1> QED BY <1>3, <1>4, Zenon DEF DoneInv

LEMMA NotDone ==
    ASSUME phase' # "done"
    PROVE  DoneInv'
BY Zenon DEF DoneInv, SuccessIsOwn, SuccessIsComplete, FirstErrorWins, Success

LEMMA AccessDone ==
    ASSUME tas_err' = "DEVICE_ACCESS"
    PROVE  DoneInv'
BY Zenon DEF DoneInv, SuccessIsOwn, SuccessIsComplete, FirstErrorWins, Success

\* rw_set_rsp() returns after it has answered m accesses.
LEMMA EntriesDone ==
    ASSUME Types1, NEW m \in Nat, Entries(m), tas_err # "SERVER_CON",
           \/ m = mPl0NumTrans /\ mPl1CntOutstandingOldest = mPl1CntOutstandingLast
           \/ resets # 0,
           tas_err' = tas_err, mPl0TransRsp' = mPl0TransRsp, mPl0Trans' = mPl0Trans,
           mPl0NumTrans' = mPl0NumTrans, call' = call, resets' = resets,
           mPl1CntOutstandingOldest' = mPl1CntOutstandingOldest,
           mPl1CntOutstandingLast' = mPl1CntOutstandingLast
    PROVE  DoneInv'
<1>1. m <= mPl0NumTrans /\ mPl0NumTrans \in Nat /\ m \in Nat /\ tas_err \in TasErrs
  BY Zenon DEF Types1, Scalars, Entries
<1>2. SuccessIsOwn'
  <2> SUFFICES ASSUME tas_err = "NONE", NEW i \in 1..mPl0NumTrans
               PROVE  \/ mPl0TransRsp[i].rq = call /\ ~Failed(i)
                      \/ mPl0TransRsp[i] = Unanswered
    BY Zenon DEF SuccessIsOwn, Success, Trans, Failed
  <2>1. CASE i <= m
    <3>1. i \in 1..m
      BY <1>1, <2>1
    <3> QED BY <2>1, <3>1, Zenon DEF Entries
  <2>2. CASE ~(i <= m)
    BY <2>2, Zenon DEF Entries
  <2> QED BY <2>1, <2>2
<1>3. SuccessIsComplete'
  <2> SUFFICES ASSUME resets = 0
               PROVE  /\ \A i \in 1..mPl0NumTrans : mPl0TransRsp[i].rq = call
                      /\ mPl1CntOutstandingOldest = mPl1CntOutstandingLast
    BY Zenon DEF SuccessIsComplete, Success, Trans
  <2>1. m = mPl0NumTrans /\ mPl1CntOutstandingOldest = mPl1CntOutstandingLast
    OBVIOUS
  <2>2. \A i \in 1..mPl0NumTrans : i <= m
    BY <1>1, <2>1
  <2> QED BY <2>1, <2>2, Zenon DEF Entries
<1>4. FirstErrorWins'
  <2> SUFFICES ASSUME tas_err \in {"DEVICE_LOCKED", "RW_READ", "RW_WRITE"}
               PROVE  \E i \in 1..mPl0NumTrans :
                        /\ Failed(i) /\ ErrorOf(i) = tas_err
                        /\ \A j \in 1..(i - 1) : ~Failed(j)
    BY Zenon DEF FirstErrorWins, Trans, Failed, ErrorOf
  <2>1. FirstFailure(m)
    BY Zenon DEF Entries
  <2>2. \A i \in 1..m : i \in 1..mPl0NumTrans
    BY <1>1
  <2> QED BY <2>1, <2>2, Zenon DEF FirstFailure
<1> QED BY <1>2, <1>3, <1>4, Zenon DEF DoneInv

LEMMA RefusedOnly ==
    ASSUME phase' # "done" \/ tas_err' # "SERVER_CON"
    PROVE  ~Refused
BY DEF Refused

LEMMA StartStep ==
    ASSUME Types1, ParseInv, ParseStart
    PROVE  ParseInv' /\ DoneInv' /\ (Refused => Part.rq # call)
<1>1. /\ phase = "parse" /\ rsp # <<>> /\ AtStart
      /\ UNCHANGED requestVars /\ UNCHANGED <<call, resets>>
      /\ mPl0TransRsp' = mPl0TransRsp /\ mPl1CntOutstandingOldest' = mPl1CntOutstandingOldest
  BY Zenon DEF ParseStart, Turn, parseEnv
<1>2. mPl0Trans' = mPl0Trans /\ mPl0NumTrans' = mPl0NumTrans /\ mNumPl2Pkt' = mNumPl2Pkt
      /\ call' = call /\ resets' = resets
  BY <1>1, Zenon DEF requestVars
<1>3. PICK g : Response(g) /\ \E k, j : At(g, k, j) /\ Here(g, k, j)
  BY <1>1, TurnAt, Zenon
<1>4. PICK k, j : At(g, k, j) /\ Here(g, k, j)
  BY <1>3, Zenon
<1>5. Reading(g, k, j)
  BY <1>3, <1>4, Zenon DEF Reading
<1>6. j = 0 /\ k \in 1..mNumPl2Pkt /\ Part.rq = g.qs[k].rq /\ Len(g.A[k]) \in Nat
  <2>1. /\ k \in 1..mNumPl2Pkt /\ Len(g.A[k]) \in Nat /\ Part.rq = g.qs[k].rq /\ (AtStart <=> j = 0)
    BY <1>1, <1>5, Position
  <2> QED BY <1>1, <2>1, Zenon
<1>7. Part.cmd = "PL0_START" /\ Part.n = NumWords(g.A[k])
  <2>1. ~(j >= 1)
    BY <1>6
  <2> QED BY <1>3, <1>4, <2>1, AnswerPart, Zenon
<1>8. Typed(g, k)
  BY <1>3, <1>6, ResponseTypes, Zenon
<1>9. g.qs[k] \in Packet /\ AnswerTo(g.qs[k], g.A[k]) /\ g.A[k] \in Seq(Piece)
  BY <1>8, Zenon DEF Typed
<1>10. CASE Part.n > MaxRspSize
  <2>1. Return("SERVER_CON") /\ rsp' = rsp
    BY <1>10, Zenon DEF ParseStart
  <2>2. Part.rq # call
    <3> SUFFICES ASSUME g.qs[k].rq = call PROVE FALSE
      BY <1>6
    <3>1. Own(g.qs[k], g.Y[k], g.base, g.Off)
      BY <1>5, OwnPosition, Zenon
    <3>2. Layout(g.Off, g.W)
      BY <1>3, Zenon DEF Response
    <3>3. /\ NumWords(g.A[k]) <= PacketWords(g.Off, g.W, g.Y[k])
          /\ PacketWords(g.Off, g.W, g.Y[k]) <= MaxRspSize /\ NumWords(g.A[k]) \in Nat
          /\ g.W[g.Off[g.Y[k]]] \in Nat /\ g.W[g.Off[g.Y[k] - 1]] \in Nat
      BY <1>9, <3>1, <3>2, OwnSize, Zenon
    <3>4. PacketWords(g.Off, g.W, g.Y[k]) \in Int
      BY <3>3 DEF PacketWords
    <3> QED BY <1>7, <1>10, <3>3, <3>4, ConstantAssumption
  <2>3. phase' = "done" /\ tas_err' = "SERVER_CON"
    BY <2>1 DEF Return
  <2>4. DoneInv'
    BY <1>1, <1>2, <2>1, <2>2, <2>3, RefusedDone DEF Refused
  <2>5. ParseInv'
    BY <2>3 DEF ParseInv
  <2> QED BY <2>2, <2>4, <2>5
<1>11. CASE ~(Part.n > MaxRspSize) /\ Part.err = "DEV_ACCESS"
  <2>1. Return("DEVICE_ACCESS")
    BY <1>7, <1>11, Zenon DEF ParseStart
  <2>2. phase' = "done" /\ tas_err' = "DEVICE_ACCESS"
    BY <2>1 DEF Return
  <2>3. DoneInv'
    BY <2>2, AccessDone
  <2>4. ParseInv' /\ ~Refused
    BY <2>2 DEF ParseInv, Refused
  <2> QED BY <2>3, <2>4
<1>12. CASE ~(Part.n > MaxRspSize) /\ Part.err # "DEV_ACCESS"
  <2>1. Consume([p EXCEPT !.next = @ + Part.n]) /\ UNCHANGED <<phase, tas_err>>
    BY <1>7, <1>12, Zenon DEF ParseStart
  <2>2. phase' = "parse" /\ tas_err' = tas_err /\ rsp' = Tail(rsp)
    BY <1>1, <2>1 DEF Consume
  <2>3. p'.next = p.next + Part.n /\ p'.wi = p.wi + 2 /\ p'.iTrans = p.iTrans
    <3>1. p \in [wi : Nat, next : Nat, iTrans : Nat]
      BY Zenon DEF Types1, Parsed
    <3>2. p' = [[p EXCEPT !.next = @ + Part.n] EXCEPT !.wi = @ + PartWords(Part)]
      BY <2>1 DEF Consume
    <3>3. PartWords(Part) = 2
      BY <1>7 DEF PartWords
    <3> QED BY <3>1, <3>2, <3>3
  <2>4. Response(g)'
    BY <1>1, <1>3, ResponseStays, Zenon
  <2>5. At(g, k, 1)'
    <3>1. 0 + 1 = 1 /\ 1 \in 0..Len(g.A[k]) /\ 0 # Len(g.A[k])
      <4>1. Len(g.A[k]) >= 1
        BY <1>9 DEF AnswerTo
      <4> QED BY <1>6, <4>1
    <3>2. rsp' = SubSeq(g.R[k - 1], 1 + 1, Len(g.R[k - 1]))
      BY <1>4, <1>6, <2>2, <3>1, Zenon DEF Here
    <3>3. \E C : Sums(g.A[k], C) /\ p'.next = p'.wi + (C[Len(g.A[k])] - C[1])
      <4>1. PICK C : Sums(g.A[k], C) /\ NumWords(g.A[k]) = C[Len(g.A[k])]
        BY <1>9, NumWordsSums
      <4>2. C[1] = 2 /\ C[Len(g.A[k])] \in Nat
        <5>1. C \in [0..Len(g.A[k]) -> Nat] /\ C[0] = 0 /\ 1 \in 1..Len(g.A[k])
              /\ \A i \in 1..Len(g.A[k]) : C[i] = C[i - 1] + PartWords(g.A[k][i])
          BY <1>6, <3>1, <4>1 DEF Sums
        <5>2. PartWords(g.A[k][1]) = 2
          BY <1>9 DEF AnswerTo, PartWords
        <5>3. 1 - 1 = 0 /\ Len(g.A[k]) \in 0..Len(g.A[k])
          BY <1>6
        <5>4. C[1] = C[1 - 1] + PartWords(g.A[k][1])
          BY <5>1, Zenon
        <5>5. C[1] = 0 + 2
          BY <5>1, <5>2, <5>3, <5>4, Zenon
        <5>6. C[Len(g.A[k])] \in Nat
          BY <5>1, <5>3, Zenon
        <5> QED BY <5>5, <5>6
      <4>3. p.wi \in Nat /\ p.next = p.wi
        BY <1>1, PFields DEF AtStart
      <4>4. p'.next = p'.wi + (C[Len(g.A[k])] - C[1])
        BY <1>7, <2>3, <4>1, <4>2, <4>3
      <4> QED BY <4>1, <4>4
    <3>4. p'.iTrans = g.Off[g.Y[k - 1]] + Got(1, g.qs[k])
      BY <1>4, <1>6, <2>3 DEF At, Got
    <3>5. 1 = Len(g.A[k]) => g.qs[k].rq = 0 /\ g.Y[k] = g.Y[k - 1] /\ ~Stale(g.qs[k])
      <4>1. 1 = Len(g.A[k]) => g.qs[k].rq = 0
        <5>1. Part = g.A[k][1]
          BY <1>4, <1>6, <3>1, Zenon DEF Here
        <5>2. Len(g.A[k]) # 1 \/ g.qs[k].rq = 0 \/ Len(g.qs[k].acc) + 2 = 1
          BY <1>9, <1>12, <5>1 DEF AnswerTo
        <5>3. Len(g.qs[k].acc) \in Nat
          BY <1>8, Zenon DEF Typed
        <5> QED BY <5>2, <5>3
      <4>2. call > 0 /\ call \in Nat
        BY <1>1 DEF Types1, Scalars
      <4>3. g.qs[k].rq # call => g.Y[k] = g.Y[k - 1]
        BY <1>3, <1>6, Zenon DEF Response, Taken
      <4> QED BY <4>1, <4>2, <4>3 DEF Stale
    <3>6. mPl1CntOutstandingOldest' = Cnt(g.base + 1 + (IF 1 = Len(g.A[k]) THEN g.Y[k] ELSE g.Y[k - 1]))
      <4>1. mPl1CntOutstandingOldest = Cnt(g.base + 1 + g.Y[k - 1])
        BY <1>4, <1>6, <3>1, Zenon DEF At
      <4> QED BY <1>1, <3>5, <4>1, Zenon
    <3>7. g.Y[k - 1] < mNumPl2Pkt
      BY <1>4, Zenon DEF At
    <3>8. 1 = Len(g.A[k]) => g.Y[k] < mNumPl2Pkt /\ p'.iTrans = g.Off[g.Y[k]]
      <4>1. p'.iTrans = g.Off[g.Y[k - 1]]
        <5>1. Got(1, g.qs[k]) = 0
          BY DEF Got
        <5>2. g.Off[g.Y[k - 1]] \in Nat
          BY <1>8, Zenon DEF Typed
        <5> QED BY <3>4, <5>1, <5>2
      <4> QED BY <3>5, <3>7, <4>1, Zenon
    <3>9. ~Stale(g.qs[k]) => Entries(p.iTrans)'
      <4> SUFFICES ASSUME Entries(p.iTrans) PROVE Entries(p.iTrans)'
        BY <1>4, Zenon DEF At
      <4>1. p'.iTrans = p.iTrans
        BY <2>3
      <4> QED BY <1>1, <1>2, <2>2, <4>1, Zenon DEF Entries, FirstFailure, Failed, ErrorOf
    <3>10. resets' = 0 => g.Y[k - 1] = k - 1
      BY <1>2, <1>4, Zenon DEF At
    <3>11. \A i \in 1..(k - 1) : ~Stale(g.qs[i])'
      BY <1>2, <1>4, Zenon DEF At, Stale
    <3>12. (~Stale(g.qs[k]))' => Entries(p.iTrans)'
      BY <1>2, <3>9, Zenon DEF Stale
    <3>13. k \in 1..mNumPl2Pkt'
      BY <1>2, <1>6, Zenon
    <3>14. \E C : Sums(g.A[k], C) /\ p'.next = p'.wi + (IF 1 = 0 THEN 0 ELSE C[Len(g.A[k])] - C[1])
      <4>1. 1 # 0
        OBVIOUS
      <4> QED BY <3>3, <4>1, Zenon
    <3>15. g.Y[k - 1] < mNumPl2Pkt'
      BY <1>2, <3>7, Zenon
    <3>16. 1 = Len(g.A[k]) => g.Y[k] < mNumPl2Pkt' /\ (~Stale(g.qs[k]))' /\ p'.iTrans = g.Off[g.Y[k]]
      BY <1>2, <3>5, <3>8, Zenon DEF Stale
    <3>17. Within(g, k, 1)'
      <4>1. Within(g, k, 0) /\ mRspSize' = mRspSize
        BY <1>1, <1>4, <1>6, Zenon DEF At, requestVars
      <4>2. Got(1, g.qs[k]) = Got(0, g.qs[k])
        BY DEF Got
      <4> QED BY <1>2, <4>1, <4>2, WithinStays, Zenon
    <3> HIDE DEF Stale, Entries
    <3> QED BY <3>1, <3>2, <3>4, <3>6, <3>10, <3>11, <3>12, <3>13, <3>14, <3>15, <3>16, <3>17, Zenon DEF At
  <2>6. ParseInv'
    BY <2>4, <2>5, Zenon DEF ParseInv
  <2>7. DoneInv' /\ ~Refused
    BY <2>2, NotDone DEF Refused
  <2> QED BY <2>6, <2>7
<1> QED BY <1>10, <1>11, <1>12

\* A turn that takes a part of an answer.
LEMMA Advance ==
    ASSUME Types1, phase = "parse", NEW g, NEW k, NEW j, Reading(g, k, j), j # 0,
           phase' = "parse", UNCHANGED requestVars, UNCHANGED <<call, resets>>,
           rsp' = Tail(rsp), p'.next = p.next, p'.wi = p.wi + PartWords(Part),
           p'.iTrans = g.Off[g.Y[k - 1]] + Got(j + 1, g.qs[k]),
           mPl1CntOutstandingOldest' =
                Cnt(g.base + 1 + (IF j + 1 = Len(g.A[k]) THEN g.Y[k] ELSE g.Y[k - 1])),
           j + 1 = Len(g.A[k]) =>
                g.Y[k] < mNumPl2Pkt /\ ~Stale(g.qs[k]) /\ p'.iTrans = g.Off[g.Y[k]],
           ~Stale(g.qs[k]) => Entries(p.iTrans)',
           Within(g, k, j + 1)'
    PROVE  ParseInv'
<1>1. Response(g) /\ At(g, k, j) /\ Here(g, k, j)
  BY Zenon DEF Reading
<1>2. mPl0Trans' = mPl0Trans /\ mPl0NumTrans' = mPl0NumTrans /\ mNumPl2Pkt' = mNumPl2Pkt
      /\ call' = call /\ resets' = resets
  BY DEF requestVars
<1>3. Response(g)'
  BY <1>1, ResponseStays, Zenon
<1>4. PICK C : /\ Sums(g.A[k], C)
               /\ p.next = p.wi + (IF j = 0 THEN 0 ELSE C[Len(g.A[k])] - C[j])
               /\ C[j + 1] = C[j] + PartWords(Part)
               /\ C[j] \in Nat /\ C[j + 1] \in Nat /\ C[Len(g.A[k])] \in Nat
  BY Position
<1>5. k \in 1..mNumPl2Pkt /\ j \in Nat /\ Len(g.A[k]) \in Nat /\ j < Len(g.A[k])
  BY Position
<1>6. j + 1 \in 0..Len(g.A[k]) /\ j + 1 # 0
  <2> DEFINE m == Len(g.A[k])
  <2>1. j \in Nat /\ m \in Nat /\ j < m
    BY <1>5
  <2> HIDE DEF m
  <2>2. j + 1 \in 0..m /\ j + 1 # 0
    BY <2>1
  <2> QED BY <2>2 DEF m
<1>7. rsp' = SubSeq(g.R[k - 1], (j + 1) + 1, Len(g.R[k - 1]))
  BY <1>1, Zenon DEF Here
<1>8. \E D : Sums(g.A[k], D) /\ p'.next = p'.wi + (IF j + 1 = 0 THEN 0 ELSE D[Len(g.A[k])] - D[j + 1])
  <2>1. p'.next = p'.wi + (C[Len(g.A[k])] - C[j + 1])
    <3> DEFINE a == C[Len(g.A[k])]
               b == C[j]
               c == C[j + 1]
               d == PartWords(Part)
    <3>1. a \in Nat /\ b \in Nat /\ c \in Nat /\ p.next = p.wi + (a - b) /\ c = b + d
      BY <1>4
    <3>2. p.wi \in Nat /\ d \in Nat
      <4>1. d \in Nat
        BY <1>1, PieceFields DEF Here
      <4> QED BY <4>1, PFields
    <3> HIDE DEF a, b, c, d
    <3>3. p.next = (p.wi + d) + (a - c)
      BY <3>1, <3>2
    <3> QED BY <3>3 DEF a, c, d
  <2> QED BY <1>4, <1>6, <2>1, Zenon
<1>9. /\ resets' = 0 => g.Y[k - 1] = k - 1
      /\ \A i \in 1..(k - 1) : ~Stale(g.qs[i])'
      /\ (~Stale(g.qs[k]))' => Entries(p.iTrans)'
      /\ k \in 1..mNumPl2Pkt'
      /\ g.Y[k - 1] < mNumPl2Pkt'
  BY <1>1, <1>2, <1>5, Zenon DEF At, Stale
<1>10. j + 1 = Len(g.A[k]) => g.Y[k] < mNumPl2Pkt' /\ (~Stale(g.qs[k]))' /\ p'.iTrans = g.Off[g.Y[k]]
  BY <1>2, Zenon DEF Stale
<1>11. At(g, k, j + 1)'
  BY <1>6, <1>7, <1>8, <1>9, <1>10, Zenon DEF At
<1> QED BY <1>3, <1>11, Zenon DEF ParseInv

\* The end of a packet of an earlier request is refused.
LEMMA EndOwn ==
    ASSUME Types1, ParseInv, ParseEnd, Part.n = mPl1CntOutstandingOldest
    PROVE  Part.rq = call
<1>1. phase = "parse" /\ rsp # <<>> /\ ~AtStart /\ Part.cmd = "PL0_END"
  BY Zenon DEF ParseEnd, Turn
<1>2. PICK g : Response(g) /\ \E k, j : At(g, k, j) /\ Here(g, k, j)
  BY <1>1, TurnAt, Zenon
<1>3. PICK k, j : At(g, k, j) /\ Here(g, k, j)
  BY <1>2, Zenon
<1>4. Reading(g, k, j)
  BY <1>2, <1>3, Zenon DEF Reading
<1>5. j # 0 /\ j \in Nat /\ k \in 1..mNumPl2Pkt /\ Part.rq = g.qs[k].rq
  <2>1. k \in 1..mNumPl2Pkt /\ Part.rq = g.qs[k].rq /\ (AtStart <=> j = 0) /\ j \in Nat
    BY <1>1, <1>4, Position
  <2> QED BY <1>1, <2>1, Zenon
<1>6. Typed(g, k)
  BY <1>2, <1>5, ResponseTypes, Zenon
<1>7. g.qs[k].rq # 0 /\ Part.n = g.qs[k].cnt
  <2>1. ~(g.qs[k].acc[j] \in Pl0Access /\ AnswerOf(Part, g.qs[k].acc[j], g.qs[k].rq))
    <3> SUFFICES ASSUME g.qs[k].acc[j] \in Pl0Access, AnswerOf(Part, g.qs[k].acc[j], g.qs[k].rq) PROVE FALSE
      BY Zenon
    <3>1. g.qs[k].rq \in Nat
      BY <1>6, Zenon DEF Typed
    <3>2. Part.cmd \in RdCmds \/ Part.cmd \in WrCmds
      BY <3>1, AnswerPasses, Zenon
    <3> QED BY <1>1, <3>2 DEF RdCmds, WrCmds
  <2> QED BY <1>2, <1>3, <1>5, <2>1, AnswerPart, Zenon
<1>8. ~Stale(g.qs[k])
  <2> SUFFICES ASSUME Stale(g.qs[k]) PROVE FALSE
    BY Zenon
  <2>1. g.Y[k - 1] = 0 /\ g.qs[k].cnt # Cnt(g.base + 1)
    BY <1>2, <1>5, Zenon DEF Response, Taken
  <2>2. j # Len(g.A[k])
    BY <1>3 DEF Here
  <2>3. mPl1CntOutstandingOldest = Cnt(g.base + 1 + g.Y[k - 1])
    BY <1>3, <2>2, Zenon DEF At
  <2>4. g.base + 1 + 0 = g.base + 1
    BY <1>6 DEF Typed
  <2> QED BY <1>7, <2>1, <2>3, <2>4, Zenon
<1> QED BY <1>5, <1>7, <1>8, Zenon DEF Stale

LEMMA EndStep ==
    ASSUME Types1, ParseInv, ParseEnd
    PROVE  ParseInv' /\ DoneInv' /\ (Refused => Part.rq # call)
<1>1. /\ phase = "parse" /\ rsp # <<>> /\ ~AtStart /\ Part.cmd = "PL0_END"
      /\ UNCHANGED requestVars /\ UNCHANGED <<call, resets>>
      /\ mPl0TransRsp' = mPl0TransRsp
  BY Zenon DEF ParseEnd, Turn, parseEnv
<1>2. mPl0Trans' = mPl0Trans /\ mPl0NumTrans' = mPl0NumTrans /\ mNumPl2Pkt' = mNumPl2Pkt
      /\ call' = call /\ resets' = resets /\ mPl1CntOutstandingLast' = mPl1CntOutstandingLast
  BY <1>1, Zenon DEF requestVars
<1>3. PICK g : Response(g) /\ \E k, j : At(g, k, j) /\ Here(g, k, j)
  BY <1>1, TurnAt, Zenon
<1>4. PICK k, j : At(g, k, j) /\ Here(g, k, j)
  BY <1>3, Zenon
<1>5. Reading(g, k, j)
  BY <1>3, <1>4, Zenon DEF Reading
<1>6. j # 0 /\ j \in Nat /\ k \in 1..mNumPl2Pkt /\ Part.rq = g.qs[k].rq /\ Len(g.A[k]) \in Nat
  <2>1. /\ k \in 1..mNumPl2Pkt /\ Len(g.A[k]) \in Nat /\ Part.rq = g.qs[k].rq /\ (AtStart <=> j = 0) /\ j \in Nat
    BY <1>1, <1>5, Position
  <2> QED BY <1>1, <2>1, Zenon
<1>7. Typed(g, k)
  BY <1>3, <1>6, ResponseTypes, Zenon
<1>8. /\ j >= 1 /\ j = Len(g.qs[k].acc) + 1 /\ Len(g.A[k]) = Len(g.qs[k].acc) + 2 /\ g.qs[k].rq # 0
      /\ Part.n = g.qs[k].cnt
  <2>1. ~(/\ j >= 1 /\ j <= Len(g.qs[k].acc) /\ Len(g.A[k]) = Len(g.qs[k].acc) + 2 /\ g.qs[k].rq # 0
          /\ g.qs[k].acc[j] \in Pl0Access /\ AnswerOf(Part, g.qs[k].acc[j], g.qs[k].rq))
    <3> SUFFICES ASSUME g.qs[k].acc[j] \in Pl0Access, AnswerOf(Part, g.qs[k].acc[j], g.qs[k].rq) PROVE FALSE
      BY Zenon
    <3>1. g.qs[k].rq \in Nat
      BY <1>7, Zenon DEF Typed
    <3>2. Part.cmd \in RdCmds \/ Part.cmd \in WrCmds
      BY <3>1, AnswerPasses, Zenon
    <3> QED BY <1>1, <3>2 DEF RdCmds, WrCmds
  <2> QED BY <1>3, <1>4, <1>6, <2>1, AnswerPart, Zenon
<1>9. CASE Part.n # mPl1CntOutstandingOldest
  <2>1. Return("SERVER_CON") /\ rsp' = rsp
    BY <1>9, Zenon DEF ParseEnd
  <2>2. Part.rq # call
    <3> SUFFICES ASSUME g.qs[k].rq = call PROVE FALSE
      BY <1>6
    <3>1. mPl1CntOutstandingOldest = g.qs[k].cnt
      BY <1>5, OwnPosition
    <3> QED BY <1>8, <1>9, <3>1
  <2>3. phase' = "done" /\ tas_err' = "SERVER_CON"
    BY <2>1 DEF Return
  <2>4. DoneInv'
    BY <1>1, <1>2, <2>1, <2>2, <2>3, RefusedDone DEF Refused
  <2>5. ParseInv'
    BY <2>3 DEF ParseInv
  <2> QED BY <2>2, <2>4, <2>5
<1>10. ASSUME Part.n = mPl1CntOutstandingOldest
       PROVE  /\ g.qs[k].rq = call /\ g.Y[k] \in 1..mNumPl2Pkt /\ g.Y[k] \in Nat /\ g.Y[k - 1] = g.Y[k] - 1
              /\ p.iTrans = g.Off[g.Y[k]] /\ Entries(p.iTrans)
              /\ Got(j + 1, g.qs[k]) = Got(j, g.qs[k])
              /\ mPl1CntOutstandingOldest = Cnt(g.base + g.Y[k])
              /\ p.iTrans = g.Off[g.Y[k - 1]] + Got(j, g.qs[k])
  <2>2. g.qs[k].rq = call
    BY <1>6, <1>10, EndOwn
  <2>3. /\ g.Y[k] \in 1..mNumPl2Pkt /\ g.Y[k] \in Nat /\ g.Y[k - 1] = g.Y[k] - 1
        /\ Own(g.qs[k], g.Y[k], g.base, g.Off)
        /\ g.Off[g.Y[k]] = g.Off[g.Y[k - 1]] + Len(g.qs[k].acc)
        /\ mPl1CntOutstandingOldest = g.qs[k].cnt
        /\ p.iTrans = g.Off[g.Y[k - 1]] + Got(j, g.qs[k])
        /\ Entries(p.iTrans) /\ Len(g.qs[k].acc) \in Nat
    BY <1>5, <2>2, OwnPosition
  <2>4. Got(j, g.qs[k]) = Len(g.qs[k].acc) /\ Got(j + 1, g.qs[k]) = Len(g.qs[k].acc)
    <3> DEFINE m == Len(g.qs[k].acc)
    <3>1. m \in Nat /\ j = m + 1
      BY <1>8, <2>3
    <3> HIDE DEF m
    <3>2. /\ (IF j <= 1 THEN 0 ELSE IF j - 1 <= m THEN j - 1 ELSE m) = m
          /\ (IF j + 1 <= 1 THEN 0 ELSE IF (j + 1) - 1 <= m THEN (j + 1) - 1 ELSE m) = m
      BY <3>1
    <3> QED BY <3>2, Zenon DEF m, Got
  <2>5. mPl1CntOutstandingOldest = Cnt(g.base + g.Y[k])
    BY <2>3, Zenon DEF Own
  <2> QED BY <2>2, <2>3, <2>4, <2>5, Zenon
<1>11. tas_err # "SERVER_CON" /\ mPl0NumTrans \in Nat /\ mNumPl2Pkt \in Nat
  BY <1>1, Zenon DEF Types1, Scalars
<1>12. Layout(g.Off, g.W) /\ mPl1CntOutstandingLast = Cnt(g.base + mNumPl2Pkt)
  BY <1>3, Zenon DEF Response
<1>13. CASE Part.n = mPl1CntOutstandingOldest /\ p.iTrans = mPl0NumTrans
  <2>1. Return(tas_err) /\ rsp' = rsp /\ mPl1CntOutstandingOldest' = mPl1CntOutstandingOldest
    BY <1>13, Zenon DEF ParseEnd
  <2>2. phase' = "done" /\ tas_err' = tas_err
    BY <2>1 DEF Return
  <2>3. g.Y[k] = mNumPl2Pkt
    <3> SUFFICES ASSUME g.Y[k] # mNumPl2Pkt PROVE FALSE
      BY Zenon
    <3> DEFINE y == g.Y[k]
               n == mNumPl2Pkt
    <3>1. y \in 1..n /\ n \in Nat /\ y # n
      BY <1>10, <1>11, <1>13
    <3>2. y + 1 \in 1..n /\ (y + 1) - 1 = y
      <4> HIDE DEF y, n
      <4> QED BY <3>1
    <3>3. g.Off[(y + 1) - 1] < mPl0NumTrans
      BY <1>12, <3>2, Zenon DEF Layout
    <3>4. g.Off[y] = mPl0NumTrans
      BY <1>10, <1>13
    <3> QED BY <1>11, <3>2, <3>3, <3>4
  <2>4. mPl1CntOutstandingOldest = mPl1CntOutstandingLast
    BY <1>10, <1>12, <1>13, <2>3, Zenon
  <2>5. Entries(mPl0NumTrans)
    BY <1>10, <1>13, Zenon
  <2>6. DoneInv'
    BY <1>1, <1>2, <1>11, <2>1, <2>2, <2>4, <2>5, EntriesDone
  <2> QED BY <1>11, <2>2, <2>6 DEF ParseInv, Refused
<1>14. CASE Part.n = mPl1CntOutstandingOldest /\ p.iTrans # mPl0NumTrans
  <2>1. Consume(p) /\ phase' = phase /\ tas_err' = tas_err
        /\ mPl1CntOutstandingOldest' = Inc16(mPl1CntOutstandingOldest)
    BY <1>14, Zenon DEF ParseEnd
  <2>2. /\ rsp' = Tail(rsp) /\ p'.next = p.next /\ p'.iTrans = p.iTrans
        /\ p'.wi = p.wi + PartWords(Part)
    <3>1. p \in [wi : Nat, next : Nat, iTrans : Nat]
      BY Zenon DEF Types1, Parsed
    <3> QED BY <2>1, <3>1 DEF Consume
  <2>3. g.Y[k] < mNumPl2Pkt
    <3>1. g.Y[k] # mNumPl2Pkt
      <4>1. g.Off[mNumPl2Pkt] = mPl0NumTrans
        BY <1>12, Zenon DEF Layout
      <4> QED BY <1>10, <1>14, <4>1, Zenon
    <3> DEFINE y == g.Y[k]
    <3>2. y \in 1..mNumPl2Pkt /\ y # mNumPl2Pkt
      BY <1>10, <1>14, <3>1
    <3> HIDE DEF y
    <3>3. y < mNumPl2Pkt
      BY <1>11, <3>2
    <3> QED BY <3>3 DEF y
  <2>4. j + 1 = Len(g.A[k])
    <3>1. Len(g.qs[k].acc) \in Nat
      BY <1>7, Zenon DEF Typed
    <3> DEFINE m == Len(g.qs[k].acc)
    <3> HIDE DEF m
    <3>2. m \in Nat /\ j = m + 1 /\ Len(g.A[k]) = m + 2
      BY <1>8, <3>1 DEF m
    <3> QED BY <3>2
  <2>5. mPl1CntOutstandingOldest' = Cnt(g.base + 1 + g.Y[k])
    <3> DEFINE x == g.base + g.Y[k]
    <3>1. x \in Nat /\ x + 1 = g.base + 1 + g.Y[k]
      <4>1. g.base \in Nat
        BY <1>7, Zenon DEF Typed
      <4> QED BY <1>10, <1>14, <4>1
    <3>2. mPl1CntOutstandingOldest = Cnt(x)
      BY <1>10, <1>14
    <3> HIDE DEF x
    <3>3. Inc16(Cnt(x)) = Cnt(x + 1)
      BY <3>1, CntPlus, Zenon
    <3> QED BY <2>1, <3>1, <3>2, <3>3, Zenon
  <2>6. Entries(p.iTrans)'
    BY <1>1, <1>2, <1>10, <1>14, <2>1, <2>2, Zenon DEF Entries, FirstFailure, Failed, ErrorOf
  <2>7. ~Stale(g.qs[k])
    BY <1>10, <1>14, Zenon DEF Stale
  <2>8. p'.iTrans = g.Off[g.Y[k - 1]] + Got(j + 1, g.qs[k]) /\ p'.iTrans = g.Off[g.Y[k]]
    BY <1>10, <1>14, <2>2, Zenon
  <2>9. ParseInv'
    <3>1. phase' = "parse"
      BY <1>1, <2>1
    <3>2. mPl1CntOutstandingOldest' =
                Cnt(g.base + 1 + (IF j + 1 = Len(g.A[k]) THEN g.Y[k] ELSE g.Y[k - 1]))
      BY <2>4, <2>5, Zenon
    <3>3. Within(g, k, j + 1)'
      <4>1. Within(g, k, j) /\ mRspSize' = mRspSize
        BY <1>1, <1>4, Zenon DEF At, requestVars
      <4>2. Got(j + 1, g.qs[k]) = Got(j, g.qs[k])
        BY <1>10, <1>14
      <4> QED BY <1>2, <4>1, <4>2, WithinStays, Zenon
    <3> QED BY <1>1, <1>5, <1>6, <2>2, <2>3, <2>6, <2>7, <2>8, <3>1, <3>2, <3>3, Advance, Zenon
  <2>10. DoneInv' /\ ~Refused
    BY <1>1, <2>1, NotDone DEF Refused
  <2> QED BY <2>9, <2>10
<1> QED BY <1>9, <1>13, <1>14

LEMMA OutStep ==
    ASSUME Types1, ParseInv, ParseOut
    PROVE  ParseInv' /\ DoneInv' /\ ~Refused
<1>1. /\ phase = "parse" /\ rsp = <<>> /\ Return(tas_err) /\ rsp' = rsp
      /\ UNCHANGED requestVars /\ UNCHANGED <<call, resets>>
      /\ mPl0TransRsp' = mPl0TransRsp /\ mPl1CntOutstandingOldest' = mPl1CntOutstandingOldest
  BY Zenon DEF ParseOut, parseEnv
<1>2. mPl0Trans' = mPl0Trans /\ mPl0NumTrans' = mPl0NumTrans /\ mNumPl2Pkt' = mNumPl2Pkt
      /\ call' = call /\ resets' = resets /\ mPl1CntOutstandingLast' = mPl1CntOutstandingLast
  BY <1>1, Zenon DEF requestVars
<1>3. phase' = "done" /\ tas_err' = tas_err
  BY <1>1 DEF Return
<1>4. PICK g : Response(g) /\ \E k, j : At(g, k, j)
  BY <1>1, Zenon DEF ParseInv
<1>5. PICK k, j : At(g, k, j)
  BY <1>4, Zenon
<1>6. /\ k \in 1..mNumPl2Pkt /\ j \in 0..Len(g.A[k])
      /\ rsp = SubSeq(g.R[k - 1], j + 1, Len(g.R[k - 1]))
  BY <1>5, Zenon DEF At
<1>7. Typed(g, k)
  BY <1>4, <1>6, ResponseTypes, Zenon
<1>8. j = Len(g.A[k])
  <2> SUFFICES ASSUME j # Len(g.A[k]) PROVE FALSE
    BY Zenon
  <2>1. /\ g.A[k] \in Seq(Piece) /\ g.R[k] \in Seq(Piece) /\ g.R[k - 1] = g.A[k] \o g.R[k] /\ g.R[k - 1] \in Seq(Piece)
    BY <1>7, Zenon DEF Typed
  <2> DEFINE a == Len(g.A[k])
             b == Len(g.R[k])
             r == Len(g.R[k - 1])
  <2>2. a \in Nat /\ b \in Nat /\ r = a + b
    BY <2>1, PiecesAt
  <2>3. j \in 0..a /\ j # a
    BY <1>6
  <2> HIDE DEF a, b, r
  <2>4. j + 1 \in Nat /\ j + 1 >= 1 /\ j + 1 <= r
    BY <2>2, <2>3
  <2>5. rsp # <<>>
    BY <1>6, <2>1, <2>4, TailOfSub DEF r
  <2> QED BY <1>1, <2>5
<1>9. g.R[k] = <<>>
  <2>1. /\ g.A[k] \in Seq(Piece) /\ g.R[k] \in Seq(Piece) /\ g.R[k - 1] = g.A[k] \o g.R[k]
    BY <1>7, Zenon DEF Typed
  <2> QED BY <1>1, <1>6, <1>8, <2>1, SubBehind, Zenon
<1>10. mNumPl2Pkt \in Nat
  BY Zenon DEF Types1, Scalars
<1>11. k = mNumPl2Pkt
  <2> SUFFICES ASSUME k # mNumPl2Pkt PROVE FALSE
    BY Zenon
  <2>1. k + 1 \in 1..mNumPl2Pkt /\ (k + 1) - 1 = k
    BY <1>6, <1>10
  <2>2. Typed(g, k + 1)
    BY <1>4, <2>1, ResponseTypes, Zenon
  <2>3. /\ g.A[k + 1] \in Seq(Piece) /\ g.R[k + 1] \in Seq(Piece) /\ g.R[(k + 1) - 1] = g.A[k + 1] \o g.R[k + 1]
        /\ Len(g.A[k + 1]) >= 1
    BY <2>2, Zenon DEF Typed
  <2>4. Len(g.A[k + 1]) \in Nat /\ Len(g.R[k + 1]) \in Nat /\ Len(g.R[k]) = Len(g.A[k + 1]) + Len(g.R[k + 1])
    <3>1. /\ Len(g.A[k + 1]) \in Nat /\ Len(g.R[k + 1]) \in Nat
          /\ Len(g.A[k + 1] \o g.R[k + 1]) = Len(g.A[k + 1]) + Len(g.R[k + 1])
      BY <2>3, PiecesAt
    <3> QED BY <2>1, <2>3, <3>1, Zenon
  <2>5. Len(g.R[k]) = 0
    BY <1>9
  <2> DEFINE a == Len(g.A[k + 1])
             b == Len(g.R[k + 1])
  <2>6. a \in Nat /\ b \in Nat /\ 0 = a + b /\ a >= 1
    BY <2>3, <2>4, <2>5
  <2> HIDE DEF a, b
  <2> QED BY <2>6
<1>12. g.Y[k] < mNumPl2Pkt /\ ~Stale(g.qs[k]) /\ Entries(p.iTrans) /\ (resets = 0 => g.Y[k - 1] = k - 1)
  BY <1>5, <1>8, Zenon DEF At
<1>13. resets # 0
  <2> SUFFICES ASSUME resets = 0 PROVE FALSE
    BY Zenon
  <2>1. g.qs[k].rq # 0
    BY <1>4, <1>6, Zenon DEF Response, Taken
  <2>2. g.qs[k].rq = call
    BY <1>12, <2>1, Zenon DEF Stale
  <2>3. g.Y[k] = g.Y[k - 1] + 1
    BY <1>4, <1>6, <2>2, Zenon DEF Response, Taken
  <2> QED BY <1>6, <1>10, <1>11, <1>12, <2>3
<1>14. p.iTrans \in Nat /\ tas_err # "SERVER_CON"
  <2>1. tas_err # "SERVER_CON"
    BY <1>1, Zenon DEF Types1, Scalars
  <2> QED BY <2>1, PFields
<1>15. DoneInv'
  BY <1>1, <1>2, <1>3, <1>12, <1>13, <1>14, EntriesDone
<1> QED BY <1>3, <1>14, <1>15 DEF ParseInv, Refused

\* The access an answer is assigned to.
Assigned(g, k, j) ==
    /\ j >= 1 /\ j <= Len(g.qs[k].acc) /\ j \in Nat /\ Len(g.qs[k].acc) \in Nat
    /\ Len(g.A[k]) = Len(g.qs[k].acc) + 2 /\ g.qs[k].rq # 0
    /\ p.iTrans = g.Off[g.Y[k - 1]] + (j - 1) /\ p.iTrans \in Nat /\ g.Off[g.Y[k - 1]] \in Nat
    /\ p.iTrans + 1 \in 1..Len(mPl0Trans)
    /\ g.qs[k].rq = call => /\ p.iTrans + 1 <= mPl0NumTrans
                            /\ Entry.a \in Pl0Access /\ AnswerOf(Part, Entry.a, call)
                            /\ Entries(p.iTrans)

LEMMA AssignedTo ==
    ASSUME Types1, phase = "parse", NEW g, NEW k, NEW j, Reading(g, k, j), j # 0,
           Part.cmd # "PL0_END"
    PROVE  Assigned(g, k, j)
<1> DEFINE q == g.qs[k]
           m == Len(q.acc)
           y == g.Y[k]
           o == g.Off[g.Y[k - 1]]
<1>1. Response(g) /\ At(g, k, j) /\ Here(g, k, j)
  BY Zenon DEF Reading
<1>2. k \in 1..mNumPl2Pkt /\ j \in Nat
  BY Position
<1>3. Typed(g, k)
  BY <1>1, <1>2, ResponseTypes, Zenon
<1>4. o \in Nat /\ m \in Nat
  BY <1>3, Zenon DEF Typed
<1>5. /\ j >= 1 /\ j <= m /\ Len(g.A[k]) = m + 2 /\ q.rq # 0
      /\ q.acc[j] \in Pl0Access /\ AnswerOf(Part, q.acc[j], q.rq)
  BY <1>1, AnswerPart, Zenon
<1>6. p.iTrans = o + (j - 1)
  <2>1. p.iTrans = o + Got(j, q)
    BY <1>1, Zenon DEF At
  <2>2. Got(j, q) = j - 1
    <3> HIDE DEF m
    <3>1. (IF j <= 1 THEN 0 ELSE IF j - 1 <= m THEN j - 1 ELSE m) = j - 1
      BY <1>2, <1>4, <1>5
    <3> QED BY <3>1, Zenon DEF m, Got
  <2> QED BY <2>1, <2>2, Zenon
<1>7. p.iTrans \in Nat /\ p.iTrans + 1 = o + j
  <2> HIDE DEF o
  <2>1. o + (j - 1) \in Nat /\ (o + (j - 1)) + 1 = o + j
    BY <1>2, <1>4, <1>5
  <2> QED BY <1>6, <2>1, Zenon
<1>8. mPl0NumTrans \in Nat /\ Len(mPl0Trans) \in Nat /\ mPl0NumTrans <= Len(mPl0Trans)
  <2>1. mPl0Trans \in Seq(TransEntry) /\ mPl0NumTrans \in Nat /\ mPl0NumTrans <= Len(mPl0Trans)
    BY Zenon DEF Types1, Scalars, Arrays
  <2> QED BY <2>1, LenProperties
<1>9. CASE q.rq = call
  <2>1. /\ Own(q, y, g.base, g.Off) /\ g.Off[y] = o + m /\ g.Off[y] <= mPl0NumTrans
        /\ g.Y[k - 1] = y - 1 /\ Entries(p.iTrans)
    BY <1>9, OwnPosition
  <2>2. p.iTrans + 1 <= mPl0NumTrans /\ p.iTrans + 1 \in 1..Len(mPl0Trans) /\ j \in 1..m
    <3> DEFINE t == Len(mPl0Trans)
               n == mPl0NumTrans
    <3>1. n \in Nat /\ t \in Nat /\ n <= t /\ o + m <= n /\ m \in Nat /\ o \in Nat
      BY <1>4, <1>8, <2>1
    <3> HIDE DEF o, m, t, n
    <3>2. o + j <= n /\ o + j \in 1..t /\ j \in 1..m
      BY <1>2, <1>5, <3>1
    <3> QED BY <1>7, <3>2 DEF t, n
  <2>3. q.acc[j] = mPl0Trans[g.Off[y - 1] + j].a
    BY <2>1, <2>2, Zenon DEF Own
  <2>4. Entry.a = q.acc[j]
    BY <1>7, <2>1, <2>3, Zenon DEF Entry
  <2> HIDE DEF m, o, y
  <2>5. Entry.a \in Pl0Access /\ AnswerOf(Part, Entry.a, call)
    BY <1>5, <1>9, <2>4, Zenon
  <2> QED BY <1>2, <1>4, <1>5, <1>6, <1>7, <2>1, <2>2, <2>5, Zenon DEF Assigned, m, o
<1>10. CASE q.rq # call
  <2>1. Stale(q)
    BY <1>5, <1>10, Zenon DEF Stale
  <2>2. g.Y[k - 1] = 0 /\ m <= Len(mPl0Trans) /\ g.Off[0] = 0
    BY <1>1, <1>2, <2>1, Zenon DEF Response, Taken, Layout
  <2>3. p.iTrans + 1 \in 1..Len(mPl0Trans)
    <3> DEFINE t == Len(mPl0Trans)
    <3>1. o = 0 /\ m \in Nat /\ m <= t /\ t \in Nat
      BY <1>4, <1>8, <2>2
    <3> HIDE DEF o, m, t
    <3>2. o + j \in 1..t
      BY <1>2, <1>5, <3>1
    <3> QED BY <1>7, <3>2 DEF t
  <2> HIDE DEF m, o
  <2> QED BY <1>2, <1>4, <1>5, <1>6, <1>7, <1>10, <2>3, Zenon DEF Assigned, m, o
<1> QED BY <1>9, <1>10, Zenon

\* One access more is answered, by a part of the running call.
LEMMA EntriesNext ==
    ASSUME Types1, NEW m \in Nat, m = p.iTrans, Entries(m), m + 1 <= mPl0NumTrans, Part.rq = call,
           NEW nb, NEW dflt, Answered(nb, Part.err),
           dflt = (IF Entry.a.type = "RD" THEN "RW_READ" ELSE "RW_WRITE"),
           tas_err' = IF Part.err = "NO_ERROR" THEN tas_err
                      ELSE mSetPktRspErrPl0Data(tas_err, Part.err, dflt),
           mPl0Trans' = mPl0Trans, mPl0NumTrans' = mPl0NumTrans, call' = call
    PROVE  Entries(m + 1)'
<1> DEFINE n == mPl0NumTrans
           e == Part.err
           rec == [num_bytes_ok |-> nb, pl_err |-> e, rq |-> Part.rq]
           r == mPl0TransRsp'
<1>1. n \in Nat /\ m + 1 <= n /\ m + 1 \in 1..n /\ m <= n /\ m \in Nat
  <2>1. n \in Nat
    BY DEF Types1, Scalars
  <2>2. m + 1 <= n
    OBVIOUS
  <2> HIDE DEF n
  <2> QED BY <2>1, <2>2
<1>2. r = [mPl0TransRsp EXCEPT ![m + 1] = rec]
  BY Zenon DEF Answered
<1>3. \A i \in 1..n : i \in DOMAIN mPl0TransRsp
  <2>1. mPl0TransRsp \in Seq(Result) /\ mPl0Trans \in Seq(TransEntry)
        /\ Len(mPl0TransRsp) = Len(mPl0Trans) /\ mPl0NumTrans <= Len(mPl0Trans)
    BY Zenon DEF Types1, Arrays
  <2>2. DOMAIN mPl0TransRsp = 1..Len(mPl0TransRsp) /\ Len(mPl0TransRsp) \in Nat
    BY <2>1, LenProperties
  <2> DEFINE t == Len(mPl0TransRsp)
  <2>3. t \in Nat /\ n <= t /\ DOMAIN mPl0TransRsp = 1..t
    BY <2>1, <2>2
  <2> HIDE DEF t, n
  <2> QED BY <1>1, <2>3
<1>4. /\ r[m + 1] = rec
      /\ \A i \in 1..n : i # m + 1 => r[i] = mPl0TransRsp[i]
  <2> HIDE DEF rec, n, r
  <2> QED BY <1>1, <1>2, <1>3, Zenon
<1>5. r[m + 1].pl_err = e /\ r[m + 1].rq = call
  BY <1>4
<1>6. \A i \in 1..n : IF i <= m THEN mPl0TransRsp[i].rq = call ELSE mPl0TransRsp[i] = Unanswered
  BY Zenon DEF Entries
<1>7. \A i \in 1..n : IF i <= m + 1 THEN r[i].rq = call ELSE r[i] = Unanswered
  <2> HIDE DEF n, r, rec
  <2>1. \A i \in 1..n : i <= m + 1 => i = m + 1 \/ i <= m
    BY <1>1
  <2>2. \A i \in 1..n : ~(i <= m + 1) => i # m + 1 /\ ~(i <= m)
    BY <1>1
  <2> QED BY <1>4, <1>5, <1>6, <2>1, <2>2, Zenon
<1>8. \A i \in 1..(m + 1) : i \in 1..n /\ (i = m + 1 \/ (i \in 1..m /\ i # m + 1))
  <2> HIDE DEF n
  <2> QED BY <1>1
<1>9. /\ r[m + 1].pl_err # "NO_ERROR" <=> e # "NO_ERROR"
      /\ \A i \in 1..m : r[i].pl_err # "NO_ERROR" <=> Failed(i)
  <2>1. \A i \in 1..m : i \in 1..n /\ i # m + 1
    <3> HIDE DEF n
    <3> QED BY <1>1
  <2> HIDE DEF n, r, e
  <2> QED BY <1>4, <1>5, <2>1, Zenon DEF Failed
<1>10. tas_err' # "NONE" \/ (tas_err = "NONE" /\ e = "NO_ERROR")
  <2>1. dflt # "NONE"
    OBVIOUS
  <2> QED BY <2>1 DEF mSetPktRspErrPl0Data
<1>11. ASSUME tas_err' = "NONE", NEW i \in 1..(m + 1) PROVE ~(r[i].pl_err # "NO_ERROR")
  <2>1. \A l \in 1..m : ~Failed(l)
    BY <1>10, <1>11, Zenon DEF Entries
  <2> HIDE DEF n, r, e
  <2> QED BY <1>8, <1>9, <1>10, <1>11, <2>1, Zenon
<1>12. ASSUME tas_err' \notin {"NONE", "DEVICE_ACCESS"}
       PROVE  \E i \in 1..(m + 1) : /\ r[i].pl_err # "NO_ERROR"
                                    /\ tas_err' = IF r[i].pl_err = "DEV_LOCKED" THEN "DEVICE_LOCKED"
                                                  ELSE IF mPl0Trans[i].a.type = "RD" THEN "RW_READ" ELSE "RW_WRITE"
                                    /\ \A j \in 1..(i - 1) : ~(r[j].pl_err # "NO_ERROR")
  <2>1. CASE tas_err # "NONE"
    <3>1. tas_err' = tas_err
      BY <2>1 DEF mSetPktRspErrPl0Data
    <3>2. PICK i \in 1..m : Failed(i) /\ ErrorOf(i) = tas_err /\ \A j \in 1..(i - 1) : ~Failed(j)
      BY <1>12, <2>1, <3>1, Zenon DEF Entries, FirstFailure
    <3>3. i \in 1..(m + 1) /\ (\A j \in 1..(i - 1) : j \in 1..m) /\ i \in 1..n /\ i # m + 1
      <4> HIDE DEF n
      <4> QED BY <1>1
    <3>4. r[i] = mPl0TransRsp[i]
      BY <1>4, <3>3, Zenon
    <3> HIDE DEF n, r, e
    <3>5. \A j \in 1..(i - 1) : ~(r[j].pl_err # "NO_ERROR")
      BY <1>9, <3>2, <3>3, Zenon
    <3>6. r[i].pl_err # "NO_ERROR"
      BY <1>9, <3>2, Zenon
    <3> QED BY <3>1, <3>2, <3>3, <3>4, <3>5, <3>6, Zenon DEF ErrorOf
  <2>2. CASE tas_err = "NONE"
    <3>1. e # "NO_ERROR" /\ tas_err' = mSetPktRspErrPl0Data(tas_err, e, dflt)
      BY <1>12, <2>2
    <3>2. tas_err' = IF e = "DEV_LOCKED" THEN "DEVICE_LOCKED" ELSE dflt
      BY <1>12, <2>2, <3>1 DEF mSetPktRspErrPl0Data
    <3>3. m + 1 \in 1..(m + 1) /\ (m + 1) - 1 = m
      BY <1>1
    <3>4. \A l \in 1..m : ~Failed(l)
      BY <2>2, Zenon DEF Entries
    <3>5. \A j \in 1..((m + 1) - 1) : ~(r[j].pl_err # "NO_ERROR")
      <4> HIDE DEF n, r, e
      <4> QED BY <1>9, <3>3, <3>4, Zenon
    <3>6. dflt = (IF mPl0Trans[m + 1].a.type = "RD" THEN "RW_READ" ELSE "RW_WRITE")
      BY Zenon DEF Entry
    <3> HIDE DEF n, r, e
    <3> QED BY <1>5, <1>9, <3>1, <3>2, <3>3, <3>5, <3>6, Zenon
  <2> QED BY <2>1, <2>2
<1>13. m + 1 <= mPl0NumTrans'
  BY <1>1
<1>14. tas_err' \notin {"NONE", "DEVICE_ACCESS"} => FirstFailure(m + 1)'
  <2> SUFFICES ASSUME tas_err' \notin {"NONE", "DEVICE_ACCESS"} PROVE FirstFailure(m + 1)'
    BY Zenon
  <2>1. PICK i \in 1..(m + 1) :
            /\ r[i].pl_err # "NO_ERROR"
            /\ tas_err' = IF r[i].pl_err = "DEV_LOCKED" THEN "DEVICE_LOCKED"
                          ELSE IF mPl0Trans[i].a.type = "RD" THEN "RW_READ" ELSE "RW_WRITE"
            /\ \A j \in 1..(i - 1) : ~(r[j].pl_err # "NO_ERROR")
    BY <1>12, Zenon
  <2>2. Failed(i)' /\ (\A j \in 1..(i - 1) : ~Failed(j)')
    BY <2>1, Zenon DEF Failed
  <2>3. ErrorOf(i)' = tas_err'
    BY <2>1, Zenon DEF ErrorOf
  <2> QED BY <2>2, <2>3, Zenon DEF FirstFailure
<1>15. tas_err' = "NONE" => \A i \in 1..(m + 1) : ~Failed(i)'
  BY <1>11, Zenon DEF Failed
<1>16. \A i \in 1..(mPl0NumTrans') :
            IF i <= m + 1 THEN (mPl0TransRsp')[i].rq = call' ELSE (mPl0TransRsp')[i] = Unanswered
  BY <1>7, Zenon
<1> HIDE DEF n, e, rec, r
<1> QED BY <1>13, <1>14, <1>15, <1>16, Zenon DEF Entries

LEMMA WithinNext ==
    ASSUME Types1, NEW g, Response(g), NEW k, NEW j, Reading(g, k, j), Assigned(g, k, j),
           Passes(Part, Entry.a), Within(g, k, j),
           mRspSize' = mRspSize, mPl0NumTrans' = mPl0NumTrans, mPl0Trans' = mPl0Trans
    PROVE  Within(g, k, j + 1)'
<1>1. At(g, k, j) /\ Here(g, k, j) /\ k \in 1..mNumPl2Pkt
  BY Zenon DEF Reading, Here
<1>2. /\ j >= 1 /\ j <= Len(g.qs[k].acc) /\ j \in Nat /\ Len(g.qs[k].acc) \in Nat
      /\ Len(g.A[k]) = Len(g.qs[k].acc) + 2
      /\ p.iTrans = g.Off[g.Y[k - 1]] + (j - 1) /\ p.iTrans + 1 \in 1..Len(mPl0Trans)
  BY Zenon DEF Assigned
<1>3. Got(j, g.qs[k]) = j - 1 /\ Got(j + 1, g.qs[k]) = j
  <2> DEFINE m == Len(g.qs[k].acc)
  <2> HIDE DEF m
  <2>1. m \in Nat /\ j <= m
    BY <1>2 DEF m
  <2>2. /\ (IF j <= 1 THEN 0 ELSE IF j - 1 <= m THEN j - 1 ELSE m) = j - 1
        /\ (IF j + 1 <= 1 THEN 0 ELSE IF (j + 1) - 1 <= m THEN (j + 1) - 1 ELSE m) = j
    BY <1>2, <2>1
  <2> QED BY <2>2, Zenon DEF Got, m
<1>4. ASSUME g.Y[k - 1] = 0, Part.err = "NO_ERROR"
      PROVE  PartWords(Part) = AnswerWords(mPl0Trans[j].a)
  <2>1. g.Off[0] = 0
    BY Zenon DEF Response, Layout
  <2>2. p.iTrans + 1 = j
    BY <1>2, <1>4, <2>1
  <2>3. Entry = mPl0Trans[j] /\ Entry.a \in Pl0Access
    BY <1>2, <2>2, EntryFields, Zenon DEF Entry
  <2>4. PICK a0 : a0 = g.qs[k].acc[j]
    OBVIOUS
  <2>5. a0 \in Pl0Access /\ AnswerOf(Part, a0, g.qs[k].rq)
    <3>1. ~(j = 0) /\ j # Len(g.qs[k].acc) + 1
      BY <1>2
    <3> QED BY <1>1, <2>4, <3>1, AnswerPart, Zenon
  <2>6. PICK a : a = mPl0Trans[j].a
    OBVIOUS
  <2>7. a \in Pl0Access /\ Passes(Part, a)
    BY <2>3, <2>6
  <2>8. PICK e, rq : e = Part /\ rq = g.qs[k].rq
    OBVIOUS
  <2>9. PartWords(e) = AnswerWords(a)
    BY <1>4, <2>5, <2>7, <2>8, PassesWords
  <2> QED BY <2>6, <2>8, <2>9, Zenon
<1>5. Part = g.A[k][j + 1]
  BY <1>1, Zenon DEF Here
<1>6. NumWords(g.R[0]) <= mRspSize'
  BY Zenon DEF Within
<1>7. ASSUME g.Y[k - 1] = 0, NEW i \in 1..j, i <= mPl0NumTrans, g.A[k][i + 1].err = "NO_ERROR"
      PROVE  PartWords(g.A[k][i + 1]) = AnswerWords(mPl0Trans[i].a)
  <2>1. CASE i = j
    BY <1>4, <1>5, <1>7, <2>1, Zenon
  <2>2. CASE i # j
    <3>1. i \in 1..(j - 1)
      BY <1>2, <2>2
    <3> QED BY <1>3, <1>7, <3>1, Zenon DEF Within
  <2> QED BY <2>1, <2>2
<1>8. \A i \in 1..Got(j + 1, g.qs[k]) : i \in 1..j
  BY <1>3, Zenon
<1> QED BY <1>6, <1>7, <1>8, Zenon DEF Within

\* A turn that assigns an answer; ok says whether it is accepted.
LEMMA AccessStep ==
    ASSUME Types1, ParseInv, Turn, ~AtStart, Part.cmd # "PL0_END",
           NEW ok, NEW noted, NEW nb, NEW dflt, Accept(ok, noted, nb, dflt),
           Entry.a \in Pl0Access /\ AnswerOf(Part, Entry.a, call) => ok,
           ok => dflt = (IF Entry.a.type = "RD" THEN "RW_READ" ELSE "RW_WRITE"),
           ok => Passes(Part, Entry.a)
    PROVE  ParseInv' /\ DoneInv' /\ (Refused => Part.rq # call)
<1>1. /\ phase = "parse" /\ rsp # <<>>
      /\ UNCHANGED requestVars /\ UNCHANGED <<call, resets>>
      /\ mPl1CntOutstandingOldest' = mPl1CntOutstandingOldest
  BY Zenon DEF Accept, Turn, parseEnv
<1>2. mPl0Trans' = mPl0Trans /\ mPl0NumTrans' = mPl0NumTrans /\ mNumPl2Pkt' = mNumPl2Pkt
      /\ call' = call /\ resets' = resets /\ mPl1CntOutstandingLast' = mPl1CntOutstandingLast
  BY <1>1, Zenon DEF requestVars
<1>3. PICK g : Response(g) /\ \E k, j : At(g, k, j) /\ Here(g, k, j)
  BY <1>1, TurnAt, Zenon
<1>4. PICK k, j : At(g, k, j) /\ Here(g, k, j)
  BY <1>3, Zenon
<1>5. Reading(g, k, j)
  BY <1>3, <1>4, Zenon DEF Reading
<1>6. j # 0 /\ j \in Nat /\ k \in 1..mNumPl2Pkt /\ Part.rq = g.qs[k].rq /\ j < Len(g.A[k])
  <2>1. /\ k \in 1..mNumPl2Pkt /\ Part.rq = g.qs[k].rq /\ (AtStart <=> j = 0) /\ j \in Nat
        /\ j < Len(g.A[k])
    BY <1>1, <1>5, Position
  <2> QED BY <2>1, Zenon
<1>7. Assigned(g, k, j)
  BY <1>1, <1>5, <1>6, AssignedTo, Zenon
<1>8. g.qs[k].rq = call => ok
  BY <1>7, Zenon DEF Assigned
<1>9. CASE ~ok
  <2>1. Return("SERVER_CON") /\ rsp' = rsp
    BY <1>9, Zenon DEF Accept
  <2>2. Part.rq # call
    BY <1>6, <1>8, <1>9
  <2>3. phase' = "done" /\ tas_err' = "SERVER_CON"
    BY <2>1 DEF Return
  <2>4. DoneInv'
    BY <1>1, <1>2, <2>1, <2>2, <2>3, RefusedDone DEF Refused
  <2>5. ParseInv'
    BY <2>3 DEF ParseInv
  <2> QED BY <2>2, <2>4, <2>5
<1>10. CASE ok
  <2>1. /\ Answered(nb, Part.err) /\ Consume([p EXCEPT !.iTrans = @ + 1])
        /\ tas_err' = (IF Part.err = "NO_ERROR" THEN tas_err
                       ELSE mSetPktRspErrPl0Data(tas_err, Part.err, dflt))
        /\ phase' = phase
    BY <1>10, Zenon DEF Accept
  <2>2. /\ rsp' = Tail(rsp) /\ p'.next = p.next /\ p'.iTrans = p.iTrans + 1
        /\ p'.wi = p.wi + PartWords(Part)
    <3>1. p \in [wi : Nat, next : Nat, iTrans : Nat]
      BY Zenon DEF Types1, Parsed
    <3> QED BY <2>1, <3>1 DEF Consume
  <2> DEFINE m == Len(g.qs[k].acc)
             o == g.Off[g.Y[k - 1]]
             z == Len(g.A[k])
  <2>3. /\ j >= 1 /\ j <= m /\ m \in Nat /\ z = m + 2 /\ g.qs[k].rq # 0
        /\ p.iTrans = o + (j - 1) /\ o \in Nat
    BY <1>7, Zenon DEF Assigned
  <2>4. p'.iTrans = o + Got(j + 1, g.qs[k])
    <3>1. Got(j + 1, g.qs[k]) = j
      <4> HIDE DEF m
      <4>1. (IF j + 1 <= 1 THEN 0 ELSE IF (j + 1) - 1 <= m THEN (j + 1) - 1 ELSE m) = j
        BY <1>6, <2>3
      <4> QED BY <4>1, Zenon DEF m, Got
    <3>2. p'.iTrans = o + j
      <4> HIDE DEF o
      <4> QED BY <1>6, <2>2, <2>3
    <3> HIDE DEF o
    <3> QED BY <3>1, <3>2, Zenon
  <2>5. j + 1 # z /\ j # z
    <3> HIDE DEF m, z
    <3> QED BY <1>6, <2>3
  <2>6. mPl1CntOutstandingOldest' =
            Cnt(g.base + 1 + (IF j + 1 = Len(g.A[k]) THEN g.Y[k] ELSE g.Y[k - 1]))
    BY <1>1, <1>4, <2>5, Zenon DEF At
  <2>7. ~Stale(g.qs[k]) => Entries(p.iTrans)'
    <3> SUFFICES ASSUME ~Stale(g.qs[k]) PROVE Entries(p.iTrans)'
      BY Zenon
    <3>1. g.qs[k].rq = call
      BY <2>3, Zenon DEF Stale
    <3>2. p.iTrans + 1 <= mPl0NumTrans /\ Entries(p.iTrans) /\ p.iTrans \in Nat
      BY <1>7, <3>1, Zenon DEF Assigned
    <3>3. dflt = (IF Entry.a.type = "RD" THEN "RW_READ" ELSE "RW_WRITE")
      BY <1>10, Zenon
    <3>4. PICK x \in Nat : x = p.iTrans
      BY <3>2
    <3>5. Entries(x) /\ x + 1 <= mPl0NumTrans /\ Part.rq = call
      BY <1>6, <3>1, <3>2, <3>4
    <3>6. Entries(x + 1)'
      BY <1>2, <2>1, <3>3, <3>4, <3>5, EntriesNext
    <3>7. p'.iTrans = x + 1
      BY <2>2, <3>4
    <3> QED BY <3>6, <3>7, Zenon DEF Entries, FirstFailure
  <2>8. Within(g, k, j + 1)'
    <3>1. mRspSize' = mRspSize /\ Within(g, k, j)
      BY <1>1, <1>4, Zenon DEF At, requestVars
    <3> QED BY <1>2, <1>3, <1>5, <1>7, <1>10, <3>1, WithinNext, Zenon
  <2>9. ParseInv'
    <3>1. phase' = "parse"
      BY <1>1, <2>1
    <3>2. p'.iTrans = g.Off[g.Y[k - 1]] + Got(j + 1, g.qs[k])
      BY <2>4
    <3>3. j + 1 # Len(g.A[k])
      BY <2>5
    <3> HIDE DEF m, o, z
    <3> QED BY <1>1, <1>5, <1>6, <2>2, <2>6, <2>7, <2>8, <3>1, <3>2, <3>3, Advance, Zenon
  <2>10. DoneInv' /\ ~Refused
    BY <1>1, <2>1, NotDone DEF Refused
  <2> QED BY <2>9, <2>10
<1> QED BY <1>9, <1>10

LEMMA WrStep ==
    ASSUME Types1, ParseInv, ParseWr
    PROVE  ParseInv' /\ DoneInv' /\ (Refused => Part.rq # call)
<1> DEFINE a == Entry.a
           isWr == Part.wl = 0 /\ a.type \in {"WR", "FILL"}
           ok == isWr /\ IF Part.err # "NO_ERROR"
                    THEN IF Part.cmd = "WRBLK" THEN Part.n < Words(a) ELSE Part.n = 0
                    ELSE Part.n = Words(a) % 256
           noted == isWr /\ Part.err # "NO_ERROR"
           nb == IF Part.err = "NO_ERROR" THEN a.num_bytes
                 ELSE IF Part.cmd = "WRBLK" THEN 4 * Part.n ELSE 0
<1>1. Turn /\ ~AtStart /\ Part.cmd \in {"WR", "WRBLK", "FILL"} /\ Accept(ok, noted, nb, "RW_WRITE")
  BY Zenon DEF ParseWr
<1>2. ok <=> WrOk(Part, a)
  BY Zenon DEF WrOk
<1>3. Part.cmd # "PL0_END" /\ Part.cmd \notin RdCmds
  BY <1>1 DEF RdCmds
<1>4. a \in Pl0Access /\ AnswerOf(Part, a, call) => ok
  <2>1. call \in Nat
    BY Zenon DEF Types1, Scalars
  <2> HIDE DEF ok, a
  <2> QED BY <1>2, <1>3, <2>1, AnswerPasses, Zenon
<1>5. ok => "RW_WRITE" = (IF a.type = "RD" THEN "RW_READ" ELSE "RW_WRITE")
  OBVIOUS
<1>6. ok => Passes(Part, a)
  <2>1. Part.cmd \in WrCmds
    BY <1>1 DEF WrCmds
  <2> QED BY <1>2, <2>1, Zenon DEF Passes
<1> HIDE DEF ok, noted, nb, isWr
<1> QED BY <1>1, <1>3, <1>4, <1>5, <1>6, AccessStep, Zenon

LEMMA RdStep ==
    ASSUME Types1, ParseInv, ParseRd
    PROVE  ParseInv' /\ DoneInv' /\ (Refused => Part.rq # call)
<1> DEFINE a == Entry.a
           ok == /\ Part.wl = Part.n
                 /\ a.type = "RD"
                 /\ IF Part.cmd = "RDBLK1KB"
                    THEN Words(a) = DataBlkWords /\ Part.wl = 0 /\ Part.err = "NO_ERROR"
                    ELSE IF Part.err # "NO_ERROR"
                    THEN IF Part.cmd = "RDBLK" THEN Part.n <= Words(a) ELSE Part.n = 0
                    ELSE Part.n = Words(a) % 256
           nb == IF Part.err = "NO_ERROR" THEN a.num_bytes
                 ELSE IF Part.cmd = "RDBLK" THEN 4 * Part.n ELSE 0
<1>1. Turn /\ ~AtStart /\ Part.cmd \in {"RD", "RDBLK", "RDBLK1KB"} /\ Accept(ok, FALSE, nb, "RW_READ")
  BY Zenon DEF ParseRd
<1>2. ok <=> RdOk(Part, a)
  BY Zenon DEF RdOk
<1>3. Part.cmd # "PL0_END" /\ Part.cmd \notin WrCmds
  BY <1>1 DEF WrCmds
<1>4. a \in Pl0Access /\ AnswerOf(Part, a, call) => ok
  <2>1. call \in Nat
    BY Zenon DEF Types1, Scalars
  <2> HIDE DEF ok, a
  <2> QED BY <1>2, <1>3, <2>1, AnswerPasses, Zenon
<1>5. ok => "RW_READ" = (IF a.type = "RD" THEN "RW_READ" ELSE "RW_WRITE")
  OBVIOUS
<1>6. ok => Passes(Part, a)
  <2>1. Part.cmd \in RdCmds
    BY <1>1 DEF RdCmds
  <2> QED BY <1>2, <2>1, Zenon DEF Passes
<1> HIDE DEF ok, nb
<1> QED BY <1>1, <1>3, <1>4, <1>5, <1>6, AccessStep, Zenon

\* Where an answer is assigned, the arrays have an entry.
LEMMA AccessTypes ==
    ASSUME Types1, ParseInv, Turn, ~AtStart, Part.cmd # "PL0_END"
    PROVE  /\ Part.err \in PlErr /\ Part.n \in Nat /\ Part.rq \in Nat
           /\ Entry.a \in Pl0Access /\ p.iTrans + 1 \in 1..Len(mPl0TransRsp)
           /\ mPl0TransRsp[p.iTrans + 1] \in Result
<1>1. phase = "parse" /\ rsp # <<>>
  BY Zenon DEF Turn
<1>2. PICK g : Response(g) /\ \E k, j : At(g, k, j) /\ Here(g, k, j)
  BY <1>1, TurnAt, Zenon
<1>3. PICK k, j : At(g, k, j) /\ Here(g, k, j)
  BY <1>2, Zenon
<1>4. Reading(g, k, j)
  BY <1>2, <1>3, Zenon DEF Reading
<1>5. j # 0 /\ k \in 1..mNumPl2Pkt
  <2>1. k \in 1..mNumPl2Pkt /\ (AtStart <=> j = 0)
    BY <1>1, <1>4, Position
  <2> QED BY <2>1, Zenon
<1>6. Assigned(g, k, j)
  BY <1>1, <1>4, <1>5, AssignedTo, Zenon
<1>7. p.iTrans + 1 \in 1..Len(mPl0Trans)
  BY <1>6, Zenon DEF Assigned
<1>8. Entry.a \in Pl0Access
  BY <1>7, EntryFields, Zenon DEF Entry
<1>9. p.iTrans + 1 \in 1..Len(mPl0TransRsp) /\ mPl0TransRsp[p.iTrans + 1] \in Result
  <2>1. mPl0TransRsp \in Seq(Result) /\ Len(mPl0TransRsp) = Len(mPl0Trans)
    BY Zenon DEF Types1, Arrays
  <2>2. p.iTrans + 1 \in 1..Len(mPl0TransRsp)
    BY <1>7, <2>1, Zenon
  <2> QED BY <2>1, <2>2, ElementOfSeq
<1>10. Part.err \in PlErr
  <2>1. g.qs[k].rq \in Nat
    <3>1. Typed(g, k)
      BY <1>2, <1>5, ResponseTypes, Zenon
    <3> QED BY <3>1, Zenon DEF Typed
  <2>2. g.qs[k].acc[j] \in Pl0Access /\ AnswerOf(Part, g.qs[k].acc[j], g.qs[k].rq)
    <3>1. j >= 1 /\ j <= Len(g.qs[k].acc)
      BY <1>6, Zenon DEF Assigned
    <3> QED BY <1>2, <1>3, <1>5, AnswerPart, Zenon
  <2> QED BY <2>1, <2>2, AnswerOfType
<1>11. Part.n \in Nat /\ Part.rq \in Nat
  BY <1>3, PieceFields DEF Here
<1> QED BY <1>8, <1>9, <1>10, <1>11

LEMMA TypesOfTurn ==
    ASSUME Types1, phase = "parse", UNCHANGED requestVars, UNCHANGED <<call, stream, resets>>,
           rsp' \in Seq(Piece), p' \in [wi : Nat, next : Nat, iTrans : Nat],
           mPl0TransRsp' \in Seq(Result), Len(mPl0TransRsp') = Len(mPl0TransRsp),
           mPl1CntOutstandingOldest' \in UInt16,
           phase' \in {"parse", "done"}, tas_err' \in TasErrs,
           phase' = "parse" => tas_err' # "SERVER_CON"
    PROVE  Types1' /\ Fresh'
<1>1. /\ mNumPl2Pkt' = mNumPl2Pkt /\ mPl1CntOutstandingLast' = mPl1CntOutstandingLast
      /\ mPl0Trans' = mPl0Trans /\ mPl0NumTrans' = mPl0NumTrans /\ mRspSize' = mRspSize
      /\ call' = call /\ resets' = resets /\ stream' = stream
  BY DEF requestVars
<1>2. Scalars'
  <2>1. call > 0
    BY Zenon DEF Types1, Scalars
  <2>2. phase' \in {"idle", "sent", "parse", "done", "merged"}
    OBVIOUS
  <2> QED BY <1>1, <2>1, <2>2, Zenon DEF Types1, Scalars
<1>3. Arrays'
  <2>1. Len(mPl0TransRsp') = Len(mPl0Trans')
    BY <1>1, Zenon DEF Types1, Arrays
  <2> QED BY <1>1, <2>1, Zenon DEF Types1, Arrays
<1>4. Counts' /\ Parsed' /\ stream' \in Seq(Packet)
  BY <1>1, Zenon DEF Types1, Counts, Parsed
<1>5. Fresh'
  <2>1. phase' # "sent"
    OBVIOUS
  <2> QED BY <2>1, Zenon DEF Fresh
<1> QED BY <1>2, <1>3, <1>4, <1>5, Zenon DEF Types1

LEMMA StreamStays ==
    ASSUME StreamInv, UNCHANGED requestVars, UNCHANGED <<call, stream, resets>>, phase' # "sent"
    PROVE  StreamInv'
<1>1. /\ mNumPl2Pkt' = mNumPl2Pkt /\ mPl1CntOutstandingLast' = mPl1CntOutstandingLast
      /\ mPl0Trans' = mPl0Trans /\ mPl0NumTrans' = mPl0NumTrans /\ mRspSize' = mRspSize
      /\ call' = call /\ resets' = resets /\ stream' = stream
  BY DEF requestVars
<1>2. PICK u : Layout(u.Off, u.W) /\ Underway(u)
  BY Zenon DEF StreamInv
<1>3. Layout(u.Off, u.W)'
  BY <1>1, <1>2, Zenon DEF Layout
<1>4. Underway(u)'
  <2>1. phase' # "sent"
    OBVIOUS
  <2>2. \A q, y : Own(q, y, u.base, u.Off)' <=> Own(q, y, u.base, u.Off)
    BY <1>1, Zenon DEF Own
  <2>3. \A k \in 1..Len(stream) :
            (stream[k].rq = call => Own(stream[k], u.U[k] - u.base, u.base, u.Off))
            => (stream[k].rq = call => Own(stream[k], u.U[k] - u.base, u.base, u.Off)')
    BY <2>2, Zenon
  <2> HIDE DEF Own
  <2> QED BY <1>1, <1>2, <2>1, <2>3, ZenonT(60) DEF Underway
<1> QED BY <1>3, <1>4, Zenon DEF StreamInv

\* What a turn takes or leaves has the types it had.
LEMMA ConsumeTypes ==
    ASSUME Types1, Turn, NEW q \in [wi : Nat, next : Nat, iTrans : Nat], Consume(q)
    PROVE  rsp' \in Seq(Piece) /\ p' \in [wi : Nat, next : Nat, iTrans : Nat]
<1>1. rsp \in Seq(Piece) /\ rsp # <<>>
  BY Zenon DEF Types1, Parsed, Turn
<1>2. rsp' \in Seq(Piece)
  BY <1>1 DEF Consume
<1>3. Part \in Piece
  BY <1>1 DEF Part
<1>4. PartWords(Part) \in Nat
  BY <1>3, PieceFields
<1>5. p' = [q EXCEPT !.wi = @ + PartWords(Part)]
  BY Zenon DEF Consume
<1> DEFINE w == PartWords(Part)
<1> HIDE DEF w
<1>6. p' = [q EXCEPT !.wi = @ + w] /\ w \in Nat
  BY <1>4, <1>5 DEF w
<1>7. p' \in [wi : Nat, next : Nat, iTrans : Nat]
  BY <1>6
<1> QED BY <1>2, <1>7

LEMMA StartTypes ==
    ASSUME Types1, ParseStart
    PROVE  Types1' /\ Fresh'
<1>1. /\ Turn /\ phase = "parse" /\ UNCHANGED requestVars /\ UNCHANGED <<call, stream, resets>>
      /\ mPl0TransRsp' = mPl0TransRsp /\ mPl1CntOutstandingOldest' = mPl1CntOutstandingOldest
  BY Zenon DEF ParseStart, Turn, parseEnv
<1>2. /\ mPl0TransRsp \in Seq(Result) /\ mPl1CntOutstandingOldest \in UInt16 /\ tas_err \in TasErrs
      /\ rsp \in Seq(Piece) /\ p \in [wi : Nat, next : Nat, iTrans : Nat] /\ tas_err # "SERVER_CON"
  BY <1>1, Zenon DEF Types1, Scalars, Arrays, Counts, Parsed
<1>3. \/ phase' = "done" /\ tas_err' \in {"SERVER_CON", "DEVICE_ACCESS"} /\ rsp' = rsp /\ p' = p
      \/ phase' = phase /\ tas_err' = tas_err /\ Consume([p EXCEPT !.next = @ + Part.n])
  BY DEF ParseStart, Return
<1>4. Part.n \in Nat
  <2>1. Part \in Piece
    BY <1>1, <1>2 DEF Part, Turn
  <2> QED BY <2>1, PieceFields
<1>5. rsp' \in Seq(Piece) /\ p' \in [wi : Nat, next : Nat, iTrans : Nat]
  <2>1. CASE rsp' = rsp /\ p' = p
    BY <1>2, <2>1
  <2>2. CASE Consume([p EXCEPT !.next = @ + Part.n])
    <3>1. [p EXCEPT !.next = @ + Part.n] \in [wi : Nat, next : Nat, iTrans : Nat]
      BY <1>2, <1>4
    <3> QED BY <1>1, <2>2, <3>1, ConsumeTypes
  <2> QED BY <1>3, <2>1, <2>2
<1>6. phase' \in {"parse", "done"} /\ tas_err' \in TasErrs /\ (phase' = "parse" => tas_err' # "SERVER_CON")
  BY <1>1, <1>2, <1>3 DEF TasErrs
<1> QED BY <1>1, <1>2, <1>5, <1>6, TypesOfTurn

LEMMA EndTypes ==
    ASSUME Types1, ParseEnd
    PROVE  Types1' /\ Fresh'
<1>1. /\ Turn /\ phase = "parse" /\ UNCHANGED requestVars /\ UNCHANGED <<call, stream, resets>>
      /\ mPl0TransRsp' = mPl0TransRsp
  BY Zenon DEF ParseEnd, Turn, parseEnv
<1>2. /\ mPl0TransRsp \in Seq(Result) /\ mPl1CntOutstandingOldest \in UInt16 /\ tas_err \in TasErrs
      /\ rsp \in Seq(Piece) /\ p \in [wi : Nat, next : Nat, iTrans : Nat] /\ tas_err # "SERVER_CON"
  BY <1>1, Zenon DEF Types1, Scalars, Arrays, Counts, Parsed
<1>3. \/ /\ phase' = "done" /\ tas_err' \in {"SERVER_CON", tas_err} /\ rsp' = rsp /\ p' = p
         /\ mPl1CntOutstandingOldest' = mPl1CntOutstandingOldest
      \/ /\ phase' = phase /\ tas_err' = tas_err /\ Consume(p)
         /\ mPl1CntOutstandingOldest' = Inc16(mPl1CntOutstandingOldest)
  BY DEF ParseEnd, Return
<1>4. mPl1CntOutstandingOldest' \in UInt16
  <2>1. Inc16(mPl1CntOutstandingOldest) \in UInt16
    BY <1>2, Inc16Type
  <2> QED BY <1>2, <1>3, <2>1, Zenon
<1>5. rsp' \in Seq(Piece) /\ p' \in [wi : Nat, next : Nat, iTrans : Nat]
  <2>1. CASE rsp' = rsp /\ p' = p
    BY <1>2, <2>1
  <2>2. CASE Consume(p)
    BY <1>1, <1>2, <2>2, ConsumeTypes
  <2> QED BY <1>3, <2>1, <2>2
<1>6. phase' \in {"parse", "done"} /\ tas_err' \in TasErrs /\ (phase' = "parse" => tas_err' # "SERVER_CON")
  BY <1>1, <1>2, <1>3 DEF TasErrs
<1> QED BY <1>1, <1>2, <1>4, <1>5, <1>6, TypesOfTurn

LEMMA AcceptTypes ==
    ASSUME Types1, ParseInv, Turn, ~AtStart, Part.cmd # "PL0_END",
           NEW ok, NEW noted, NEW nb \in Nat, NEW dflt \in {"RW_READ", "RW_WRITE"},
           Accept(ok, noted, nb, dflt)
    PROVE  Types1' /\ Fresh'
<1>1. /\ phase = "parse" /\ UNCHANGED requestVars /\ UNCHANGED <<call, stream, resets>>
      /\ mPl1CntOutstandingOldest' = mPl1CntOutstandingOldest
  BY Zenon DEF Accept, Turn, parseEnv
<1>2. /\ mPl0TransRsp \in Seq(Result) /\ mPl1CntOutstandingOldest \in UInt16 /\ tas_err \in TasErrs
      /\ rsp \in Seq(Piece) /\ p \in [wi : Nat, next : Nat, iTrans : Nat] /\ tas_err # "SERVER_CON"
  BY <1>1, Zenon DEF Types1, Scalars, Arrays, Counts, Parsed
<1>3. \/ /\ phase' = "done" /\ tas_err' = "SERVER_CON" /\ rsp' = rsp /\ p' = p
         /\ \/ mPl0TransRsp' = mPl0TransRsp
            \/ Answered(mPl0TransRsp[p.iTrans + 1].num_bytes_ok, Part.err)
      \/ /\ phase' = phase /\ Consume([p EXCEPT !.iTrans = @ + 1])
         /\ tas_err' \in {tas_err, "DEVICE_LOCKED", "DEVICE_ACCESS", dflt}
         /\ Answered(nb, Part.err)
  BY DEF Accept, Return, mSetPktRspErrPl0Data
<1>4. /\ Part.err \in PlErr /\ Part.rq \in Nat /\ p.iTrans + 1 \in 1..Len(mPl0TransRsp)
      /\ mPl0TransRsp[p.iTrans + 1].num_bytes_ok \in Nat
  <2>1. /\ Part.err \in PlErr /\ Part.rq \in Nat /\ p.iTrans + 1 \in 1..Len(mPl0TransRsp)
        /\ mPl0TransRsp[p.iTrans + 1] \in Result
    BY AccessTypes
  <2>2. mPl0TransRsp[p.iTrans + 1].num_bytes_ok \in Nat
    BY <2>1 DEF Result
  <2> QED BY <2>1, <2>2
<1>5. mPl0TransRsp' \in Seq(Result) /\ Len(mPl0TransRsp') = Len(mPl0TransRsp)
  <2>1. ASSUME NEW x \in Nat, Answered(x, Part.err)
        PROVE  mPl0TransRsp' \in Seq(Result) /\ Len(mPl0TransRsp') = Len(mPl0TransRsp)
    <3> DEFINE rec == [num_bytes_ok |-> x, pl_err |-> Part.err, rq |-> Part.rq]
               i == p.iTrans + 1
    <3>1. rec \in Result
      BY <1>4, <2>1 DEF Result
    <3>2. mPl0TransRsp' = [mPl0TransRsp EXCEPT ![i] = rec] /\ i \in 1..Len(mPl0TransRsp)
      BY <1>4, <2>1 DEF Answered
    <3> HIDE DEF rec, i
    <3> QED BY <1>2, <3>1, <3>2, ExceptSeq
  <2> QED BY <1>2, <1>3, <1>4, <2>1
<1>6. rsp' \in Seq(Piece) /\ p' \in [wi : Nat, next : Nat, iTrans : Nat]
  <2>1. CASE rsp' = rsp /\ p' = p
    BY <1>2, <2>1
  <2>2. CASE Consume([p EXCEPT !.iTrans = @ + 1])
    <3>1. [p EXCEPT !.iTrans = @ + 1] \in [wi : Nat, next : Nat, iTrans : Nat]
      BY <1>2
    <3> QED BY <2>2, <3>1, ConsumeTypes
  <2> QED BY <1>3, <2>1, <2>2
<1>7. phase' \in {"parse", "done"} /\ tas_err' \in TasErrs /\ (phase' = "parse" => tas_err' # "SERVER_CON")
  BY <1>1, <1>2, <1>3 DEF TasErrs
<1> QED BY <1>1, <1>2, <1>5, <1>6, <1>7, TypesOfTurn

LEMMA WrTypes ==
    ASSUME Types1, ParseInv, ParseWr
    PROVE  Types1' /\ Fresh'
<1> DEFINE a == Entry.a
           isWr == Part.wl = 0 /\ a.type \in {"WR", "FILL"}
           ok == isWr /\ IF Part.err # "NO_ERROR"
                    THEN IF Part.cmd = "WRBLK" THEN Part.n < Words(a) ELSE Part.n = 0
                    ELSE Part.n = Words(a) % 256
           noted == isWr /\ Part.err # "NO_ERROR"
           nb == IF Part.err = "NO_ERROR" THEN a.num_bytes
                 ELSE IF Part.cmd = "WRBLK" THEN 4 * Part.n ELSE 0
<1>1. Turn /\ ~AtStart /\ Part.cmd \in {"WR", "WRBLK", "FILL"} /\ Accept(ok, noted, nb, "RW_WRITE")
  BY Zenon DEF ParseWr
<1>2. Part.cmd # "PL0_END"
  BY <1>1
<1>3. nb \in Nat
  <2>1. a \in Pl0Access /\ Part.n \in Nat
    BY <1>1, <1>2, AccessTypes
  <2>2. a.num_bytes \in Nat
    BY <2>1, AccessFields
  <2> QED BY <2>1, <2>2
<1> HIDE DEF ok, noted, nb
<1> QED BY <1>1, <1>2, <1>3, AcceptTypes

LEMMA RdTypes ==
    ASSUME Types1, ParseInv, ParseRd
    PROVE  Types1' /\ Fresh'
<1> DEFINE a == Entry.a
           ok == /\ Part.wl = Part.n
                 /\ a.type = "RD"
                 /\ IF Part.cmd = "RDBLK1KB"
                    THEN Words(a) = DataBlkWords /\ Part.wl = 0 /\ Part.err = "NO_ERROR"
                    ELSE IF Part.err # "NO_ERROR"
                    THEN IF Part.cmd = "RDBLK" THEN Part.n <= Words(a) ELSE Part.n = 0
                    ELSE Part.n = Words(a) % 256
           nb == IF Part.err = "NO_ERROR" THEN a.num_bytes
                 ELSE IF Part.cmd = "RDBLK" THEN 4 * Part.n ELSE 0
<1>1. Turn /\ ~AtStart /\ Part.cmd \in {"RD", "RDBLK", "RDBLK1KB"} /\ Accept(ok, FALSE, nb, "RW_READ")
  BY Zenon DEF ParseRd
<1>2. Part.cmd # "PL0_END"
  BY <1>1
<1>3. nb \in Nat
  <2>1. a \in Pl0Access /\ Part.n \in Nat
    BY <1>1, <1>2, AccessTypes
  <2>2. a.num_bytes \in Nat
    BY <2>1, AccessFields
  <2> QED BY <2>1, <2>2
<1> HIDE DEF ok, nb
<1> QED BY <1>1, <1>2, <1>3, AcceptTypes

LEMMA OutTypes ==
    ASSUME Types1, ParseOut
    PROVE  Types1' /\ Fresh'
<1>1. /\ phase = "parse" /\ UNCHANGED requestVars /\ UNCHANGED <<call, stream, resets>>
      /\ mPl0TransRsp' = mPl0TransRsp /\ mPl1CntOutstandingOldest' = mPl1CntOutstandingOldest
      /\ phase' = "done" /\ tas_err' = tas_err /\ rsp' = rsp /\ p' = p
  BY Zenon DEF ParseOut, parseEnv, Return
<1>2. /\ mPl0TransRsp \in Seq(Result) /\ mPl1CntOutstandingOldest \in UInt16 /\ tas_err \in TasErrs
      /\ rsp \in Seq(Piece) /\ p \in [wi : Nat, next : Nat, iTrans : Nat]
  BY <1>1, Zenon DEF Types1, Scalars, Arrays, Counts, Parsed
<1> QED BY <1>1, <1>2, TypesOfTurn

(* The stream.                                                                *)

LEMMA PacketsFrom ==
    ASSUME NEW s \in Seq(Packet), NEW k \in 0..Len(s), NEW t, t = SubSeq(s, k + 1, Len(s))
    PROVE  /\ t \in Seq(Packet) /\ Len(s) \in Nat /\ Len(t) = Len(s) - k
           /\ \A i \in 1..Len(t) : t[i] = s[k + i]
BY SMT

LEMMA PacketsTo ==
    ASSUME NEW s \in Seq(Packet), NEW k \in 0..Len(s)
    PROVE  /\ SubSeq(s, 1, k) \in Seq(Packet) /\ Len(SubSeq(s, 1, k)) = k
           /\ \A i \in 1..k : SubSeq(s, 1, k)[i] = s[i]
BY SMT

StreamAt(u, k) ==
    /\ k \in Nat /\ k - 1 \in 0..Len(stream) /\ k \in 0..Len(stream)
    /\ u.U[k] \in Nat /\ u.U[k - 1] \in Nat /\ u.base \in Nat
    /\ stream[k] \in Packet /\ stream[k].rq \in Nat /\ stream[k].cnt \in Nat
    /\ stream[k].acc \in Seq(Pl0Access) /\ Len(stream[k].acc) \in Nat

LEMMA StreamTypes ==
    ASSUME Types1, NEW u, Underway(u), NEW k \in 1..Len(stream)
    PROVE  StreamAt(u, k)
<1>1. stream \in Seq(Packet)
  BY Zenon DEF Types1
<1>2. stream[k] \in Packet
  BY <1>1, ElementOfSeq
<1>3. Len(stream) \in Nat
  BY <1>1, LenProperties
<1>4. k \in Nat /\ k - 1 \in 0..Len(stream) /\ k \in 0..Len(stream)
  <2> DEFINE n == Len(stream)
  <2>1. n \in Nat /\ k \in 1..n
    BY <1>3
  <2> HIDE DEF n
  <2>2. k \in Nat /\ k - 1 \in 0..n /\ k \in 0..n
    BY <2>1
  <2> QED BY <2>2 DEF n
<1>5. u.U \in [0..Len(stream) -> Nat] /\ u.base \in Nat
  BY Zenon DEF Underway
<1>6. u.U[k] \in Nat /\ u.U[k - 1] \in Nat
  BY <1>4, <1>5, Zenon
<1>7. stream[k].rq \in Nat /\ stream[k].cnt \in Nat /\ stream[k].acc \in Seq(Pl0Access)
  BY <1>2 DEF Packet
<1>8. Len(stream[k].acc) \in Nat
  BY <1>7, LenProperties
<1> QED BY <1>2, <1>4, <1>5, <1>6, <1>7, <1>8, Zenon DEF StreamAt

\* The counts of the packets underway grow by one at most.
Growing(U, k, j) == U[k] \in Nat /\ U[j] \in Nat /\ U[k] <= U[j] /\ U[j] - U[k] <= j - k

LEMMA CountsGrow ==
    ASSUME Types1, NEW u, Underway(u), NEW k \in 0..Len(stream)
    PROVE  \A j \in k..Len(stream) : Growing(u.U, k, j)
<1> DEFINE n == Len(stream)
           U == u.U
           P == {d \in Nat : k + d <= n => U[k] <= U[k + d] /\ U[k + d] - U[k] <= d}
<1>1. n \in Nat /\ k \in 0..n
  <2>1. stream \in Seq(Packet)
    BY Zenon DEF Types1
  <2>2. n \in Nat
    BY <2>1, LenProperties
  <2> QED BY <2>2
<1>2. U \in [0..n -> Nat] /\ \A i \in 1..n : U[i] = IF stream[i].rq = 0 THEN U[i - 1] ELSE U[i - 1] + 1
  BY Zenon DEF Underway
<1> HIDE DEF n, U
<1>3. 0 \in P
  BY <1>1, <1>2
<1>4. ASSUME NEW d \in P PROVE d + 1 \in P
  <2>1. d \in Nat /\ d + 1 \in Nat /\ k + (d + 1) = (k + d) + 1
    BY <1>1
  <2>2. ASSUME k + (d + 1) <= n PROVE U[k] <= U[k + (d + 1)] /\ U[k + (d + 1)] - U[k] <= d + 1
    <3>1. (k + d) + 1 \in 1..n /\ k + d <= n /\ ((k + d) + 1) - 1 = k + d /\ k + d \in 0..n
          /\ (k + d) + 1 \in 0..n
      BY <1>1, <2>1, <2>2
    <3>2. U[(k + d) + 1] = IF stream[(k + d) + 1].rq = 0 THEN U[k + d] ELSE U[k + d] + 1
      BY <1>2, <3>1
    <3>3. U[k] <= U[k + d] /\ U[k + d] - U[k] <= d /\ U[k] \in Nat /\ U[k + d] \in Nat
      BY <1>1, <1>2, <1>4, <3>1
    <3> HIDE DEF P
    <3>4. U[(k + d) + 1] = U[k + d] \/ U[(k + d) + 1] = U[k + d] + 1
      BY <3>2, Zenon
    <3> QED BY <2>1, <3>3, <3>4
  <2> QED BY <2>1, <2>2
<1>5. \A d \in Nat : d \in P
  <2>1. P \in SUBSET Nat /\ \A d \in P : d + 1 \in P
    BY <1>4
  <2> HIDE DEF P
  <2> QED BY <1>3, <2>1, SetInduction
<1>6. ASSUME NEW j \in k..n PROVE Growing(U, k, j)
  <2>1. j - k \in Nat /\ k + (j - k) = j /\ j <= n /\ j \in 0..n
    BY <1>1
  <2>2. U[k] <= U[k + (j - k)] /\ U[k + (j - k)] - U[k] <= j - k
    BY <1>5, <2>1
  <2>3. U[k] \in Nat /\ U[j] \in Nat
    BY <1>1, <1>2, <2>1
  <2> HIDE DEF P
  <2> QED BY <2>1, <2>2, <2>3 DEF Growing
<1> QED BY <1>6 DEF n, U

\* The first k packets are answered, or their answers discarded.
LEMMA Shift ==
    ASSUME Types1, NEW u, Layout(u.Off, u.W), Underway(u), NEW k \in 0..Len(stream),
           stream' = SubSeq(stream, k + 1, Len(stream)),
           UNCHANGED requestVars, UNCHANGED <<call, resets>>, phase' # "sent"
    PROVE  StreamInv' /\ stream' \in Seq(Packet)
<1>1. /\ mNumPl2Pkt' = mNumPl2Pkt /\ mPl1CntOutstandingLast' = mPl1CntOutstandingLast
      /\ mPl0Trans' = mPl0Trans /\ mPl0NumTrans' = mPl0NumTrans /\ mRspSize' = mRspSize
      /\ call' = call /\ resets' = resets
  BY DEF requestVars
<1> DEFINE n == Len(stream)
<1>a. PICK m : m = Len(stream')
  OBVIOUS
<1>0. PICK V : V = [i \in 0..m |-> u.U[k + i]]
  OBVIOUS
<1>2. stream' \in Seq(Packet) /\ n \in Nat /\ m = n - k /\ \A i \in 1..m : (stream')[i] = stream[k + i]
  <2>1. stream \in Seq(Packet)
    BY Zenon DEF Types1
  <2> QED BY <1>a, <2>1, PacketsFrom
<1>3. m \in Nat /\ k + m = n /\ k \in Nat
  <2> HIDE DEF n
  <2>1. k \in 0..n
    BY DEF n
  <2> QED BY <1>2, <2>1
<1>4. /\ \A i \in 0..m : k + i \in 0..n
      /\ \A i \in 1..m : k + i \in 1..n /\ (k + i) - 1 = k + (i - 1) /\ i - 1 \in 0..m /\ i \in 0..m
      /\ m \in 0..m
  <2> HIDE DEF n
  <2> QED BY <1>2, <1>3
<1>5. u.U \in [0..n -> Nat] /\ u.U[n] = u.base + mNumPl2Pkt /\ u.base \in Nat
      /\ mPl1CntOutstandingLast = Cnt(u.base + mNumPl2Pkt)
  BY Zenon DEF Underway
<1> HIDE DEF n
<1>6. V \in [0..m -> Nat] /\ V[m] = u.base + mNumPl2Pkt
  <2>1. V \in [0..m -> Nat]
    BY <1>0, <1>4, <1>5, Zenon
  <2>2. V[m] = u.U[k + m]
    BY <1>0, <1>4, Zenon
  <2> QED BY <1>3, <1>5, <2>1, <2>2, Zenon
<1>7. ASSUME NEW i \in 1..m
      PROVE  /\ V[i] = IF (stream')[i].rq = 0 THEN V[i - 1] ELSE V[i - 1] + 1
             /\ (stream')[i].rq <= call
             /\ (stream')[i].rq # 0 => /\ (stream')[i].cnt = Cnt(V[i])
                                       /\ Len((stream')[i].acc) <= Len(mPl0Trans)
                                       /\ (stream')[i].rq = call <=> V[i] > u.base
                                       /\ (stream')[i].rq = call => Own((stream')[i], V[i] - u.base, u.base, u.Off)
             /\ resets = 0 => (stream')[i].rq # 0
  <2>1. k + i \in 1..n /\ V[i] = u.U[k + i] /\ V[i - 1] = u.U[(k + i) - 1] /\ (stream')[i] = stream[k + i]
    BY <1>0, <1>2, <1>4, Zenon
  <2> DEFINE x == k + i
  <2> HIDE DEF x
  <2>2. x \in 1..Len(stream)
    BY <2>1 DEF x, n
  <2>3. /\ u.U[x] = IF stream[x].rq = 0 THEN u.U[x - 1] ELSE u.U[x - 1] + 1
        /\ stream[x].rq <= call
        /\ stream[x].rq # 0 => /\ stream[x].cnt = Cnt(u.U[x])
                               /\ Len(stream[x].acc) <= Len(mPl0Trans)
                               /\ stream[x].rq = call <=> u.U[x] > u.base
                               /\ stream[x].rq = call => Own(stream[x], u.U[x] - u.base, u.base, u.Off)
        /\ resets = 0 => stream[x].rq # 0
    BY <2>2, Zenon DEF Underway
  <2> QED BY <2>1, <2>3, Zenon DEF x
<1>8. PICK v : v.base = u.base /\ v.U = V /\ v.Off = u.Off /\ v.W = u.W
  <2> DEFINE v == [base |-> u.base, U |-> V, Off |-> u.Off, W |-> u.W]
  <2>1. v.base = u.base /\ v.U = V /\ v.Off = u.Off /\ v.W = u.W
    OBVIOUS
  <2> QED BY <2>1
<1>9. Layout(v.Off, v.W)'
  BY <1>1, <1>8, Zenon DEF Layout
<1>10. Underway(v)'
  <2>1. phase' # "sent"
    OBVIOUS
  <2>2. \A q, y : Own(q, y, u.base, u.Off)' <=> Own(q, y, u.base, u.Off)
    BY <1>1, Zenon DEF Own
  <2>3. \A i \in 1..m :
            (stream')[i].rq # 0 /\ (stream')[i].rq = call => Own(stream[i], V[i] - u.base, u.base, u.Off)'
    BY <1>7, <2>2, Zenon
  <2> HIDE DEF Own
  <2> QED BY <1>1, <1>5, <1>6, <1>7, <1>8, <2>1, <2>3, <1>a, ZenonT(60) DEF Underway
<1> QED BY <1>2, <1>9, <1>10, Zenon DEF StreamInv

LEMMA TimeoutStep ==
    ASSUME IInv, Timeout
    PROVE  IInv'
<1>1. /\ phase = "sent" /\ phase' = "idle" /\ tas_err' = "SERVER_CON"
      /\ UNCHANGED requestVars /\ UNCHANGED <<call, resets>>
      /\ mPl0TransRsp' = mPl0TransRsp /\ mPl1CntOutstandingOldest' = mPl1CntOutstandingOldest
      /\ rsp' = rsp /\ p' = p
  BY Zenon DEF Timeout
<1>2. Types1 /\ StreamInv
  BY Zenon DEF IInv
<1>3. PICK k \in 0..(mNumPl2Pkt - 1) : k <= Len(stream) /\ stream' = SubSeq(stream, k + 1, Len(stream))
  BY Zenon DEF Timeout
<1>4. StreamInv' /\ stream' \in Seq(Packet)
  <2>1. PICK u : Layout(u.Off, u.W) /\ Underway(u)
    BY <1>2, Zenon DEF StreamInv
  <2>2. k \in 0..Len(stream)
    <3>1. stream \in Seq(Packet)
      BY <1>2, Zenon DEF Types1
    <3>2. Len(stream) \in Nat
      BY <3>1, LenProperties
    <3> DEFINE n == Len(stream)
    <3>3. n \in Nat /\ k <= n
      BY <1>3, <3>2
    <3>4. mNumPl2Pkt \in Nat
      BY <1>2, Zenon DEF Types1, Scalars
    <3> HIDE DEF n
    <3>5. k \in 0..n
      BY <3>3, <3>4
    <3> QED BY <3>5 DEF n
  <2>3. phase' # "sent"
    BY <1>1
  <2> QED BY <1>1, <1>2, <1>3, <2>1, <2>2, <2>3, Shift
<1>5. /\ mNumPl2Pkt' = mNumPl2Pkt /\ mPl1CntOutstandingLast' = mPl1CntOutstandingLast
      /\ mPl0Trans' = mPl0Trans /\ mPl0NumTrans' = mPl0NumTrans /\ mRspSize' = mRspSize
      /\ call' = call /\ resets' = resets
  BY <1>1 DEF requestVars
<1>6. Scalars'
  <2>1. phase' \in {"idle", "sent", "parse", "done", "merged"} /\ tas_err' \in TasErrs
        /\ phase' # "parse"
    BY <1>1 DEF TasErrs
  <2>2. phase' # "idle" => call' > 0
    BY <1>1
  <2> QED BY <1>2, <1>5, <2>1, <2>2, Zenon DEF Types1, Scalars
<1>7. Arrays' /\ Counts' /\ Parsed'
  BY <1>1, <1>2, <1>5, Zenon DEF Types1, Arrays, Counts, Parsed
<1>8. Fresh' /\ ParseInv' /\ DoneInv'
  <2>1. phase' # "sent" /\ phase' # "parse" /\ phase' # "done"
    BY <1>1
  <2> QED BY <2>1, NotDone, Zenon DEF Fresh, ParseInv
<1> QED BY <1>4, <1>6, <1>7, <1>8, Zenon DEF IInv, Types1

LEMMA PacketConcat ==
    ASSUME NEW s \in Seq(Packet), NEW t \in Seq(Packet)
    PROVE  /\ s \o t \in Seq(Packet) /\ Len(s \o t) = Len(s) + Len(t)
           /\ Len(s) \in Nat /\ Len(t) \in Nat
           /\ \A i \in 1..(Len(s) + Len(t)) :
                (s \o t)[i] = IF i <= Len(s) THEN s[i] ELSE t[i - Len(s)]
BY SMT

\* t is s with e behind the first at packets.
Longer(s, at, e, t) ==
    /\ t \in Seq(Packet) /\ Len(s) \in Nat /\ Len(t) = Len(s) + 1
    /\ \A i \in 1..Len(t) : t[i] = IF i <= at THEN s[i] ELSE IF i = at + 1 THEN e ELSE s[i - 1]

LEMMA Inserted ==
    ASSUME NEW s \in Seq(Packet), NEW at \in 0..Len(s), NEW e \in Packet
    PROVE  Longer(s, at, e, InsertAt(s, at + 1, e))
<1> DEFINE n == Len(s)
           t == InsertAt(s, at + 1, e)
           a == SubSeq(s, 1, at)
           b == SubSeq(s, at + 1, n)
<1>1. n \in Nat /\ at \in Nat /\ at <= n /\ (at + 1) - 1 = at
  BY SMT
<1>2. a \in Seq(Packet) /\ Len(a) = at /\ \A i \in 1..at : a[i] = s[i]
  BY PacketsTo
<1>3. b \in Seq(Packet) /\ Len(b) = n - at /\ \A i \in 1..Len(b) : b[i] = s[at + i]
  BY PacketsFrom
<1>4. t = (a \o <<e>>) \o b
  BY <1>1 DEF InsertAt
<1> HIDE DEF a, b, n
<1> DEFINE c == a \o <<e>>
<1>5. /\ c \in Seq(Packet) /\ Len(c) = at + 1
      /\ \A i \in 1..(at + 1) : c[i] = IF i <= at THEN s[i] ELSE e
  BY <1>1, <1>2, SMT
<1> HIDE DEF c
<1>6. t = c \o b
  BY <1>4 DEF c
<1> HIDE DEF t
<1>7. /\ t \in Seq(Packet) /\ Len(t) = (at + 1) + (n - at)
      /\ \A i \in 1..(at + 1) : t[i] = c[i]
      /\ \A i \in ((at + 1) + 1)..Len(t) : t[i] = b[i - (at + 1)]
  <2>1. /\ t \in Seq(Packet) /\ Len(t) = Len(c) + Len(b)
        /\ \A i \in 1..(Len(c) + Len(b)) : t[i] = IF i <= Len(c) THEN c[i] ELSE b[i - Len(c)]
    BY <1>3, <1>5, <1>6, PacketConcat, Zenon
  <2>2. Len(b) = n - at /\ Len(c) = at + 1
    BY <1>3, <1>5
  <2>3. Len(t) = (at + 1) + (n - at)
    BY <2>1, <2>2
  <2>4. \A i \in 1..Len(t) : t[i] = IF i <= at + 1 THEN c[i] ELSE b[i - (at + 1)]
    BY <2>1, <2>2, <2>3, Zenon
  <2>5. /\ \A i \in 1..(at + 1) : i \in 1..Len(t) /\ i <= at + 1
        /\ \A i \in ((at + 1) + 1)..Len(t) : i \in 1..Len(t) /\ ~(i <= at + 1)
    BY <1>1, <2>3
  <2> QED BY <2>1, <2>3, <2>4, <2>5, Zenon
<1>8. Len(t) = n + 1
  BY <1>1, <1>7
<1>9. ASSUME NEW i \in 1..Len(t)
      PROVE  t[i] = IF i <= at THEN s[i] ELSE IF i = at + 1 THEN e ELSE s[i - 1]
  <2>1. i \in 1..(n + 1)
    BY <1>8
  <2>2. CASE i <= at + 1
    <3>1. i \in 1..(at + 1)
      BY <1>1, <2>1, <2>2
    <3>2. t[i] = IF i <= at THEN s[i] ELSE e
      BY <1>5, <1>7, <3>1
    <3>3. ~(i <= at) => i = at + 1
      BY <1>1, <3>1
    <3> QED BY <3>2, <3>3
  <2>3. CASE ~(i <= at + 1)
    <3>1. /\ i \in ((at + 1) + 1)..Len(t) /\ i - (at + 1) \in 1..Len(b) /\ at + (i - (at + 1)) = i - 1
          /\ ~(i <= at) /\ i # at + 1
      BY <1>1, <1>3, <1>8, <2>1, <2>3
    <3>2. t[i] = b[i - (at + 1)] /\ b[i - (at + 1)] = s[at + (i - (at + 1))]
      BY <1>3, <1>7, <3>1
    <3> QED BY <3>1, <3>2
  <2> QED BY <2>2, <2>3
<1> QED BY <1>1, <1>7, <1>8, <1>9 DEF n, t, Longer

LEMMA ResetStep ==
    ASSUME IInv, DeviceReset
    PROVE  IInv'
<1>1. /\ resets' = resets + 1 /\ UNCHANGED requestVars /\ call' = call
      /\ mPl0TransRsp' = mPl0TransRsp /\ mPl1CntOutstandingOldest' = mPl1CntOutstandingOldest
      /\ rsp' = rsp /\ p' = p /\ phase' = phase /\ tas_err' = tas_err
  BY Zenon DEF DeviceReset
<1>2. Types1 /\ StreamInv
  BY Zenon DEF IInv
<1>3. /\ mNumPl2Pkt' = mNumPl2Pkt /\ mPl1CntOutstandingLast' = mPl1CntOutstandingLast
      /\ mPl0Trans' = mPl0Trans /\ mPl0NumTrans' = mPl0NumTrans /\ mRspSize' = mRspSize
  BY <1>1 DEF requestVars
<1>4. resets' \in Nat /\ resets' # 0
  <2>1. resets \in Nat
    BY <1>2, Zenon DEF Types1, Scalars
  <2> QED BY <1>1, <2>1
<1>5. PICK e : e = [rq |-> 0, cnt |-> 0, acc |-> <<>>]
  OBVIOUS
<1>6. e \in Packet /\ e.rq = 0
  <2>1. <<>> \in Seq(Pl0Access)
    BY SMT
  <2> QED BY <1>5, <2>1 DEF Packet
<1>7. PICK at \in 0..Len(stream) : stream' = InsertAt(stream, at + 1, e)
  BY <1>5, Zenon DEF DeviceReset
<1> DEFINE n == Len(stream)
<1>8. /\ stream' \in Seq(Packet) /\ n \in Nat /\ Len(stream') = n + 1
      /\ \A i \in 1..Len(stream') :
            (stream')[i] = IF i <= at THEN stream[i] ELSE IF i = at + 1 THEN e ELSE stream[i - 1]
  <2>1. stream \in Seq(Packet)
    BY <1>2, Zenon DEF Types1
  <2>2. Longer(stream, at, e, stream')
    BY <1>6, <1>7, <2>1, Inserted, Zenon
  <2> QED BY <2>2, Zenon DEF Longer
<1>9. StreamInv'
  <2>1. PICK u : Layout(u.Off, u.W) /\ Underway(u)
    BY <1>2, Zenon DEF StreamInv
  <2>2. /\ u.base \in Nat /\ mPl1CntOutstandingLast = Cnt(u.base + mNumPl2Pkt)
        /\ u.U \in [0..n -> Nat] /\ u.U[n] = u.base + mNumPl2Pkt
        /\ phase = "sent" => u.U[0] <= u.base /\ mPl1CntOutstandingOldest = Cnt(u.base + 1)
    BY <2>1, Zenon DEF Underway
  <2>a. PICK m : m = Len(stream')
    OBVIOUS
  <2>3. PICK V : V = [i \in 0..m |-> IF i <= at THEN u.U[i] ELSE u.U[i - 1]]
    OBVIOUS
  <2>4. at \in Nat /\ at <= n /\ m = n + 1 /\ m \in Nat /\ n \in Nat
    BY <1>7, <1>8, <2>a
  <2> HIDE DEF n
  <2>5. /\ \A i \in 0..m : (i <= at => i \in 0..n) /\ (~(i <= at) => i - 1 \in 0..n)
        /\ m \in 0..m /\ ~(m <= at) /\ m - 1 = n /\ 0 \in 0..m /\ 0 <= at
    BY <1>8, <2>4
  <2>6. V \in [0..m -> Nat] /\ V[m] = u.base + mNumPl2Pkt /\ V[0] = u.U[0]
    <3>1. V \in [0..m -> Nat]
      BY <2>2, <2>3, <2>5, Zenon
    <3>2. V[m] = u.U[m - 1] /\ V[0] = u.U[0]
      BY <2>3, <2>5, Zenon
    <3> QED BY <2>2, <2>5, <3>1, <3>2, Zenon
  <2>7. ASSUME NEW i \in 1..m
        PROVE  /\ V[i] = IF (stream')[i].rq = 0 THEN V[i - 1] ELSE V[i - 1] + 1
               /\ (stream')[i].rq <= call
               /\ (stream')[i].rq # 0 => /\ (stream')[i].cnt = Cnt(V[i])
                                         /\ Len((stream')[i].acc) <= Len(mPl0Trans)
                                         /\ (stream')[i].rq = call <=> V[i] > u.base
                                         /\ (stream')[i].rq = call => Own((stream')[i], V[i] - u.base, u.base, u.Off)
    <3>1. i \in 0..m /\ i - 1 \in 0..m /\ i \in Nat
      BY <2>4
    <3>2. CASE i = at + 1
      <4>1. (stream')[i] = e /\ ~(i <= at) /\ i - 1 <= at
        BY <1>8, <2>4, <2>a, <3>1, <3>2
      <4>2. V[i] = u.U[i - 1] /\ V[i - 1] = u.U[i - 1]
        BY <2>3, <3>1, <4>1, Zenon
      <4>3. call \in Nat
        BY <1>2, Zenon DEF Types1, Scalars
      <4>4. e.rq <= call
        BY <1>6, <4>3
      <4> QED BY <1>6, <4>1, <4>2, <4>4, Zenon
    <3>3. CASE i # at + 1
      <4>1. PICK x \in 1..n : (stream')[i] = stream[x] /\ V[i] = u.U[x] /\ V[i - 1] = u.U[x - 1]
        <5>1. CASE i <= at
          <6>1. i - 1 <= at /\ i \in 1..n
            BY <2>4, <3>1, <5>1
          <6>2. (stream')[i] = stream[i]
            BY <1>8, <2>a, <5>1, Zenon
          <6>3. V[i] = u.U[i] /\ V[i - 1] = u.U[i - 1]
            BY <2>3, <3>1, <5>1, <6>1, Zenon
          <6> QED BY <6>1, <6>2, <6>3, Zenon
        <5>2. CASE ~(i <= at)
          <6>1. ~(i - 1 <= at) /\ i - 1 \in 1..n
            BY <2>4, <3>1, <3>3, <5>2
          <6>2. (stream')[i] = stream[i - 1]
            BY <1>8, <2>a, <3>3, <5>2, Zenon
          <6>3. V[i] = u.U[i - 1] /\ V[i - 1] = u.U[(i - 1) - 1]
            BY <2>3, <3>1, <5>2, <6>1, Zenon
          <6> QED BY <6>1, <6>2, <6>3, Zenon
        <5> QED BY <5>1, <5>2
      <4>2. /\ u.U[x] = IF stream[x].rq = 0 THEN u.U[x - 1] ELSE u.U[x - 1] + 1
            /\ stream[x].rq <= call
            /\ stream[x].rq # 0 => /\ stream[x].cnt = Cnt(u.U[x])
                                   /\ Len(stream[x].acc) <= Len(mPl0Trans)
                                   /\ stream[x].rq = call <=> u.U[x] > u.base
                                   /\ stream[x].rq = call => Own(stream[x], u.U[x] - u.base, u.base, u.Off)
        BY <2>1, <4>1, Zenon DEF Underway, n
      <4> QED BY <4>1, <4>2, Zenon
    <3> QED BY <3>2, <3>3
  <2>8. PICK v : v.base = u.base /\ v.U = V /\ v.Off = u.Off /\ v.W = u.W
    <3> DEFINE v == [base |-> u.base, U |-> V, Off |-> u.Off, W |-> u.W]
    <3>1. v.base = u.base /\ v.U = V /\ v.Off = u.Off /\ v.W = u.W
      OBVIOUS
    <3> QED BY <3>1
  <2>9. Layout(v.Off, v.W)'
    BY <1>3, <2>1, <2>8, Zenon DEF Layout
  <2>10. Underway(v)'
    <3>1. \A q, y : Own(q, y, u.base, u.Off)' <=> Own(q, y, u.base, u.Off)
      BY <1>3, Zenon DEF Own
    <3>2. \A i \in 1..m :
              (stream')[i].rq # 0 /\ (stream')[i].rq = call => Own(stream[i], V[i] - u.base, u.base, u.Off)'
      BY <2>7, <3>1, Zenon
    <3> HIDE DEF Own
    <3> QED BY <1>1, <1>3, <1>4, <2>2, <2>6, <2>7, <2>8, <2>a, <3>2, ZenonT(60) DEF Underway
  <2> QED BY <2>9, <2>10, Zenon DEF StreamInv
<1>10. Types1'
  BY <1>1, <1>2, <1>3, <1>4, <1>8, Zenon DEF Types1, Scalars, Arrays, Counts, Parsed
<1>11. Fresh'
  <2>1. Fresh
    BY Zenon DEF IInv
  <2> QED BY <1>1, <1>3, <2>1, Zenon DEF Fresh
<1>12. ParseInv'
  <2> SUFFICES ASSUME phase' = "parse" PROVE ParseInv'
    BY Zenon DEF ParseInv
  <2>1. PICK g : Response(g) /\ \E k, j : At(g, k, j)
    BY <1>1, Zenon DEF IInv, ParseInv
  <2>2. PICK k, j : At(g, k, j)
    BY <2>1, Zenon
  <2>3. Response(g)'
    <3>1. Layout(g.Off, g.W) => Layout(g.Off, g.W)'
      BY <1>3, Zenon DEF Layout
    <3>2. Taken(g.base, g.Off, g.qs, g.Y) => Taken(g.base, g.Off, g.qs, g.Y)'
      BY <1>1, <1>3, <1>4, Zenon DEF Taken, Own, Stale
    <3> QED BY <1>3, <2>1, <3>1, <3>2, Zenon DEF Response
  <2>4. At(g, k, j)'
    <3>1. Entries(p.iTrans) => Entries(p.iTrans)'
      BY <1>1, <1>3, Zenon DEF Entries, FirstFailure, Failed, ErrorOf
    <3>2. \A q : Stale(q)' <=> Stale(q)
      BY <1>1, Zenon DEF Stale
    <3> HIDE DEF Stale, Entries
    <3>3. Within(g, k, j)'
      BY <1>3, <2>2, WithinStays, Zenon DEF At
    <3> QED BY <1>1, <1>3, <1>4, <2>2, <3>1, <3>2, <3>3, ZenonT(60) DEF At
  <2> QED BY <2>3, <2>4, Zenon DEF ParseInv
<1>13. DoneInv'
  <2>1. DoneInv
    BY Zenon DEF IInv
  <2>2. SuccessIsOwn'
    BY <1>1, <1>3, <2>1, Zenon DEF DoneInv, SuccessIsOwn, Success, Trans, Failed
  <2>3. SuccessIsComplete'
    BY <1>4, Zenon DEF SuccessIsComplete
  <2>4. FirstErrorWins'
    BY <1>1, <1>3, <2>1, Zenon DEF DoneInv, FirstErrorWins, Trans, Failed, ErrorOf
  <2>5. (phase = "done" /\ tas_err = "SERVER_CON" => \E i \in DOMAIN rsp : rsp[i].rq # call)'
    BY <1>1, <2>1, Zenon DEF DoneInv
  <2> QED BY <2>2, <2>3, <2>4, <2>5, Zenon DEF DoneInv
<1> QED BY <1>9, <1>10, <1>11, <1>12, <1>13, Zenon DEF IInv

LEMMA MergeStep ==
    ASSUME IInv, rw_get_trans_rsp
    PROVE  IInv'
<1>1. /\ phase' = "merged" /\ (phase = "done" \/ call > 0)
      /\ UNCHANGED requestVars /\ UNCHANGED <<call, stream, resets>>
      /\ mPl0TransRsp' = mPl0TransRsp /\ mPl1CntOutstandingOldest' = mPl1CntOutstandingOldest
      /\ rsp' = rsp /\ p' = p /\ tas_err' = tas_err
  BY Zenon DEF rw_get_trans_rsp
<1>2. Types1 /\ StreamInv
  BY Zenon DEF IInv
<1>3. phase' # "sent" /\ phase' # "parse" /\ phase' # "done"
  BY <1>1
<1>4. StreamInv'
  BY <1>1, <1>2, <1>3, StreamStays, Zenon
<1>5. /\ mNumPl2Pkt' = mNumPl2Pkt /\ mPl1CntOutstandingLast' = mPl1CntOutstandingLast
      /\ mPl0Trans' = mPl0Trans /\ mPl0NumTrans' = mPl0NumTrans /\ mRspSize' = mRspSize
      /\ call' = call /\ resets' = resets /\ stream' = stream
  BY <1>1 DEF requestVars
<1>6. Scalars'
  <2>1. call > 0 /\ phase' \in {"idle", "sent", "parse", "done", "merged"}
    <3>1. phase = "done" => phase # "idle"
      OBVIOUS
    <3> QED BY <1>1, <1>2, <3>1 DEF Types1, Scalars
  <2> QED BY <1>1, <1>2, <1>3, <1>5, <2>1, Zenon DEF Types1, Scalars
<1>7. Types1'
  BY <1>1, <1>2, <1>5, <1>6, Zenon DEF Types1, Arrays, Counts, Parsed
<1>8. Fresh' /\ ParseInv' /\ DoneInv'
  BY <1>3, NotDone, Zenon DEF Fresh, ParseInv
<1> QED BY <1>4, <1>7, <1>8, Zenon DEF IInv

LEMMA InitInv ==
    ASSUME Init
    PROVE  IInv
<1>1. /\ mPl0Trans = <<>> /\ mPl0TransRsp = <<>> /\ mPl0NumTrans = 0 /\ mNumPl2Pkt = 0 /\ mRspSize = 0
      /\ mPl1CntOutstandingLast = FirstCnt /\ mPl1CntOutstandingOldest = Inc16(FirstCnt)
      /\ tas_err = "NONE" /\ phase = "idle" /\ rsp = <<>> /\ p = [wi |-> 0, next |-> 0, iTrans |-> 0]
      /\ call = 0 /\ stream = <<>> /\ resets = 0
  BY Zenon DEF Init
<1>2. FirstCnt \in UInt16
  BY ConstantAssumption
<1>3. Types1
  <2>1. Scalars
    BY <1>1 DEF Scalars, TasErrs
  <2>2. Arrays
    <3>1. <<>> \in Seq(TransEntry) /\ <<>> \in Seq(Result) /\ Len(<<>>) = 0
      BY SMT
    <3>2. \A i \in 1..0 : FALSE
      OBVIOUS
    <3>3. 0 <= 0
      OBVIOUS
    <3> QED BY <1>1, <3>1, <3>2, <3>3, Zenon DEF Arrays
  <2>3. Counts
    BY <1>1, <1>2, Inc16Type DEF Counts
  <2>4. Parsed
    BY <1>1 DEF Parsed
  <2>5. stream \in Seq(Packet)
    BY <1>1
  <2> QED BY <2>1, <2>2, <2>3, <2>4, <2>5, Zenon DEF Types1
<1>4. StreamInv
  <2>1. PICK u : u.base = FirstCnt /\ u.U = [i \in 0..0 |-> FirstCnt] /\ u.Off = [i \in 0..0 |-> 0] /\ u.W = [i \in 0..0 |-> 0]
    <3> DEFINE u == [base |-> FirstCnt, U |-> [i \in 0..0 |-> FirstCnt], Off |-> [i \in 0..0 |-> 0], W |-> [i \in 0..0 |-> 0]]
    <3>1. u.base = FirstCnt /\ u.U = [i \in 0..0 |-> FirstCnt] /\ u.Off = [i \in 0..0 |-> 0] /\ u.W = [i \in 0..0 |-> 0]
      OBVIOUS
    <3> QED BY <3>1
  <2>2. 0 \in 0..0 /\ (\A i \in 1..0 : FALSE) /\ (\A i \in 0..0 : i = 0)
    OBVIOUS
  <2>3. Layout(u.Off, u.W)
    <3>1. 3 * 0 + 0 = 0 /\ 0 <= 0
      OBVIOUS
    <3>2. u.Off[0] = 0 /\ u.W[0] = 0 /\ u.Off \in [0..0 -> Nat] /\ u.W \in [0..0 -> Nat]
      BY <2>1, <2>2
    <3> QED BY <1>1, <2>2, <3>1, <3>2, Zenon DEF Layout
  <2>4. Underway(u)
    <3>1. FirstCnt \in Nat /\ FirstCnt + 0 = FirstCnt /\ Cnt(FirstCnt) = FirstCnt
      BY <1>2 DEF UInt16, Cnt
    <3>2. Len(stream) = 0
      BY <1>1
    <3>3. u.U \in [0..0 -> Nat] /\ u.U[0] = FirstCnt
      BY <2>1, <2>2, <3>1
    <3>4. phase # "sent"
      BY <1>1
    <3> QED BY <1>1, <2>1, <2>2, <3>1, <3>2, <3>3, <3>4, Zenon DEF Underway
  <2> QED BY <2>3, <2>4, Zenon DEF StreamInv
<1>5. Fresh /\ ParseInv /\ DoneInv
  <2>1. phase # "sent" /\ phase # "parse" /\ phase # "done"
    BY <1>1
  <2> QED BY <2>1, Zenon DEF Fresh, ParseInv, DoneInv, SuccessIsOwn, SuccessIsComplete, FirstErrorWins, Success
<1> QED BY <1>3, <1>4, <1>5, Zenon DEF IInv

\* The packets whose answers come next, seen from the running call.
LEMMA TakenFrom ==
    ASSUME Types1, phase = "sent", FewUnderway, mNumPl2Pkt <= Len(stream),
           NEW u, Layout(u.Off, u.W), Underway(u)
    PROVE  \E Y : Taken(u.base, u.Off, SubSeq(stream, 1, mNumPl2Pkt), Y)
<1> DEFINE n == mNumPl2Pkt
           L == Len(stream)
           U == u.U
           b == u.base
           qs == SubSeq(stream, 1, n)
           Y == [k \in 0..n |-> IF U[k] <= b THEN 0 ELSE U[k] - b]
<1>1. n \in Nat /\ L \in Nat /\ n <= L /\ L < 65536 /\ n > 0 /\ b \in Nat /\ stream \in Seq(Packet) /\ call > 0 /\ call \in Nat
  <2>1. stream \in Seq(Packet) /\ n \in Nat /\ call \in Nat
    BY Zenon DEF Types1, Scalars
  <2>2. call > 0 /\ n > 0
    <3>1. phase # "idle"
      OBVIOUS
    <3> QED BY <3>1, Zenon DEF Types1, Scalars
  <2>3. b \in Nat
    BY Zenon DEF Underway
  <2>4. L \in Nat
    BY <2>1, LenProperties
  <2> QED BY <2>1, <2>2, <2>3, <2>4 DEF FewUnderway
<1>2. U \in [0..L -> Nat] /\ U[L] = b + n /\ U[0] <= b
  BY Zenon DEF Underway
<1>3. qs \in Seq(Packet) /\ Len(qs) = n /\ \A k \in 1..n : qs[k] = stream[k]
  <2>1. n \in 0..Len(stream)
    BY <1>1
  <2> QED BY <1>1, <2>1, PacketsTo
<1> HIDE DEF n, L, U, b, qs
<1>4. \A k \in 0..n : k \in 0..L /\ L \in k..L
  BY <1>1
<1>5. \A k \in 0..n : U[k] \in Nat /\ U[k] <= b + n /\ (b + n) - U[k] <= L - k
  <2> SUFFICES ASSUME NEW k \in 0..n PROVE U[k] \in Nat /\ U[k] <= b + n /\ (b + n) - U[k] <= L - k
    OBVIOUS
  <2>1. Growing(u.U, k, Len(stream))
    BY <1>4, CountsGrow DEF L
  <2> QED BY <1>2, <2>1 DEF Growing, U, L
<1>6. Y \in [0..n -> 0..n]
  <2> SUFFICES ASSUME NEW k \in 0..n PROVE (IF U[k] <= b THEN 0 ELSE U[k] - b) \in 0..n
    OBVIOUS
  <2>1. U[k] \in Nat /\ U[k] <= b + n
    BY <1>5
  <2> QED BY <1>1, <2>1
<1>7. Y[0] = 0
  BY <1>1, <1>2
<1>8. \A k \in 1..n : k \in 1..L /\ k \in 0..n /\ k - 1 \in 0..n /\ k \in Nat
  BY <1>1
<1>9. ASSUME NEW k \in 1..n
      PROVE  /\ qs[k].rq = call => Y[k] = Y[k - 1] + 1 /\ Own(qs[k], Y[k], b, u.Off)
             /\ qs[k].rq # call => Y[k] = Y[k - 1]
             /\ Stale(qs[k]) => /\ Y[k - 1] = 0 /\ qs[k].cnt # Cnt(b + 1)
                                /\ Len(qs[k].acc) <= Len(mPl0Trans)
             /\ resets = 0 => qs[k].rq # 0
  <2>1. qs[k] = stream[k]
    BY <1>3
  <2>2. /\ U[k] = IF stream[k].rq = 0 THEN U[k - 1] ELSE U[k - 1] + 1
        /\ stream[k].rq # 0 => /\ stream[k].cnt = Cnt(U[k])
                               /\ Len(stream[k].acc) <= Len(mPl0Trans)
                               /\ stream[k].rq = call <=> U[k] > b
                               /\ stream[k].rq = call => Own(stream[k], U[k] - b, b, u.Off)
        /\ resets = 0 => stream[k].rq # 0
    BY <1>8, Zenon DEF Underway, U, L, b
  <2>3. U[k] \in Nat /\ U[k - 1] \in Nat /\ U[k] <= b + n /\ (b + n) - U[k] <= L - k
    BY <1>5, <1>8
  <2>4. Y[k] = (IF U[k] <= b THEN 0 ELSE U[k] - b) /\ Y[k - 1] = (IF U[k - 1] <= b THEN 0 ELSE U[k - 1] - b)
    BY <1>8, Zenon
  <2> DEFINE y == Y[k]
             x == Y[k - 1]
  <2> HIDE DEF Y, y, x
  <2>5. y = (IF U[k] <= b THEN 0 ELSE U[k] - b) /\ x = (IF U[k - 1] <= b THEN 0 ELSE U[k - 1] - b)
    BY <2>4 DEF y, x
  <2>6. CASE stream[k].rq = 0
    <3>1. U[k] = U[k - 1] /\ call # 0
      BY <1>1, <2>2, <2>6
    <3>2. y = x /\ stream[k].rq # call /\ ~Stale(stream[k])
      BY <2>5, <2>6, <3>1 DEF Stale
    <3> QED BY <2>1, <2>2, <3>2, Zenon DEF x, y
  <2>7. CASE stream[k].rq = call
    <3>1. stream[k].rq # 0
      BY <1>1, <2>7
    <3>2. U[k] = U[k - 1] + 1 /\ U[k] > b /\ Own(stream[k], U[k] - b, b, u.Off)
      BY <2>2, <2>7, <3>1, Zenon
    <3>3. y = U[k] - b /\ y = x + 1
      <4> DEFINE a == U[k]
                 c == U[k - 1]
      <4>1. /\ a \in Nat /\ c \in Nat /\ a = c + 1 /\ a > b /\ b \in Nat
            /\ y = (IF a <= b THEN 0 ELSE a - b) /\ x = (IF c <= b THEN 0 ELSE c - b)
        BY <1>1, <2>3, <2>5, <3>2
      <4> HIDE DEF a, c
      <4>2. y = a - b /\ y = x + 1
        BY <4>1
      <4> QED BY <4>2 DEF a
    <3>4. ~Stale(stream[k])
      BY <2>7, Zenon DEF Stale
    <3> QED BY <2>1, <2>2, <2>7, <3>2, <3>3, <3>4, Zenon DEF x, y
  <2>8. CASE stream[k].rq # 0 /\ stream[k].rq # call
    <3>1. U[k] = U[k - 1] + 1 /\ ~(U[k] > b)
      BY <2>2, <2>8, Zenon
    <3>2. y = 0 /\ x = 0
      BY <1>1, <2>3, <2>5, <3>1
    <3>3. U[k] < b + 1 /\ (b + 1) - U[k] < 65536 /\ b + 1 \in Nat
      BY <1>1, <1>8, <2>3, <3>1
    <3>4. Cnt(U[k]) # Cnt(b + 1)
      BY <2>3, <3>3, CntsDiffer
    <3> QED BY <2>1, <2>2, <2>8, <3>2, <3>4, Zenon DEF x, y
  <2> QED BY <2>6, <2>7, <2>8
<1> HIDE DEF Y
<1>10. Taken(b, u.Off, qs, Y)
  BY <1>3, <1>6, <1>7, <1>9, Zenon DEF Taken, n
<1> QED BY <1>10 DEF b, qs, n

LEMMA SumsEmpty == NumWords(<<>>) = 0
<1>1. <<>> \in Seq(Piece) /\ Len(<<>>) = 0
  BY SMT
<1>2. PICK D : Sums(<<>>, D) /\ NumWords(<<>>) = D[0]
  BY <1>1, NumWordsSums
<1> QED BY <1>2 DEF Sums

\* A response of nothing but answers to this call is not longer than expected.
LEMMA SizeAdmitted ==
    ASSUME Types1, call > 0, NEW g, Response(g),
           \A i \in 1..Len(g.R[0]) : g.R[0][i].rq = call
    PROVE  NumWords(g.R[0]) <= mRspSize
<1> DEFINE n == mNumPl2Pkt
           N == mPl0NumTrans
           R == g.R
           A == g.A
<1>1. n \in Nat /\ N \in Nat /\ mRspSize \in Nat
  BY Zenon DEF Types1, Scalars
<1>2. /\ A \in [1..n -> Seq(Piece)] /\ R \in [0..n -> Seq(Piece)] /\ R[n] = <<>>
      /\ \A k \in 1..n : R[k - 1] = A[k] \o R[k]
  BY Zenon DEF Response, Behind
<1> DEFINE P == {k \in Nat : k <= n => \A i \in 1..Len(R[k]) : R[k][i].rq = call}
<1>3. 0 \in P
  BY Zenon
<1> HIDE DEF n, R, A
<1>4. ASSUME NEW k \in P PROVE k + 1 \in P
  <2>1. k \in Nat /\ k + 1 \in Nat
    OBVIOUS
  <2>2. ASSUME k + 1 <= n PROVE \A i \in 1..Len(R[k + 1]) : R[k + 1][i].rq = call
    <3>1. k + 1 \in 1..n /\ (k + 1) - 1 = k /\ k <= n /\ k + 1 \in 0..n
      BY <1>1, <2>1, <2>2 DEF n
    <3>2. R[k] = A[k + 1] \o R[k + 1] /\ A[k + 1] \in Seq(Piece) /\ R[k + 1] \in Seq(Piece)
      BY <1>2, <3>1
    <3>3. \A i \in 1..Len(R[k]) : R[k][i].rq = call
      BY <2>1, <3>1
    <3> SUFFICES ASSUME NEW i \in 1..Len(R[k + 1]) PROVE R[k + 1][i].rq = call
      BY Zenon
    <3> DEFINE a == Len(A[k + 1])
               r == Len(R[k + 1])
    <3>4. a \in Nat /\ r \in Nat /\ Len(R[k]) = a + r /\ R[k][a + i] = R[k + 1][i]
      <4> DEFINE s == A[k + 1]
                 t == R[k + 1]
      <4>1. s \in Seq(Piece) /\ t \in Seq(Piece) /\ R[k] = s \o t
        BY <3>2
      <4> HIDE DEF s, t
      <4>2. /\ Len(s) \in Nat /\ Len(t) \in Nat /\ Len(s \o t) = Len(s) + Len(t)
            /\ \A x \in 1..Len(t) : (s \o t)[Len(s) + x] = t[x]
        BY <4>1, PiecesAt, Zenon
      <4> QED BY <4>1, <4>2 DEF s, t
    <3>5. a + i \in 1..Len(R[k])
      <4> HIDE DEF a
      <4>1. i \in 1..r
        OBVIOUS
      <4> HIDE DEF r
      <4> QED BY <3>4, <4>1
    <3> QED BY <3>3, <3>4, <3>5, Zenon
  <2> QED BY <2>1, <2>2
<1>5. \A k \in Nat : k \in P
  <2>1. P \in SUBSET Nat /\ \A k \in P : k + 1 \in P
    BY <1>4
  <2> HIDE DEF P
  <2> QED BY <1>3, <2>1, SetInduction
<1>6. \A k \in 1..n : g.qs[k].rq = call
  <2> SUFFICES ASSUME NEW k \in 1..n PROVE g.qs[k].rq = call
    BY Zenon
  <2>1. k - 1 \in Nat /\ k - 1 <= n
    BY <1>1 DEF n
  <2>2. \A i \in 1..Len(R[k - 1]) : R[k - 1][i].rq = call
    BY <1>5, <2>1
  <2>3. Typed(g, k)
    BY ResponseTypes, Zenon DEF n
  <2>4. /\ g.A[k] \in Seq(Piece) /\ g.R[k] \in Seq(Piece) /\ g.R[k - 1] = g.A[k] \o g.R[k]
        /\ AnswerTo(g.qs[k], g.A[k]) /\ Len(g.A[k]) \in Nat /\ Len(g.A[k]) >= 1
    BY <2>3, Zenon DEF Typed
  <2> DEFINE s == g.A[k]
             t == g.R[k]
  <2>5. s \in Seq(Piece) /\ t \in Seq(Piece) /\ R[k - 1] = s \o t
    BY <2>4 DEF R
  <2>6. 1 \in 1..Len(s) /\ s[1].rq = g.qs[k].rq
    <3>1. 1 \in 1..Len(s)
      BY <2>4
    <3> QED BY <2>4, <3>1, Zenon DEF AnswerTo
  <2> HIDE DEF s, t
  <2>7. /\ Len(s) \in Nat /\ Len(t) \in Nat /\ Len(s \o t) = Len(s) + Len(t)
        /\ \A x \in 1..Len(s) : (s \o t)[x] = s[x]
    BY <2>5, PiecesAt, Zenon
  <2>8. 1 \in 1..Len(R[k - 1]) /\ R[k - 1][1] = s[1]
    BY <2>5, <2>6, <2>7
  <2> QED BY <2>2, <2>6, <2>8, Zenon
<1>7. /\ g.Y \in [0..n -> 0..n] /\ g.Y[0] = 0
      /\ \A k \in 1..n : g.Y[k] = g.Y[k - 1] + 1 /\ Own(g.qs[k], g.Y[k], g.base, g.Off)
  BY <1>6, Zenon DEF Response, Taken, n
<1> DEFINE Q == {k \in Nat : k <= n => g.Y[k] = k}
<1>8. \A k \in Nat : k \in Q
  <2>1. 0 \in Q
    BY <1>7
  <2>2. ASSUME NEW k \in Q PROVE k + 1 \in Q
    <3>1. k \in Nat /\ k + 1 \in Nat
      OBVIOUS
    <3>2. ASSUME k + 1 <= n PROVE g.Y[k + 1] = k + 1
      <4>1. k + 1 \in 1..n /\ (k + 1) - 1 = k /\ k <= n
        BY <1>1, <3>1, <3>2 DEF n
      <4>2. g.Y[k] = k
        BY <3>1, <4>1
      <4>3. g.Y[k + 1] = g.Y[(k + 1) - 1] + 1
        BY <1>7, <4>1
      <4> QED BY <4>1, <4>2, <4>3
    <3> QED BY <3>1, <3>2
  <2>3. Q \in SUBSET Nat /\ \A k \in Q : k + 1 \in Q
    BY <2>2
  <2> HIDE DEF Q
  <2> QED BY <2>1, <2>3, SetInduction
<1> DEFINE W == g.W
           Off == g.Off
<1>9. /\ Off \in [0..n -> Nat] /\ Off[n] = N /\ Off[0] = 0 /\ W \in [0..N -> Nat] /\ W[0] = 0
      /\ mRspSize = 3 * n + W[N] /\ Layout(g.Off, g.W)
      /\ \A y \in 0..n : Off[y] <= N
  BY Zenon DEF Response, Layout, n
<1> HIDE DEF W, Off, N, P, Q
<1>10. ASSUME NEW k \in 1..n
       PROVE  /\ NumWords(A[k]) <= 3 + (W[Off[k]] - W[Off[k - 1]])
              /\ NumWords(A[k]) \in Nat /\ W[Off[k]] \in Nat /\ W[Off[k - 1]] \in Nat
  <2>1. Typed(g, k)
    BY ResponseTypes, Zenon DEF n
  <2>2. g.qs[k] \in Packet /\ AnswerTo(g.qs[k], g.A[k])
    BY <2>1, Zenon DEF Typed
  <2>3. k \in Nat /\ k <= n
    BY <1>1 DEF n
  <2>4. g.Y[k] = k
    BY <1>8, <2>3 DEF Q
  <2>5. Own(g.qs[k], k, g.base, g.Off)
    BY <1>7, <2>4
  <2>6. /\ NumWords(g.A[k]) <= PacketWords(g.Off, g.W, k) /\ NumWords(g.A[k]) \in Nat
        /\ g.W[g.Off[k]] \in Nat /\ g.W[g.Off[k - 1]] \in Nat
    BY <1>9, <2>2, <2>5, OwnSize, Zenon
  <2> QED BY <2>6 DEF PacketWords, A, W, Off
<1> DEFINE S == {d \in Nat : d <= n => NumWords(R[n - d]) + W[Off[n - d]] <= 3 * d + W[N]}
<1>11. \A d \in Nat : d \in S
  <2>0. n \in Nat /\ N \in Nat
    BY <1>1 DEF n, N
  <2>1. 0 \in S
    <3>1. NumWords(<<>>) = 0
      BY SumsEmpty
    <3>2. n - 0 = n /\ W[N] \in Nat
      BY <1>9, <2>0
    <3>3. NumWords(R[n]) + W[Off[n]] <= 3 * 0 + W[N]
      BY <1>2, <1>9, <3>1, <3>2
    <3> QED BY <3>2, <3>3
  <2>2. ASSUME NEW d \in S PROVE d + 1 \in S
    <3>1. d \in Nat /\ d + 1 \in Nat
      OBVIOUS
    <3>2. ASSUME d + 1 <= n PROVE NumWords(R[n - (d + 1)]) + W[Off[n - (d + 1)]] <= 3 * (d + 1) + W[N]
      <4> DEFINE k == n - d
      <4>1. k \in 1..n /\ n - (d + 1) = k - 1 /\ d <= n /\ k \in 0..n /\ N \in 0..N
        BY <2>0, <3>1, <3>2
      <4>2. NumWords(R[k]) + W[Off[k]] <= 3 * d + W[N]
        BY <3>1, <4>1
      <4> HIDE DEF k, S
      <4>3. R[k - 1] = A[k] \o R[k] /\ A[k] \in Seq(Piece) /\ R[k] \in Seq(Piece)
        BY <1>2, <4>1
      <4>4. NumWords(R[k - 1]) = NumWords(A[k]) + NumWords(R[k]) /\ NumWords(R[k]) \in Nat
        BY <4>3, NumWordsConcat
      <4>5. /\ NumWords(A[k]) <= 3 + (W[Off[k]] - W[Off[k - 1]])
            /\ NumWords(A[k]) \in Nat /\ W[Off[k]] \in Nat /\ W[Off[k - 1]] \in Nat
        BY <1>10, <4>1
      <4>6. W[N] \in Nat
        BY <1>9, <4>1
      <4>7. NumWords(R[k - 1]) + W[Off[k - 1]] <= 3 * (d + 1) + W[N]
        <5> DEFINE a == NumWords(A[k])
                   r == NumWords(R[k])
                   q == NumWords(R[k - 1])
                   x == W[Off[k]]
                   y == W[Off[k - 1]]
                   z == W[N]
        <5>1. /\ a \in Nat /\ r \in Nat /\ x \in Nat /\ y \in Nat /\ z \in Nat /\ q = a + r
              /\ r + x <= 3 * d + z /\ a <= 3 + (x - y)
          BY <4>2, <4>4, <4>5, <4>6
        <5> HIDE DEF a, r, q, x, y, z
        <5>2. q + y <= 3 * (d + 1) + z
          BY <3>1, <5>1
        <5> QED BY <5>2 DEF q, y, z
      <4> QED BY <4>1, <4>7
    <3> QED BY <3>1, <3>2
  <2>3. S \in SUBSET Nat /\ \A d \in S : d + 1 \in S
    BY <2>2
  <2> HIDE DEF S
  <2> QED BY <2>1, <2>3, SetInduction
<1>12. NumWords(R[0]) <= mRspSize
  <2>0. n \in Nat /\ n <= n /\ n - n = 0
    BY <1>1 DEF n
  <2>1. NumWords(R[n - n]) + W[Off[n - n]] <= 3 * n + W[N]
    BY <1>11, <2>0
  <2>2. NumWords(R[0]) \in Nat
    <3>1. R[0] \in Seq(Piece)
      BY <1>2, <2>0
    <3> QED BY <3>1, NumWordsConcat
  <2> QED BY <1>9, <2>0, <2>1, <2>2
<1> QED BY <1>12 DEF R

LEMMA ReceiveStep ==
    ASSUME IInv, FewUnderway, Receive
    PROVE  IInv' /\ (Refused => \E i \in DOMAIN rsp' : (rsp')[i].rq # call)
<1>1. /\ phase = "sent" /\ mNumPl2Pkt <= Len(stream)
      /\ UNCHANGED requestVars /\ UNCHANGED <<call, resets>>
      /\ mPl0TransRsp' = mPl0TransRsp /\ mPl1CntOutstandingOldest' = mPl1CntOutstandingOldest
      /\ stream' = SubSeq(stream, mNumPl2Pkt + 1, Len(stream))
  BY Zenon DEF Receive
<1>2. Types1 /\ StreamInv /\ Fresh
  BY Zenon DEF IInv
<1>3. /\ mNumPl2Pkt' = mNumPl2Pkt /\ mPl1CntOutstandingLast' = mPl1CntOutstandingLast
      /\ mPl0Trans' = mPl0Trans /\ mPl0NumTrans' = mPl0NumTrans /\ mRspSize' = mRspSize
      /\ call' = call /\ resets' = resets
  BY <1>1 DEF requestVars
<1>4. PICK parts \in Responses(SubSeq(stream, 1, mNumPl2Pkt)) : rw_set_rsp(parts)
  BY Zenon DEF Receive
<1>5. /\ rsp' = parts /\ p' = [wi |-> 0, next |-> 0, iTrans |-> 0]
      /\ \/ NumWords(parts) > mRspSize /\ tas_err' = "SERVER_CON" /\ phase' = "done"
         \/ ~(NumWords(parts) > mRspSize) /\ tas_err' = "NONE" /\ phase' = "parse"
  BY <1>4, Zenon DEF rw_set_rsp
<1>6. PICK u : Layout(u.Off, u.W) /\ Underway(u)
  BY <1>2, Zenon DEF StreamInv
<1>7. call > 0 /\ mNumPl2Pkt \in Nat /\ mNumPl2Pkt > 0 /\ stream \in Seq(Packet) /\ mPl0NumTrans \in Nat /\ call \in Nat
  <2>1. phase # "idle"
    BY <1>1
  <2> QED BY <1>2, <2>1, Zenon DEF Types1, Scalars
<1>8. mNumPl2Pkt \in 0..Len(stream)
  <2>1. Len(stream) \in Nat
    BY <1>7, LenProperties
  <2> QED BY <1>1, <1>7, <2>1
<1>9. PICK Y : Taken(u.base, u.Off, SubSeq(stream, 1, mNumPl2Pkt), Y)
  BY <1>1, <1>2, <1>6, TakenFrom, Zenon
<1>10. PICK qs : qs = SubSeq(stream, 1, mNumPl2Pkt)
  OBVIOUS
<1>11. qs \in Seq(Packet) /\ Len(qs) = mNumPl2Pkt /\ Taken(u.base, u.Off, qs, Y)
  <2>1. SubSeq(stream, 1, mNumPl2Pkt) \in Seq(Packet) /\ Len(SubSeq(stream, 1, mNumPl2Pkt)) = mNumPl2Pkt
    BY <1>7, <1>8, PacketsTo, Zenon
  <2> QED BY <1>9, <1>10, <2>1, Zenon
<1>12. \E A, R : /\ Behind(Len(qs), A, R) /\ R[0] = parts
                 /\ \A k \in 1..Len(qs) : AnswerTo(qs[k], A[k])
  <2>1. parts \in Responses(qs)
    BY <1>4, <1>10, Zenon
  <2>2. qs \in Seq(Packet)
    BY <1>11
  <2> QED BY <2>1, <2>2, ResponseParts, Zenon
<1>13. PICK A, R : /\ Behind(mNumPl2Pkt, A, R) /\ R[0] = parts
                   /\ \A k \in 1..mNumPl2Pkt : AnswerTo(qs[k], A[k])
  BY <1>11, <1>12, Zenon
<1>14. PICK g : g.base = u.base /\ g.Off = u.Off /\ g.W = u.W /\ g.qs = qs /\ g.Y = Y /\ g.A = A /\ g.R = R
  <2> DEFINE g == [base |-> u.base, Off |-> u.Off, W |-> u.W, qs |-> qs, Y |-> Y, A |-> A, R |-> R]
  <2>1. g.base = u.base /\ g.Off = u.Off /\ g.W = u.W /\ g.qs = qs /\ g.Y = Y /\ g.A = A /\ g.R = R
    OBVIOUS
  <2> QED BY <2>1
<1>15. /\ u.base \in Nat /\ mPl1CntOutstandingLast = Cnt(u.base + mNumPl2Pkt)
       /\ mPl1CntOutstandingOldest = Cnt(u.base + 1)
  BY <1>1, <1>6, Zenon DEF Underway
<1>16. Response(g)
  BY <1>6, <1>11, <1>13, <1>14, <1>15, Zenon DEF Response
<1>17. Response(g)'
  BY <1>1, <1>16, ResponseStays, Zenon
<1>18. rsp' = g.R[0] /\ rsp' \in Seq(Piece)
  <2>1. g.R \in [0..mNumPl2Pkt -> Seq(Piece)]
    BY <1>16, Zenon DEF Response, Behind
  <2>2. 0 \in 0..mNumPl2Pkt
    BY <1>7
  <2>3. g.R[0] \in Seq(Piece)
    BY <2>1, <2>2, Zenon
  <2> QED BY <1>5, <1>13, <1>14, <2>3, Zenon
<1>19. Types1'
  <2>1. Scalars'
    <3>1. phase' \in {"idle", "sent", "parse", "done", "merged"} /\ tas_err' \in TasErrs
          /\ (phase' = "parse" => tas_err' # "SERVER_CON")
      BY <1>5 DEF TasErrs
    <3> QED BY <1>2, <1>3, <1>7, <3>1, Zenon DEF Types1, Scalars
  <2>2. Arrays' /\ Counts'
    BY <1>1, <1>2, <1>3, Zenon DEF Types1, Arrays, Counts
  <2>3. Parsed'
    <3>1. p' \in [wi : Nat, next : Nat, iTrans : Nat]
      BY <1>5
    <3> QED BY <1>18, <3>1, Zenon DEF Parsed
  <2>4. stream' \in Seq(Packet)
    <3>1. phase' # "sent"
      BY <1>5
    <3> QED BY <1>1, <1>2, <1>6, <1>8, <3>1, Shift
  <2> QED BY <2>1, <2>2, <2>3, <2>4, Zenon DEF Types1
<1>20. StreamInv' /\ Fresh'
  <2>1. phase' # "sent"
    BY <1>5
  <2>2. StreamInv'
    BY <1>1, <1>2, <1>6, <1>8, <2>1, Shift
  <2> QED BY <2>1, <2>2, Zenon DEF Fresh
<1>21. CASE NumWords(parts) > mRspSize /\ tas_err' = "SERVER_CON" /\ phase' = "done"
  <2>1. \E i \in DOMAIN rsp' : (rsp')[i].rq # call
    <3> SUFFICES ASSUME \A i \in DOMAIN rsp' : (rsp')[i].rq = call PROVE FALSE
      BY Zenon
    <3>1. DOMAIN rsp' = 1..Len(rsp')
      BY <1>18, LenProperties
    <3>2. \A i \in 1..Len(g.R[0]) : g.R[0][i].rq = call
      BY <1>18, <3>1, Zenon
    <3>3. NumWords(g.R[0]) <= mRspSize
      BY <1>2, <1>7, <1>16, <3>2, SizeAdmitted, Zenon
    <3>4. NumWords(parts) <= mRspSize
      BY <1>13, <1>14, <3>3, Zenon
    <3>5. NumWords(parts) \in Nat /\ mRspSize \in Nat
      <4>1. parts \in Seq(Piece)
        BY <1>5, <1>18
      <4>2. mRspSize \in Nat
        BY <1>2, Zenon DEF Types1, Scalars
      <4> QED BY <4>1, <4>2, NumWordsConcat
    <3> QED BY <1>21, <3>4, <3>5
  <2>2. DoneInv'
    <3>1. SuccessIsOwn' /\ SuccessIsComplete' /\ FirstErrorWins'
      BY <1>21, Zenon DEF SuccessIsOwn, SuccessIsComplete, FirstErrorWins, Success
    <3> QED BY <1>3, <2>1, <3>1, Zenon DEF DoneInv
  <2>3. ParseInv'
    BY <1>21, Zenon DEF ParseInv
  <2> QED BY <1>19, <1>20, <2>1, <2>2, <2>3, Zenon DEF IInv
<1>22. CASE tas_err' = "NONE" /\ phase' = "parse"
  <2>1. 1 \in 1..mNumPl2Pkt /\ 1 - 1 = 0
    BY <1>7
  <2>2. Typed(g, 1)
    BY <1>2, <1>16, <2>1, ResponseTypes, Zenon
  <2>3. g.A[1] \in Seq(Piece) /\ Len(g.A[1]) \in Nat /\ Len(g.A[1]) >= 1 /\ g.R[1 - 1] \in Seq(Piece)
    BY <2>2, Zenon DEF Typed
  <2>4. 0 \in 0..Len(g.A[1]) /\ 0 # Len(g.A[1])
    BY <2>3
  <2>5. rsp' = SubSeq(g.R[1 - 1], 0 + 1, Len(g.R[1 - 1]))
    <3>1. SubSeq(g.R[1 - 1], 0 + 1, Len(g.R[1 - 1])) = g.R[1 - 1]
      BY <2>3, SubBehind, Zenon
    <3> QED BY <1>18, <2>1, <3>1, Zenon
  <2>6. p'.wi = 0 /\ p'.next = 0 /\ p'.iTrans = 0
    BY <1>5
  <2>7. \E C : Sums(g.A[1], C) /\ p'.next = p'.wi + (IF 0 = 0 THEN 0 ELSE C[Len(g.A[1])] - C[0])
    <3>1. PICK C : Sums(g.A[1], C)
      BY <2>3, NumWordsSums
    <3>2. p'.next = p'.wi + 0
      BY <2>6
    <3> QED BY <3>1, <3>2, Zenon
  <2>8. g.Y[1 - 1] = 0 /\ g.Off[g.Y[1 - 1]] = 0 /\ Got(0, g.qs[1]) = 0
    <3>1. g.Y[0] = 0 /\ g.Off[0] = 0
      BY <1>16, Zenon DEF Response, Taken, Layout
    <3>2. Got(0, g.qs[1]) = 0
      BY DEF Got
    <3> QED BY <2>1, <3>1, <3>2, Zenon
  <2>9. p'.iTrans = g.Off[g.Y[1 - 1]] + Got(0, g.qs[1])
    BY <2>6, <2>8
  <2>10. mPl1CntOutstandingOldest' = Cnt(g.base + 1 + (IF 0 = Len(g.A[1]) THEN g.Y[1] ELSE g.Y[1 - 1]))
    <3>1. g.base + 1 + 0 = g.base + 1
      BY <1>14, <1>15
    <3>2. mPl1CntOutstandingOldest' = Cnt(g.base + 1 + g.Y[1 - 1])
      BY <1>1, <1>14, <1>15, <2>8, <3>1, Zenon
    <3> QED BY <2>4, <3>2, Zenon
  <2>11. g.Y[1 - 1] < mNumPl2Pkt' /\ (resets' = 0 => g.Y[1 - 1] = 1 - 1) /\ \A i \in 1..(1 - 1) : ~Stale(g.qs[i])'
    <3>1. 0 < mNumPl2Pkt /\ \A i \in 1..(1 - 1) : FALSE
      BY <1>7
    <3> QED BY <1>3, <2>1, <2>8, <3>1, Zenon
  <2>12. Entries(p.iTrans)'
    <3>1. 0 <= mPl0NumTrans /\ (\A i \in 1..mPl0NumTrans : ~(i <= 0)) /\ (\A i \in 1..0 : FALSE)
      BY <1>7
    <3>2. \A i \in 1..mPl0NumTrans : mPl0TransRsp[i] = Unanswered
      BY <1>1, <1>2, Zenon DEF Fresh
    <3> QED BY <1>1, <1>3, <1>22, <2>6, <3>1, <3>2, Zenon DEF Entries
  <2>13. At(g, 1, 0)'
    <3>1. NumWords(g.R[0]) <= mRspSize
      <4>1. NumWords(parts) \in Nat /\ mRspSize \in Nat
        <5>1. parts \in Seq(Piece)
          BY <1>5, <1>18
        <5>2. mRspSize \in Nat
          BY <1>2, Zenon DEF Types1, Scalars
        <5> QED BY <5>1, <5>2, NumWordsConcat
      <4>2. NumWords(parts) <= mRspSize
        BY <1>5, <1>22, <4>1
      <4> QED BY <1>13, <1>14, <4>2, Zenon
    <3>2. Within(g, 1, 0)
      BY <2>8, <3>1, WithinStart, Zenon
    <3>3. Within(g, 1, 0)'
      BY <1>3, <3>2, WithinStays, Zenon
    <3> HIDE DEF Stale, Entries
    <3> QED BY <1>3, <2>1, <2>4, <2>5, <2>7, <2>9, <2>10, <2>11, <2>12, <3>3, Zenon DEF At
  <2>14. ParseInv'
    BY <1>17, <2>13, Zenon DEF ParseInv
  <2>15. DoneInv' /\ ~Refused
    BY <1>22, NotDone DEF Refused
  <2> QED BY <1>19, <1>20, <2>14, <2>15, Zenon DEF IInv
<1> QED BY <1>5, <1>21, <1>22

\* The words of the answers to part of the accesses.
LEMMA AnswerSumsPart ==
    ASSUME NEW acc \in Seq(Pl0Access), NEW W, AnswerSums(acc, W),
           NEW s \in Seq(Pl0Access), NEW V, AnswerSums(s, V),
           NEW o \in Nat, o + Len(s) <= Len(acc),
           \A i \in 1..Len(s) : acc[o + i] = s[i]
    PROVE  /\ W[o + Len(s)] = W[o] + V[Len(s)]
           /\ W[o + Len(s)] \in Nat /\ W[o] \in Nat /\ V[Len(s)] \in Nat
<1> DEFINE n == Len(acc)
           m == Len(s)
           P == {i \in Nat : i <= m => W[o + i] = W[o] + V[i]}
<1>1. n \in Nat /\ m \in Nat
  BY LenProperties
<1>2. /\ W \in [0..n -> Nat] /\ \A i \in 1..n : W[i] = W[i - 1] + AnswerWords(acc[i])
      /\ V \in [0..m -> Nat] /\ V[0] = 0 /\ \A i \in 1..m : V[i] = V[i - 1] + AnswerWords(s[i])
  BY Zenon DEF AnswerSums
<1>3. \A i \in 1..m : AnswerWords(s[i]) \in Nat
  <2> SUFFICES ASSUME NEW i \in 1..m PROVE AnswerWords(s[i]) \in Nat
    OBVIOUS
  <2>1. s[i] \in Pl0Access
    BY ElementOfSeq
  <2> DEFINE a == s[i]
  <2> HIDE DEF a
  <2>2. a \in Pl0Access
    BY <2>1 DEF a
  <2>3. AnswerWords(a) \in Nat
    BY <2>2, AccessFields
  <2> QED BY <2>3 DEF a
<1>4. (\A i \in 1..m : acc[o + i] = s[i]) /\ o + m <= n
  OBVIOUS
<1> HIDE DEF n, m
<1>5. 0 \in P
  <2>1. o + 0 = o /\ o \in 0..n
    BY <1>1, <1>4
  <2>2. W[o] \in Nat
    BY <1>2, <2>1
  <2> QED BY <1>2, <2>1, <2>2
<1>6. ASSUME NEW i \in P PROVE i + 1 \in P
  <2>1. i \in Nat /\ i + 1 \in Nat
    OBVIOUS
  <2>2. ASSUME i + 1 <= m PROVE W[o + (i + 1)] = W[o] + V[i + 1]
    <3>1. /\ i + 1 \in 1..m /\ (i + 1) - 1 = i /\ i <= m /\ i \in 0..m /\ i + 1 \in 0..m
          /\ o + (i + 1) \in 1..n /\ (o + (i + 1)) - 1 = o + i /\ o + i \in 0..n /\ o \in 0..n
      BY <1>1, <1>4, <2>1, <2>2
    <3>2. W[o + i] = W[o] + V[i]
      BY <3>1
    <3>3. W[o + (i + 1)] = W[(o + (i + 1)) - 1] + AnswerWords(acc[o + (i + 1)])
      BY <1>2, <3>1, Zenon
    <3>4. V[i + 1] = V[(i + 1) - 1] + AnswerWords(s[i + 1])
      BY <1>2, <3>1, Zenon
    <3>5. acc[o + (i + 1)] = s[i + 1] /\ AnswerWords(s[i + 1]) \in Nat
      BY <1>3, <1>4, <3>1, Zenon
    <3>6. W[o] \in Nat /\ V[i] \in Nat
      BY <1>2, <3>1, Zenon
    <3> DEFINE a == W[o]
               b == V[i]
               c == AnswerWords(s[i + 1])
    <3>7. a \in Nat /\ b \in Nat /\ c \in Nat
      BY <3>5, <3>6
    <3>8. W[o + (i + 1)] = (a + b) + c /\ V[i + 1] = b + c
      BY <3>1, <3>2, <3>3, <3>4, <3>5, Zenon
    <3> HIDE DEF a, b, c
    <3>9. (a + b) + c = a + (b + c)
      BY <3>7
    <3> QED BY <3>8, <3>9, Zenon DEF a
  <2> QED BY <2>1, <2>2
<1>7. \A i \in Nat : i \in P
  <2>1. P \in SUBSET Nat /\ \A i \in P : i + 1 \in P
    BY <1>6
  <2> HIDE DEF P
  <2> QED BY <1>5, <2>1, SetInduction
<1>8. m <= m /\ m \in 0..m /\ o \in 0..n /\ o + m \in 0..n
  BY <1>1, <1>4
<1>9. W[o + m] = W[o] + V[m]
  BY <1>1, <1>7, <1>8
<1>10. W[o + m] \in Nat /\ W[o] \in Nat /\ V[m] \in Nat
  BY <1>2, <1>8, Zenon
<1> QED BY <1>9, <1>10 DEF m

\* Where the packets of request r are in the array of accesses, and the words of
\* their answers.
Laid(r, w) ==
    /\ r.pkts \in Seq(Seq(Pl0Access)) /\ Len(r.pkts) \in Nat /\ Len(r.pkts) > 0
    /\ Accesses(r) \in Seq(Pl0Access) /\ Len(Accesses(r)) \in Nat
    /\ w.Off \in [0..Len(r.pkts) -> Nat] /\ w.Off[0] = 0 /\ w.Off[Len(r.pkts)] = Len(Accesses(r))
    /\ \A y \in 1..Len(r.pkts) :
        /\ w.Off[y] = w.Off[y - 1] + Len(r.pkts[y])
        /\ w.Off[y - 1] <= w.Off[y] /\ w.Off[y - 1] < Len(Accesses(r))
        /\ r.pkts[y] \in Seq(Pl0Access) /\ Len(r.pkts[y]) \in Nat
        /\ \A i \in 1..Len(r.pkts[y]) : Accesses(r)[w.Off[y - 1] + i] = r.pkts[y][i]
        /\ 3 + (w.W[w.Off[y]] - w.W[w.Off[y - 1]]) <= MaxRspSize
    /\ \A y \in 0..Len(r.pkts) : w.Off[y] <= Len(Accesses(r))
    /\ AnswerSums(Accesses(r), w.W)
    /\ RspWords(Len(r.pkts), Accesses(r)) = 3 * Len(r.pkts) + w.W[Len(Accesses(r))]

LEMMA RequestLaid ==
    ASSUME NEW r \in Requests
    PROVE  \E w : Laid(r, w)
<1> DEFINE ss == r.pkts
           n == Len(ss)
           acc == Accesses(r)
           N == Len(acc)
<1>1. ss \in Seq(Seq(Pl0Access)) /\ ss # <<>> /\ ss[n] # <<>>
  <2>1. ss \in Seq(Seq(Pl0Access))
    BY RequestTypes
  <2>2. ss # <<>> /\ ss[n] # <<>>
    BY RequestAssumption, Zenon
  <2> QED BY <2>1, <2>2
<1>2. n \in Nat /\ n > 0 /\ n \in 1..n /\ n \in 0..n /\ 0 \in 0..n
  <2>1. n \in Nat /\ n # 0
    BY <1>1, EmptySeq, LenProperties
  <2> HIDE DEF n
  <2> QED BY <2>1
<1>3. acc \in Seq(Pl0Access) /\ \E Off : Offsets(ss, acc, Off)
  BY <1>1, AccessesAt, Zenon DEF Accesses
<1>4. PICK Off : Offsets(ss, acc, Off)
  BY <1>3
<1>5. N \in Nat
  BY <1>3, LenProperties
<1>6. /\ Off \in [0..n -> Nat] /\ Off[0] = 0 /\ Off[n] = N
      /\ \A k \in 1..n : /\ Off[k] = Off[k - 1] + Len(ss[k]) /\ Len(ss[k]) \in Nat
                         /\ \A i \in 1..Len(ss[k]) : acc[Off[k - 1] + i] = ss[k][i]
  BY <1>4, Zenon DEF Offsets
<1>7. \A k \in 1..n : ss[k] \in Seq(Pl0Access)
  BY <1>1, ElementOfSeq
<1>8. Off[n - 1] < N
  <2>1. ss[n] \in Seq(Pl0Access)
    BY <1>2, <1>7, Zenon
  <2>2. Len(ss[n]) # 0 /\ Len(ss[n]) \in Nat
    BY <1>1, <2>1, EmptySeq, LenProperties
  <2> DEFINE l == Len(ss[n])
             a == Off[n]
             b == Off[n - 1]
  <2>3. a = b + l /\ a = N
    BY <1>2, <1>6
  <2>4. b \in Nat
    <3>1. n - 1 \in 0..n
      <4> HIDE DEF n
      <4> QED BY <1>2
    <3> QED BY <1>6, <3>1, Zenon
  <2>5. l \in Nat /\ l # 0
    BY <2>2
  <2> HIDE DEF l, a, b, N
  <2>6. b < N
    BY <2>3, <2>4, <2>5
  <2> QED BY <2>6 DEF b
<1> HIDE DEF ss, n, acc, N
<1>9. \A y \in 1..n : y - 1 \in 0..n /\ y \in 0..n
  BY <1>2
<1>10. \A y \in 1..n : Off[y - 1] \in Nat /\ Off[y] \in Nat /\ Off[y - 1] <= Off[y]
  <2> SUFFICES ASSUME NEW y \in 1..n PROVE Off[y - 1] \in Nat /\ Off[y] \in Nat /\ Off[y - 1] <= Off[y]
    OBVIOUS
  <2>1. Off[y - 1] \in Nat /\ Off[y] \in Nat
    BY <1>6, <1>9, Zenon
  <2>2. Off[y] = Off[y - 1] + Len(ss[y]) /\ Len(ss[y]) \in Nat
    BY <1>6
  <2> QED BY <2>1, <2>2
<1> DEFINE P == {d \in Nat : d <= n => Off[n - d] <= N /\ (d > 0 => Off[n - d] < N)}
<1>11. \A d \in Nat : d \in P
  <2>1. 0 \in P
    <3>1. n - 0 = n /\ N <= N
      BY <1>2, <1>5
    <3> QED BY <1>6, <3>1
  <2>2. ASSUME NEW d \in P PROVE d + 1 \in P
    <3>1. d \in Nat /\ d + 1 \in Nat
      OBVIOUS
    <3>2. ASSUME d + 1 <= n PROVE Off[n - (d + 1)] < N
      <4>1. d <= n /\ n - d \in 1..n /\ n - (d + 1) = (n - d) - 1 /\ (d = 0 => n - (d + 1) = n - 1)
        BY <1>2, <3>1, <3>2
      <4>2. CASE d = 0
        BY <1>8, <4>1, <4>2
      <4>3. CASE d # 0
        <5>1. Off[n - d] < N
          BY <3>1, <4>1, <4>3
        <5>2. Off[(n - d) - 1] <= Off[n - d] /\ Off[(n - d) - 1] \in Nat /\ Off[n - d] \in Nat
          BY <1>10, <4>1
        <5> QED BY <1>5, <4>1, <5>1, <5>2
      <4> QED BY <4>2, <4>3
    <3>3. ASSUME d + 1 <= n PROVE Off[n - (d + 1)] <= N
      <4>1. n - (d + 1) \in 0..n
        BY <1>2, <3>1, <3>3
      <4>2. Off[n - (d + 1)] \in Nat /\ Off[n - (d + 1)] < N
        BY <1>6, <3>2, <3>3, <4>1
      <4> QED BY <1>5, <4>2
    <3> QED BY <3>1, <3>2, <3>3
  <2>3. P \in SUBSET Nat /\ \A d \in P : d + 1 \in P
    BY <2>2
  <2> HIDE DEF P
  <2> QED BY <2>1, <2>3, SetInduction
<1>12. \A y \in 0..n : Off[y] <= N
  <2> SUFFICES ASSUME NEW y \in 0..n PROVE Off[y] <= N
    OBVIOUS
  <2>1. n - y \in Nat /\ n - y <= n /\ n - (n - y) = y
    BY <1>2
  <2>2. Off[n - (n - y)] <= N
    BY <1>11, <2>1
  <2> QED BY <2>1, <2>2
<1>13. \A y \in 1..n : Off[y - 1] < N
  <2> SUFFICES ASSUME NEW y \in 1..n PROVE Off[y - 1] < N
    OBVIOUS
  <2>1. n - (y - 1) \in Nat /\ n - (y - 1) <= n /\ n - (n - (y - 1)) = y - 1 /\ n - (y - 1) > 0
    BY <1>2
  <2>2. Off[n - (n - (y - 1))] < N
    BY <1>11, <2>1
  <2> QED BY <2>1, <2>2
<1>14. PICK W : AnswerSums(acc, W) /\ RspWords(n, acc) = 3 * n + W[Len(acc)]
  BY <1>2, <1>3, RspWordsSums
<1>15. \A y \in 1..n : 3 + (W[Off[y]] - W[Off[y - 1]]) <= MaxRspSize
  <2> SUFFICES ASSUME NEW y \in 1..n PROVE 3 + (W[Off[y]] - W[Off[y - 1]]) <= MaxRspSize
    OBVIOUS
  <2> DEFINE s == ss[y]
             o == Off[y - 1]
  <2>1. s \in Seq(Pl0Access) /\ o \in Nat /\ Off[y] = o + Len(s) /\ \A i \in 1..Len(s) : acc[o + i] = s[i]
    BY <1>6, <1>7, <1>10, Zenon
  <2>2. o + Len(s) <= Len(acc)
    BY <1>9, <1>12, <2>1 DEF N
  <2>3. RspWords(1, s) <= MaxRspSize
    <3>1. y \in DOMAIN r.pkts
      BY <1>1, LenProperties DEF n, ss
    <3> QED BY <3>1, RspSizeAssumption DEF ss
  <2> HIDE DEF s, o
  <2>4. PICK V : AnswerSums(s, V) /\ RspWords(1, s) = 3 * 1 + V[Len(s)]
    BY <2>1, RspWordsSums
  <2>5. /\ W[o + Len(s)] = W[o] + V[Len(s)]
        /\ W[o + Len(s)] \in Nat /\ W[o] \in Nat /\ V[Len(s)] \in Nat
    BY <1>3, <1>14, <2>1, <2>2, <2>4, AnswerSumsPart
  <2>6. 3 + (W[o + Len(s)] - W[o]) <= MaxRspSize
    <3> DEFINE a == W[o + Len(s)]
               b == W[o]
               c == V[Len(s)]
    <3>1. a = b + c /\ a \in Nat /\ b \in Nat /\ c \in Nat /\ 3 + c <= MaxRspSize /\ MaxRspSize \in Nat
      BY <2>3, <2>4, <2>5, ConstantAssumption
    <3> HIDE DEF a, b, c
    <3>2. 3 + (a - b) <= MaxRspSize
      BY <3>1
    <3> QED BY <3>2 DEF a, b
  <2> QED BY <2>1, <2>6 DEF o
<1>16. PICK w : w.Off = Off /\ w.W = W
  <2> DEFINE w == [Off |-> Off, W |-> W]
  <2>1. w.Off = Off /\ w.W = W
    OBVIOUS
  <2> QED BY <2>1
<1>17. Laid(r, w)
  BY <1>1, <1>2, <1>3, <1>5, <1>6, <1>7, <1>10, <1>12, <1>13, <1>14, <1>15, <1>16, Zenon DEF Laid, ss, n, acc, N
<1> QED BY <1>17

\* t has new at its beginning, and behind it what is left of old.
Covers(S, old, new, t) ==
    /\ t \in Seq(S) /\ Len(t) \in Nat
    /\ Len(t) = (IF Len(old) > Len(new) THEN Len(old) ELSE Len(new))
    /\ Len(old) <= Len(t) /\ Len(new) <= Len(t)
    /\ \A i \in 1..Len(new) : t[i] = new[i]

LEMMA Overwritten ==
    ASSUME NEW S, NEW old \in Seq(S), NEW new \in Seq(S)
    PROVE  Covers(S, old, new, Overwrite(old, new))
<1> DEFINE m == Len(old)
           n == Len(new)
           l == IF m > n THEN m ELSE n
           t == [i \in 1..l |-> IF i <= n THEN new[i] ELSE old[i]]
<1>1. m \in Nat /\ n \in Nat
  BY LenProperties
<1>2. (\A i \in 1..m : old[i] \in S) /\ \A i \in 1..n : new[i] \in S
  BY ElementOfSeq
<1>3. t = Overwrite(old, new)
  BY DEF Overwrite
<1> HIDE DEF m, n
<1>4. l \in Nat /\ m <= l /\ n <= l /\ (\A i \in 1..n : i \in 1..l /\ i <= n)
      /\ \A i \in 1..l : (i <= n => i \in 1..n) /\ (~(i <= n) => i \in 1..m)
  BY <1>1
<1> HIDE DEF l
<1>5. t \in [1..l -> S]
  BY <1>2, <1>4
<1>6. t \in Seq(S) /\ Len(t) = l
  BY <1>4, <1>5, SeqDef, LenProperties, SMT
<1>7. \A i \in 1..n : t[i] = new[i]
  BY <1>4
<1> HIDE DEF t
<1> QED BY <1>3, <1>4, <1>6, <1>7, Zenon DEF Covers, l, m, n

\* What Request writes for the accesses acc of call c.
EntriesFor(acc, c) == [i \in DOMAIN acc |-> [a |-> acc[i], call |-> c]]

LEMMA NewEntries ==
    ASSUME NEW acc \in Seq(Pl0Access), NEW c \in Nat, NEW t, t = EntriesFor(acc, c)
    PROVE  /\ t \in Seq(TransEntry) /\ Len(t) = Len(acc)
           /\ \A i \in 1..Len(acc) : t[i].a = acc[i] /\ t[i].call = c
<1>1. Len(acc) \in Nat /\ DOMAIN acc = 1..Len(acc)
  BY LenProperties
<1>2. \A i \in 1..Len(acc) : acc[i] \in Pl0Access
  BY ElementOfSeq
<1> DEFINE n == Len(acc)
<1>3. n \in Nat /\ t = [i \in 1..n |-> [a |-> acc[i], call |-> c]]
  BY <1>1 DEF EntriesFor
<1>4. \A i \in 1..n : [a |-> acc[i], call |-> c] \in TransEntry
  BY <1>2 DEF TransEntry
<1> HIDE DEF n
<1>5. t \in [1..n -> TransEntry]
  BY <1>3, <1>4
<1>6. t \in Seq(TransEntry) /\ Len(t) = n
  BY <1>3, <1>5, SMT
<1>7. \A i \in 1..n : t[i].a = acc[i] /\ t[i].call = c
  BY <1>3
<1> QED BY <1>6, <1>7 DEF n

LEMMA NewResults ==
    ASSUME NEW acc \in Seq(Pl0Access), NEW t,
           t = [i \in DOMAIN acc |-> Unanswered]
    PROVE  /\ t \in Seq(Result) /\ Len(t) = Len(acc)
           /\ \A i \in 1..Len(acc) : t[i] = Unanswered
<1>1. Len(acc) \in Nat /\ DOMAIN acc = 1..Len(acc)
  BY LenProperties
<1> DEFINE n == Len(acc)
<1>2. n \in Nat /\ t = [i \in 1..n |-> Unanswered]
  BY <1>1
<1>3. Unanswered \in Result
  BY DEF Unanswered, Result, PlErr
<1> HIDE DEF n
<1>4. t \in [1..n -> Result]
  BY <1>2, <1>3, Zenon
<1>5. t \in Seq(Result) /\ Len(t) = n
  BY <1>2, <1>4, SMT
<1>6. \A i \in 1..n : t[i] = Unanswered
  BY <1>2, Zenon
<1> QED BY <1>5, <1>6 DEF n

NewPacket(rq, cnt, acc) == [rq |-> rq, cnt |-> cnt, acc |-> acc]

\* The packets pkts of call c, when x packets were counted before.
PacketsFor(pkts, c, x) == [k \in DOMAIN pkts |-> NewPacket(c, Cnt(x + k), pkts[k])]

LEMMA NewPackets ==
    ASSUME NEW pkts \in Seq(Seq(Pl0Access)), NEW c \in Nat, NEW x \in Nat, NEW t,
           t = PacketsFor(pkts, c, x)
    PROVE  /\ t \in Seq(Packet) /\ Len(t) = Len(pkts) /\ Len(pkts) \in Nat
           /\ \A k \in 1..Len(pkts) : t[k] = NewPacket(c, Cnt(x + k), pkts[k])
<1>1. Len(pkts) \in Nat /\ DOMAIN pkts = 1..Len(pkts)
  BY LenProperties
<1>2. \A i \in 1..Len(pkts) : pkts[i] \in Seq(Pl0Access)
  BY ElementOfSeq
<1> DEFINE n == Len(pkts)
<1>3. n \in Nat /\ t = [k \in 1..n |-> NewPacket(c, Cnt(x + k), pkts[k])]
  BY <1>1 DEF PacketsFor
<1>4. \A k \in 1..n : NewPacket(c, Cnt(x + k), pkts[k]) \in Packet
  <2> SUFFICES ASSUME NEW k \in 1..n PROVE NewPacket(c, Cnt(x + k), pkts[k]) \in Packet
    OBVIOUS
  <2>1. Cnt(x + k) \in Nat
    BY SMT DEF Cnt
  <2> QED BY <1>2, <2>1, Zenon DEF NewPacket, Packet
<1> HIDE DEF n
<1>5. t \in [1..n -> Packet]
  BY <1>3, <1>4, Zenon
<1>6. t \in Seq(Packet) /\ Len(t) = n
  BY <1>3, <1>5, SMT
<1>7. \A k \in 1..n : t[k] = NewPacket(c, Cnt(x + k), pkts[k])
  BY <1>3, Zenon
<1> QED BY <1>3, <1>6, <1>7 DEF n

LEMMA CntSum ==
    ASSUME NEW x \in Nat, NEW k \in Nat
    PROVE  Plus16(Cnt(x), k) = Cnt(x + k)
<1>1. ((x % 65536) + k) % 65536 = (x + k) % 65536
  BY SMT
<1> QED BY <1>1, SMT DEF Cnt, Plus16

LEMMA CntType == ASSUME NEW x \in Nat PROVE Cnt(x) \in UInt16
BY SMT DEF Cnt, UInt16

\* What Request does to the arrays and to the stream.
Requested(r, x) ==
    /\ mPl0Trans' \in Seq(TransEntry) /\ mPl0TransRsp' \in Seq(Result)
    /\ Len(mPl0Trans') \in Nat /\ Len(mPl0TransRsp') = Len(mPl0Trans')
    /\ Len(mPl0Trans) <= Len(mPl0Trans') /\ Len(Accesses(r)) <= Len(mPl0Trans') /\ Len(mPl0Trans) \in Nat
    /\ \A i \in 1..Len(Accesses(r)) : /\ (mPl0Trans')[i].a = Accesses(r)[i]
                                      /\ (mPl0Trans')[i].call = call + 1
                                      /\ (mPl0TransRsp')[i] = Unanswered
    /\ stream' \in Seq(Packet) /\ Len(stream) \in Nat /\ Len(stream') = Len(stream) + Len(r.pkts)
    /\ \A k \in 1..Len(stream) : (stream')[k] = stream[k]
    /\ \A k \in 1..Len(r.pkts) : (stream')[Len(stream) + k] = NewPacket(call + 1, Cnt(x + k), r.pkts[k])

LEMMA RequestDone ==
    ASSUME Types1, NEW r \in Requests, Request(r), NEW w, Laid(r, w),
           NEW x \in Nat, mPl1CntOutstandingLast = Cnt(x)
    PROVE  Requested(r, x)
<1> DEFINE acc == Accesses(r)
<1>1. acc \in Seq(Pl0Access) /\ Len(acc) \in Nat /\ r.pkts \in Seq(Seq(Pl0Access)) /\ Len(r.pkts) \in Nat
  BY Zenon DEF Laid
<1>2. /\ mPl0Trans \in Seq(TransEntry) /\ mPl0TransRsp \in Seq(Result) /\ Len(mPl0TransRsp) = Len(mPl0Trans)
      /\ stream \in Seq(Packet) /\ call \in Nat
  BY Zenon DEF Types1, Arrays, Scalars
<1>3. Len(mPl0Trans) \in Nat /\ Len(stream) \in Nat /\ call + 1 \in Nat
  BY <1>2, LenProperties
<1>4. PICK c : c = call + 1
  OBVIOUS
<1> HIDE DEF acc
<1>5. PICK ent : ent = EntriesFor(acc, c)
  OBVIOUS
<1>6. PICK res : res = [i \in DOMAIN acc |-> Unanswered]
  OBVIOUS
<1>7. PICK new : new = PacketsFor(r.pkts, c, x)
  OBVIOUS
<1>8. /\ mPl0Trans' = Overwrite(mPl0Trans, ent)
      /\ mPl0TransRsp' = Overwrite(mPl0TransRsp, res)
  <2>1. mPl0TransRsp' = Overwrite(mPl0TransRsp, res)
    BY <1>6, Zenon DEF Request, acc
  <2>2. ent = [i \in DOMAIN Accesses(r) |-> [a |-> Accesses(r)[i], call |-> call + 1]]
    BY <1>4, <1>5, Zenon DEF EntriesFor, acc
  <2>3. mPl0Trans' = Overwrite(mPl0Trans, ent)
    BY <2>2, Zenon DEF Request
  <2> QED BY <2>1, <2>3
<1>9. stream' = stream \o new
  <2>1. \A k \in DOMAIN r.pkts : Plus16(mPl1CntOutstandingLast, k) = Cnt(x + k)
    <3>1. DOMAIN r.pkts = 1..Len(r.pkts)
      BY <1>1, LenProperties
    <3>2. \A k \in DOMAIN r.pkts : k \in Nat
      BY <3>1
    <3> QED BY <3>2, CntSum, Zenon
  <2>2. \A k \in DOMAIN r.pkts :
          [rq |-> call + 1, cnt |-> Plus16(mPl1CntOutstandingLast, k), acc |-> r.pkts[k]]
          = NewPacket(c, Cnt(x + k), r.pkts[k])
    BY <1>4, <2>1, Zenon DEF NewPacket
  <2>3. [k \in DOMAIN r.pkts |-> [rq |-> call + 1, cnt |-> Plus16(mPl1CntOutstandingLast, k), acc |-> r.pkts[k]]]
        = new
    BY <1>7, <2>2, Zenon DEF PacketsFor
  <2> QED BY <2>3, Zenon DEF Request
<1>10. /\ ent \in Seq(TransEntry) /\ Len(ent) = Len(acc)
       /\ \A i \in 1..Len(acc) : ent[i].a = acc[i] /\ ent[i].call = c
  <2>1. c \in Nat
    BY <1>3, <1>4
  <2>2. \A t : t = EntriesFor(acc, c) =>
          /\ t \in Seq(TransEntry) /\ Len(t) = Len(acc)
          /\ \A i \in 1..Len(acc) : t[i].a = acc[i] /\ t[i].call = c
    BY <1>1, <2>1, NewEntries
  <2> QED BY <1>5, <2>2, Zenon
<1>11. /\ res \in Seq(Result) /\ Len(res) = Len(acc)
       /\ \A i \in 1..Len(acc) : res[i] = Unanswered
  BY <1>1, <1>6, NewResults, Zenon
<1>12. /\ new \in Seq(Packet) /\ Len(new) = Len(r.pkts)
       /\ \A k \in 1..Len(r.pkts) : new[k] = NewPacket(c, Cnt(x + k), r.pkts[k])
  <2>1. c \in Nat
    BY <1>3, <1>4
  <2>2. \A t : t = PacketsFor(r.pkts, c, x) =>
          /\ t \in Seq(Packet) /\ Len(t) = Len(r.pkts) /\ Len(r.pkts) \in Nat
          /\ \A k \in 1..Len(r.pkts) : t[k] = NewPacket(c, Cnt(x + k), r.pkts[k])
    BY <1>1, <2>1, NewPackets
  <2> QED BY <1>7, <2>2, Zenon
<1>13. Covers(TransEntry, mPl0Trans, ent, mPl0Trans')
  <2>1. Covers(TransEntry, mPl0Trans, ent, Overwrite(mPl0Trans, ent))
    BY <1>2, <1>10, Overwritten, Zenon
  <2> QED BY <1>8, <2>1, Zenon
<1>14. Covers(Result, mPl0TransRsp, res, mPl0TransRsp')
  <2>1. Covers(Result, mPl0TransRsp, res, Overwrite(mPl0TransRsp, res))
    BY <1>2, <1>11, Overwritten, Zenon
  <2> QED BY <1>8, <2>1, Zenon
<1>15. /\ stream' \in Seq(Packet) /\ Len(stream') = Len(stream) + Len(r.pkts)
       /\ \A k \in 1..Len(stream) : (stream')[k] = stream[k]
       /\ \A k \in 1..Len(r.pkts) : (stream')[Len(stream) + k] = new[k]
  <2> DEFINE L == Len(stream)
             n == Len(new)
  <2>1. /\ stream' \in Seq(Packet) /\ Len(stream') = L + n /\ L \in Nat /\ n \in Nat
        /\ \A i \in 1..(L + n) : (stream')[i] = IF i <= L THEN stream[i] ELSE new[i - L]
    BY <1>2, <1>9, <1>12, PacketConcat, Zenon
  <2> HIDE DEF L, n
  <2>2. /\ \A k \in 1..L : k \in 1..(L + n) /\ k <= L
        /\ \A k \in 1..n : L + k \in 1..(L + n) /\ ~(L + k <= L) /\ (L + k) - L = k
    BY <2>1
  <2>3. /\ \A k \in 1..L : (stream')[k] = stream[k]
        /\ \A k \in 1..n : (stream')[L + k] = new[k]
    BY <2>1, <2>2, Zenon
  <2> QED BY <1>12, <2>1, <2>3, Zenon DEF L, n
<1>16. Len(mPl0TransRsp') = Len(mPl0Trans')
  BY <1>2, <1>10, <1>11, <1>13, <1>14, Zenon DEF Covers
<1>17. \A i \in 1..Len(acc) : /\ (mPl0Trans')[i].a = acc[i] /\ (mPl0Trans')[i].call = call + 1
                              /\ (mPl0TransRsp')[i] = Unanswered
  BY <1>4, <1>10, <1>11, <1>13, <1>14, Zenon DEF Covers
<1>18. \A k \in 1..Len(r.pkts) : (stream')[Len(stream) + k] = NewPacket(call + 1, Cnt(x + k), r.pkts[k])
  BY <1>4, <1>12, <1>15, Zenon
<1>19. /\ mPl0Trans' \in Seq(TransEntry) /\ mPl0TransRsp' \in Seq(Result) /\ Len(mPl0Trans') \in Nat
       /\ Len(mPl0Trans) <= Len(mPl0Trans') /\ Len(acc) <= Len(mPl0Trans')
  BY <1>10, <1>13, <1>14, Zenon DEF Covers
<1> QED BY <1>3, <1>15, <1>16, <1>17, <1>18, <1>19, Zenon DEF Requested, acc

\* The other members Request sets.
LEMMA RequestSets ==
    ASSUME Types1, NEW r \in Requests, Request(r), NEW x \in Nat, mPl1CntOutstandingLast = Cnt(x),
           Len(r.pkts) \in Nat
    PROVE  /\ mPl0NumTrans' = Len(Accesses(r)) /\ mNumPl2Pkt' = Len(r.pkts)
           /\ mRspSize' = RspWords(Len(r.pkts), Accesses(r))
           /\ mPl1CntOutstandingLast' = Cnt(x + Len(r.pkts))
           /\ mPl1CntOutstandingOldest' = Cnt(x + 1)
           /\ call' = call + 1 /\ phase' = "sent" /\ call \in Nat /\ phase # "sent"
           /\ tas_err' = tas_err /\ rsp' = rsp /\ p' = p /\ resets' = resets
<1>1. /\ mPl0NumTrans' = Len(Accesses(r)) /\ mNumPl2Pkt' = Len(r.pkts)
      /\ mRspSize' = RspWords(Len(r.pkts), Accesses(r))
      /\ mPl1CntOutstandingLast' = Plus16(mPl1CntOutstandingLast, Len(r.pkts))
      /\ mPl1CntOutstandingOldest' = Inc16(mPl1CntOutstandingLast)
      /\ call' = call + 1 /\ phase' = "sent" /\ phase \in {"idle", "done", "merged"}
      /\ tas_err' = tas_err /\ rsp' = rsp /\ p' = p /\ resets' = resets
  BY Zenon DEF Request
<1>2. call \in Nat /\ phase # "sent"
  BY <1>1, Zenon DEF Types1, Scalars
<1> DEFINE n == Len(r.pkts)
<1>3. n \in Nat
  OBVIOUS
<1> HIDE DEF n
<1>4. Plus16(Cnt(x), n) = Cnt(x + n)
  BY <1>3, CntSum
<1>5. Inc16(Cnt(x)) = Cnt(x + 1)
  BY CntPlus
<1> QED BY <1>1, <1>2, <1>4, <1>5, Zenon DEF n

\* The packets of request r are where its arrays say.
LEMMA RequestLayout ==
    ASSUME Types1, NEW r \in Requests, Request(r), NEW w, Laid(r, w),
           NEW x \in Nat, mPl1CntOutstandingLast = Cnt(x), Requested(r, x)
    PROVE  Layout(w.Off, w.W)'
<1> DEFINE acc == Accesses(r)
<1>1. PICK n : n = Len(r.pkts)
  OBVIOUS
<1>2. PICK N : N = Len(acc)
  OBVIOUS
<1>3. /\ w.Off \in [0..n -> Nat] /\ w.Off[0] = 0 /\ w.Off[n] = N
      /\ \A y \in 1..n : w.Off[y - 1] <= w.Off[y] /\ w.Off[y - 1] < N
      /\ \A y \in 1..n : 3 + (w.W[w.Off[y]] - w.W[w.Off[y - 1]]) <= MaxRspSize
      /\ \A y \in 0..n : w.Off[y] <= N
      /\ AnswerSums(acc, w.W) /\ RspWords(n, acc) = 3 * n + w.W[N]
  BY <1>1, <1>2, Zenon DEF Laid, acc
<1>4. w.W \in [0..N -> Nat] /\ w.W[0] = 0 /\ \A i \in 1..N : w.W[i] = w.W[i - 1] + AnswerWords(acc[i])
  BY <1>2, <1>3, Zenon DEF AnswerSums
<1>5. \A i \in 1..N : (mPl0Trans')[i].a = acc[i]
  BY <1>2, Zenon DEF Requested, acc
<1>6. n \in Nat
  BY <1>1, Zenon DEF Laid
<1>7. mPl0NumTrans' = N /\ mNumPl2Pkt' = n /\ mRspSize' = RspWords(n, acc)
  BY <1>1, <1>2, <1>6, RequestSets, Zenon DEF acc
<1> HIDE DEF acc
<1>8. \A i \in 1..N : w.W[i] = w.W[i - 1] + AnswerWords((mPl0Trans')[i].a)
  BY <1>4, <1>5, Zenon
<1> QED BY <1>3, <1>4, <1>7, <1>8, Zenon DEF Layout

\* Each packet of the request is its own.
LEMMA RequestOwn ==
    ASSUME Types1, NEW r \in Requests, Request(r), NEW w, Laid(r, w),
           NEW x \in Nat, mPl1CntOutstandingLast = Cnt(x), Requested(r, x),
           NEW i \in 1..Len(r.pkts), NEW q, q = (stream')[Len(stream) + i]
    PROVE  /\ q.rq = call + 1 /\ q.cnt = Cnt(x + i) /\ Len(q.acc) <= Len(mPl0Trans')
           /\ Own(q, i, x, w.Off)'
<1>1. q = NewPacket(call + 1, Cnt(x + i), r.pkts[i])
  BY Zenon DEF Requested
<1>2. q.rq = call + 1 /\ q.cnt = Cnt(x + i) /\ q.acc = r.pkts[i]
  <2> DEFINE c == call + 1
             y == Cnt(x + i)
             s == r.pkts[i]
  <2>1. q = NewPacket(c, y, s)
    BY <1>1
  <2> HIDE DEF c, y, s
  <2>2. q.rq = c /\ q.cnt = y /\ q.acc = s
    BY <2>1 DEF NewPacket
  <2> QED BY <2>2 DEF c, y, s
<1> DEFINE l == Len(r.pkts[i])
           n == Len(r.pkts)
           N == Len(Accesses(r))
           a == w.Off[i - 1]
           b == w.Off[i]
           M == Len(mPl0Trans')
<1>3. /\ b = a + l /\ l \in Nat /\ n \in Nat /\ N \in Nat
      /\ \A j \in 1..l : Accesses(r)[a + j] = r.pkts[i][j]
      /\ w.Off \in [0..n -> Nat] /\ \A y \in 0..n : w.Off[y] <= N
  BY Zenon DEF Laid
<1>4. N <= M /\ M \in Nat /\ \A k \in 1..N : (mPl0Trans')[k].a = Accesses(r)[k]
  BY Zenon DEF Requested
<1>5. i \in 0..n /\ i - 1 \in 0..n
  <2>1. i \in 1..n
    OBVIOUS
  <2> HIDE DEF n
  <2> QED BY <1>3, <2>1
<1>6. a \in Nat /\ b \in Nat /\ b <= N
  BY <1>3, <1>5, Zenon
<1>7. mNumPl2Pkt' = n
  BY <1>3, RequestSets, Zenon
<1> HIDE DEF l, n, N, a, b, M
<1>8. l <= M /\ l = b - a /\ \A j \in 1..l : a + j \in 1..N
  BY <1>3, <1>4, <1>6
<1>9. \A j \in 1..l : r.pkts[i][j] = (mPl0Trans')[a + j].a
  BY <1>3, <1>4, <1>8, Zenon
<1>10. i \in 1..n
  BY DEF n
<1>11. Own(q, i, x, w.Off)'
  BY <1>2, <1>7, <1>8, <1>9, <1>10, Zenon DEF Own, l, a, b
<1> QED BY <1>2, <1>8, <1>11, Zenon DEF l, M

LEMMA RequestStream ==
    ASSUME Types1, StreamInv, NEW r \in Requests, Request(r)
    PROVE  /\ StreamInv'
           /\ \E w, x : Laid(r, w) /\ x \in Nat /\ mPl1CntOutstandingLast = Cnt(x) /\ Requested(r, x)
<1>1. PICK u : Layout(u.Off, u.W) /\ Underway(u)
  BY Zenon DEF StreamInv
<1>2. PICK w : Laid(r, w)
  BY RequestLaid
<1>3. PICK x : x = u.base + mNumPl2Pkt
  OBVIOUS
<1>4. PICK L : L = Len(stream)
  OBVIOUS
<1>5. PICK n : n = Len(r.pkts)
  OBVIOUS
<1>6. PICK m : m = L + n
  OBVIOUS
<1>7. PICK U : U = u.U
  OBVIOUS
<1>8. /\ u.base \in Nat /\ mPl1CntOutstandingLast = Cnt(x)
      /\ U \in [0..L -> Nat] /\ U[L] = x
      /\ \A k \in 1..L :
          /\ U[k] = IF stream[k].rq = 0 THEN U[k - 1] ELSE U[k - 1] + 1
          /\ stream[k].rq <= call
          /\ stream[k].rq # 0 => stream[k].cnt = Cnt(U[k]) /\ Len(stream[k].acc) <= Len(mPl0Trans)
          /\ resets = 0 => stream[k].rq # 0
  BY <1>1, <1>3, <1>4, <1>7, Zenon DEF Underway
<1>9. n \in Nat /\ n > 0
  BY <1>2, <1>5, Zenon DEF Laid
<1>10. mNumPl2Pkt \in Nat /\ call \in Nat /\ stream \in Seq(Packet)
  BY Zenon DEF Types1, Scalars
<1>11. L \in Nat
  BY <1>4, <1>10, LenProperties
<1>12. x \in Nat /\ m \in Nat /\ L <= m /\ x + n \in Nat
  BY <1>3, <1>6, <1>8, <1>9, <1>10, <1>11
<1>13. Requested(r, x)
  BY <1>2, <1>8, <1>12, RequestDone, Zenon
<1>14. /\ mPl0NumTrans' = Len(Accesses(r)) /\ mNumPl2Pkt' = n
       /\ mPl1CntOutstandingLast' = Cnt(x + n) /\ mPl1CntOutstandingOldest' = Cnt(x + 1)
       /\ call' = call + 1 /\ phase' = "sent" /\ resets' = resets
  BY <1>5, <1>8, <1>9, <1>12, RequestSets, Zenon
<1>15. /\ Len(mPl0Trans) <= Len(mPl0Trans') /\ Len(mPl0Trans') \in Nat /\ Len(mPl0Trans) \in Nat
       /\ stream' \in Seq(Packet) /\ Len(stream') = m
       /\ \A k \in 1..L : (stream')[k] = stream[k]
  BY <1>4, <1>5, <1>6, <1>13, Zenon DEF Requested
<1>16. PICK V : V = [k \in 0..m |-> IF k <= L THEN U[k] ELSE x + (k - L)]
  OBVIOUS
<1>17. PICK v : v.base = x /\ v.U = V /\ v.Off = w.Off /\ v.W = w.W
  <2> DEFINE v == [base |-> x, U |-> V, Off |-> w.Off, W |-> w.W]
  <2>1. v.base = x /\ v.U = V /\ v.Off = w.Off /\ v.W = w.W
    OBVIOUS
  <2> QED BY <2>1
<1>18. \A k \in 0..L : U[k] \in Nat /\ U[k] <= x
  <2> SUFFICES ASSUME NEW k \in 0..L PROVE U[k] \in Nat /\ U[k] <= x
    OBVIOUS
  <2>1. L \in k..L
    BY <1>11
  <2>2. Growing(U, k, L)
    BY <1>1, <1>4, <1>7, <2>1, CountsGrow
  <2> QED BY <1>8, <2>2 DEF Growing
<1>19. \A k \in 0..m : (IF k <= L THEN U[k] ELSE x + (k - L)) \in Nat
  <2> SUFFICES ASSUME NEW k \in 0..m PROVE (IF k <= L THEN U[k] ELSE x + (k - L)) \in Nat
    OBVIOUS
  <2>1. CASE k <= L
    <3>1. k \in 0..L
      BY <1>11, <2>1
    <3> QED BY <1>18, <2>1, <3>1
  <2>2. CASE ~(k <= L)
    BY <1>11, <1>12, <2>2
  <2> QED BY <2>1, <2>2
<1>20. V \in [0..m -> Nat]
  BY <1>16, <1>19, Zenon
<1>21. V[m] = x + n /\ V[0] = U[0] /\ V[0] <= x
  <2>1. m \in 0..m /\ ~(m <= L) /\ m - L = n /\ 0 \in 0..m /\ 0 <= L /\ 0 \in 0..L
    BY <1>6, <1>9, <1>11
  <2>2. V[m] = x + (m - L) /\ V[0] = U[0]
    BY <1>16, <2>1, Zenon
  <2> QED BY <1>18, <2>1, <2>2, Zenon
<1>22. ASSUME NEW k \in 1..m
       PROVE  /\ V[k] = IF (stream')[k].rq = 0 THEN V[k - 1] ELSE V[k - 1] + 1
              /\ (stream')[k].rq <= call'
              /\ (stream')[k].rq # 0 => /\ (stream')[k].cnt = Cnt(V[k])
                                        /\ Len((stream')[k].acc) <= Len(mPl0Trans')
                                        /\ (stream')[k].rq = call' <=> V[k] > x
                                        /\ (stream')[k].rq = call' => Own(stream[k], V[k] - x, x, w.Off)'
              /\ resets' = 0 => (stream')[k].rq # 0
  <2>1. k \in Nat /\ k \in 0..m /\ k - 1 \in 0..m
    BY <1>12
  <2>2. CASE k <= L
    <3>1. k \in 1..L /\ k - 1 <= L /\ k \in 0..L
      BY <1>11, <2>1, <2>2
    <3>2. V[k] = U[k] /\ V[k - 1] = U[k - 1] /\ (stream')[k] = stream[k]
      BY <1>15, <1>16, <2>1, <2>2, <3>1, Zenon
    <3>3. stream[k].rq <= call' /\ stream[k].rq # call'
      <4>1. stream[k] \in Packet
        BY <1>4, <1>10, <3>1, ElementOfSeq
      <4>2. stream[k].rq \in Nat
        BY <4>1 DEF Packet
      <4>3. stream[k].rq <= call
        BY <1>8, <3>1
      <4> QED BY <1>10, <1>14, <4>2, <4>3
    <3>4. ~(U[k] > x)
      BY <1>12, <1>18, <3>1
    <3>5. stream[k].rq # 0 => Len(stream[k].acc) <= Len(mPl0Trans')
      <4> SUFFICES ASSUME stream[k].rq # 0 PROVE Len(stream[k].acc) <= Len(mPl0Trans')
        OBVIOUS
      <4>1. Len(stream[k].acc) <= Len(mPl0Trans)
        BY <1>8, <3>1
      <4>2. stream[k] \in Packet
        BY <1>4, <1>10, <3>1, ElementOfSeq
      <4>3. stream[k].acc \in Seq(Pl0Access)
        BY <4>2 DEF Packet
      <4>4. Len(stream[k].acc) \in Nat
        BY <4>3, LenProperties
      <4> DEFINE a == Len(stream[k].acc)
                 b == Len(mPl0Trans)
                 c == Len(mPl0Trans')
      <4>5. a <= b /\ b <= c /\ a \in Nat /\ b \in Nat /\ c \in Nat
        BY <1>15, <4>1, <4>4
      <4> HIDE DEF a, b, c
      <4>6. a <= c
        BY <4>5
      <4> QED BY <4>6 DEF a, c
    <3>6. /\ U[k] = IF stream[k].rq = 0 THEN U[k - 1] ELSE U[k - 1] + 1
          /\ stream[k].rq # 0 => stream[k].cnt = Cnt(U[k])
          /\ resets = 0 => stream[k].rq # 0
      BY <1>8, <3>1, Zenon
    <3>7. V[k] = IF (stream')[k].rq = 0 THEN V[k - 1] ELSE V[k - 1] + 1
      BY <3>2, <3>6, Zenon
    <3>8. resets' = 0 => (stream')[k].rq # 0
      BY <1>14, <3>2, <3>6, Zenon
    <3>9. (stream')[k].rq # 0 => (stream')[k].cnt = Cnt(V[k]) /\ Len((stream')[k].acc) <= Len(mPl0Trans')
      BY <3>2, <3>5, <3>6, Zenon
    <3>10. (stream')[k].rq <= call' /\ (stream')[k].rq # call' /\ ~(V[k] > x)
      BY <3>2, <3>3, <3>4, Zenon
    <3> QED BY <3>7, <3>8, <3>9, <3>10, Zenon
  <2>3. CASE ~(k <= L)
    <3>1. PICK i : i = k - L
      OBVIOUS
    <3>2. i \in 1..n /\ L + i = k /\ i \in Nat /\ i > 0
      BY <1>6, <1>9, <1>11, <2>1, <2>3, <3>1
    <3>3. PICK q : q = (stream')[k]
      OBVIOUS
    <3>4. /\ q.rq = call + 1 /\ q.cnt = Cnt(x + i) /\ Len(q.acc) <= Len(mPl0Trans')
          /\ Own(q, i, x, w.Off)'
      <4>1. q = (stream')[Len(stream) + i] /\ i \in 1..Len(r.pkts)
        BY <1>4, <1>5, <3>2, <3>3, Zenon
      <4> QED BY <1>2, <1>8, <1>12, <1>13, <4>1, RequestOwn
    <3>5. V[k] = x + i
      BY <1>16, <2>1, <2>3, <3>1, Zenon
    <3>6. V[k] = V[k - 1] + 1
      <4>1. CASE k - 1 <= L
        <5>1. k - 1 = L /\ i = 1
          BY <1>11, <2>1, <2>3, <3>1, <4>1
        <5>2. V[k - 1] = U[k - 1]
          BY <1>16, <2>1, <4>1, Zenon
        <5> QED BY <1>8, <3>5, <5>1, <5>2
      <4>2. CASE ~(k - 1 <= L)
        <5>1. V[k - 1] = x + ((k - 1) - L)
          BY <1>16, <2>1, <4>2, Zenon
        <5>2. x + i = (x + ((k - 1) - L)) + 1
          BY <1>11, <1>12, <2>1, <3>1
        <5> QED BY <3>5, <5>1, <5>2, Zenon
      <4> QED BY <4>1, <4>2
    <3>7. x + i > x /\ (x + i) - x = i /\ call + 1 # 0 /\ call + 1 <= call + 1
      BY <1>10, <1>12, <3>2
    <3>8. Own(q, V[k] - x, x, w.Off)'
      BY <3>4, <3>5, <3>7, Zenon
    <3>9. Own(stream[k], V[k] - x, x, w.Off)'
      <4> HIDE DEF Own
      <4> QED BY <3>3, <3>8, Zenon
    <3>10. V[k] > x
      BY <3>5, <3>7, Zenon
    <3> QED BY <1>14, <3>3, <3>4, <3>5, <3>6, <3>7, <3>9, <3>10, Zenon
  <2> QED BY <2>2, <2>3
<1>23. Underway(v)'
  <2>1. mNumPl2Pkt' = n /\ Len(stream') = m
    BY <1>14, <1>15
  <2> HIDE DEF Own
  <2> QED BY <1>12, <1>14, <1>17, <1>20, <1>21, <1>22, <2>1, ZenonT(60) DEF Underway
<1>24. Layout(v.Off, v.W)'
  <2>1. Layout(w.Off, w.W)'
    BY <1>2, <1>8, <1>12, <1>13, RequestLayout
  <2> QED BY <1>17, <2>1, Zenon
<1>25. StreamInv'
  BY <1>23, <1>24, Zenon DEF StreamInv
<1> QED BY <1>2, <1>8, <1>12, <1>13, <1>25, Zenon

LEMMA RequestStep ==
    ASSUME IInv, NEW r \in Requests, Request(r)
    PROVE  IInv'
<1>1. Types1 /\ StreamInv
  BY Zenon DEF IInv
<1>2. PICK w, x : Laid(r, w) /\ x \in Nat /\ mPl1CntOutstandingLast = Cnt(x) /\ Requested(r, x)
  BY <1>1, RequestStream
<1>3. StreamInv'
  BY <1>1, RequestStream
<1>4. Len(r.pkts) \in Nat /\ Len(r.pkts) > 0 /\ Len(Accesses(r)) \in Nat
  BY <1>2, Zenon DEF Laid
<1>5. /\ mPl0NumTrans' = Len(Accesses(r)) /\ mNumPl2Pkt' = Len(r.pkts)
      /\ mRspSize' = RspWords(Len(r.pkts), Accesses(r))
      /\ mPl1CntOutstandingLast' = Cnt(x + Len(r.pkts)) /\ mPl1CntOutstandingOldest' = Cnt(x + 1)
      /\ call' = call + 1 /\ phase' = "sent" /\ call \in Nat /\ phase # "sent"
      /\ tas_err' = tas_err /\ rsp' = rsp /\ p' = p /\ resets' = resets
  BY <1>1, <1>2, <1>4, RequestSets, Zenon
<1>6. /\ mPl0Trans' \in Seq(TransEntry) /\ mPl0TransRsp' \in Seq(Result)
      /\ Len(mPl0TransRsp') = Len(mPl0Trans') /\ Len(Accesses(r)) <= Len(mPl0Trans')
      /\ \A i \in 1..Len(Accesses(r)) : (mPl0Trans')[i].call = call + 1 /\ (mPl0TransRsp')[i] = Unanswered
      /\ stream' \in Seq(Packet)
  BY <1>2, Zenon DEF Requested
<1>7. mRspSize' \in Nat
  <2>1. RspWords(Len(r.pkts), Accesses(r)) = 3 * Len(r.pkts) + w.W[Len(Accesses(r))]
    BY <1>2, Zenon DEF Laid
  <2>2. w.W[Len(Accesses(r))] \in Nat
    <3>1. Len(Accesses(r)) \in 0..Len(Accesses(r))
      BY <1>4
    <3>2. w.W \in [0..Len(Accesses(r)) -> Nat]
      BY <1>2, Zenon DEF Laid, AnswerSums
    <3> QED BY <3>1, <3>2, Zenon
  <2> DEFINE a == Len(r.pkts)
             b == w.W[Len(Accesses(r))]
  <2>3. a \in Nat /\ b \in Nat /\ mRspSize' = 3 * a + b
    BY <1>4, <1>5, <2>1, <2>2
  <2> HIDE DEF a, b
  <2> QED BY <2>3
<1>8. Types1'
  <2>1. Scalars'
    <3>1. resets \in Nat /\ tas_err \in TasErrs
      BY <1>1, Zenon DEF Types1, Scalars
    <3>2. call + 1 \in Nat /\ call + 1 > 0
      BY <1>5
    <3>3. phase' # "parse" /\ phase' \in {"idle", "sent", "parse", "done", "merged"}
      BY <1>5
    <3> QED BY <1>4, <1>5, <1>7, <3>1, <3>2, <3>3, Zenon DEF Scalars
  <2>2. Arrays'
    BY <1>5, <1>6, Zenon DEF Arrays
  <2>3. Counts'
    <3>1. x + Len(r.pkts) \in Nat /\ x + 1 \in Nat
      BY <1>2, <1>4
    <3>2. Cnt(x + Len(r.pkts)) \in UInt16 /\ Cnt(x + 1) \in UInt16
      BY <3>1, CntType
    <3> QED BY <1>5, <3>2, Zenon DEF Counts
  <2>4. Parsed'
    BY <1>1, <1>5, Zenon DEF Types1, Parsed
  <2> QED BY <1>6, <2>1, <2>2, <2>3, <2>4, Zenon DEF Types1
<1>9. Fresh'
  BY <1>5, <1>6, Zenon DEF Fresh
<1>10. phase' # "parse" /\ phase' # "done"
  BY <1>5
<1>11. ParseInv'
  BY <1>10, Zenon DEF ParseInv
<1>12. DoneInv'
  BY <1>10, NotDone
<1> QED BY <1>3, <1>8, <1>9, <1>11, <1>12, Zenon DEF IInv

\* A turn of the loop.
ParseNext == ParseStart \/ ParseEnd \/ ParseWr \/ ParseRd \/ ParseOut

LEMMA ParseStep ==
    ASSUME IInv, ParseNext
    PROVE  IInv' /\ phase = "parse" /\ (Refused => Part.rq # call)
<1>1. Types1 /\ StreamInv /\ ParseInv
  BY Zenon DEF IInv
<1>2. phase = "parse" /\ UNCHANGED requestVars /\ UNCHANGED <<call, stream, resets>>
  <2>1. CASE ParseStart
    BY <2>1, Zenon DEF ParseStart, Turn, parseEnv
  <2>2. CASE ParseEnd
    BY <2>2, Zenon DEF ParseEnd, Turn, parseEnv
  <2>3. CASE ParseWr
    BY <2>3, Zenon DEF ParseWr, Accept, Turn, parseEnv
  <2>4. CASE ParseRd
    BY <2>4, Zenon DEF ParseRd, Accept, Turn, parseEnv
  <2>5. CASE ParseOut
    BY <2>5, Zenon DEF ParseOut, Turn, parseEnv
  <2> QED BY <2>1, <2>2, <2>3, <2>4, <2>5 DEF ParseNext
<1>3. Types1' /\ Fresh' /\ ParseInv' /\ DoneInv' /\ (Refused => Part.rq # call)
  <2>1. CASE ParseStart
    BY <1>1, <2>1, StartTypes, StartStep, Zenon
  <2>2. CASE ParseEnd
    BY <1>1, <2>2, EndTypes, EndStep, Zenon
  <2>3. CASE ParseWr
    BY <1>1, <2>3, WrTypes, WrStep, Zenon
  <2>4. CASE ParseRd
    BY <1>1, <2>4, RdTypes, RdStep, Zenon
  <2>5. CASE ParseOut
    BY <1>1, <2>5, OutTypes, OutStep, Zenon
  <2> QED BY <2>1, <2>2, <2>3, <2>4, <2>5 DEF ParseNext
<1>4. phase' # "sent"
  <2>1. CASE ParseStart
    BY <1>2, <2>1, Zenon DEF ParseStart, Return
  <2>2. CASE ParseEnd
    BY <1>2, <2>2, Zenon DEF ParseEnd, Return
  <2>3. CASE ParseWr
    BY <1>2, <2>3, Zenon DEF ParseWr, Accept, Return
  <2>4. CASE ParseRd
    BY <1>2, <2>4, Zenon DEF ParseRd, Accept, Return
  <2>5. CASE ParseOut
    BY <1>2, <2>5, Zenon DEF ParseOut, Return
  <2> QED BY <2>1, <2>2, <2>3, <2>4, <2>5 DEF ParseNext
<1>5. StreamInv'
  BY <1>1, <1>2, <1>4, StreamStays, Zenon
<1> QED BY <1>2, <1>3, <1>5, Zenon DEF IInv

LEMMA StutterStep ==
    ASSUME IInv, UNCHANGED vars
    PROVE  IInv'
<1>1. /\ UNCHANGED requestVars /\ mPl0TransRsp' = mPl0TransRsp
      /\ mPl1CntOutstandingOldest' = mPl1CntOutstandingOldest
      /\ tas_err' = tas_err /\ phase' = phase /\ rsp' = rsp /\ p' = p /\ call' = call
      /\ stream' = stream /\ resets' = resets
  BY DEF vars
<1>2. /\ mNumPl2Pkt' = mNumPl2Pkt /\ mPl1CntOutstandingLast' = mPl1CntOutstandingLast
      /\ mPl0Trans' = mPl0Trans /\ mPl0NumTrans' = mPl0NumTrans /\ mRspSize' = mRspSize
  BY <1>1 DEF requestVars
<1>3. Types1 /\ StreamInv /\ Fresh /\ ParseInv /\ DoneInv
  BY Zenon DEF IInv
<1>4. Types1'
  BY <1>1, <1>2, <1>3, Zenon DEF Types1, Scalars, Arrays, Counts, Parsed
<1>5. StreamInv'
  <2>1. PICK u : Layout(u.Off, u.W) /\ Underway(u)
    BY <1>3, Zenon DEF StreamInv
  <2>2. Layout(u.Off, u.W)'
    BY <1>2, <2>1, Zenon DEF Layout
  <2>3. Underway(u)'
    <3>1. \A q, y : Own(q, y, u.base, u.Off)' <=> Own(q, y, u.base, u.Off)
      BY <1>2, Zenon DEF Own
    <3>2. \A k \in 1..Len(stream) :
              (stream[k].rq = call => Own(stream[k], u.U[k] - u.base, u.base, u.Off))
              => (stream[k].rq = call => Own(stream[k], u.U[k] - u.base, u.base, u.Off)')
      BY <1>1, <3>1, Zenon
    <3> HIDE DEF Own
    <3> QED BY <1>1, <1>2, <2>1, <3>2, ZenonT(60) DEF Underway
  <2> QED BY <2>2, <2>3, Zenon DEF StreamInv
<1>6. Fresh'
  BY <1>1, <1>2, <1>3, Zenon DEF Fresh
<1>7. ParseInv'
  <2> SUFFICES ASSUME phase' = "parse" PROVE ParseInv'
    BY Zenon DEF ParseInv
  <2>1. PICK g : Response(g) /\ \E k, j : At(g, k, j)
    BY <1>1, <1>3, Zenon DEF ParseInv
  <2>2. PICK k, j : At(g, k, j)
    BY <2>1, Zenon
  <2>3. Response(g)'
    <3>1. Layout(g.Off, g.W) => Layout(g.Off, g.W)'
      BY <1>2, Zenon DEF Layout
    <3>2. Taken(g.base, g.Off, g.qs, g.Y) => Taken(g.base, g.Off, g.qs, g.Y)'
      BY <1>1, <1>2, Zenon DEF Taken, Own, Stale
    <3> QED BY <1>2, <2>1, <3>1, <3>2, Zenon DEF Response
  <2>4. At(g, k, j)'
    <3>1. Entries(p.iTrans) => Entries(p.iTrans)'
      BY <1>1, <1>2, Zenon DEF Entries, FirstFailure, Failed, ErrorOf
    <3>2. \A q : Stale(q)' <=> Stale(q)
      BY <1>1, Zenon DEF Stale
    <3> HIDE DEF Stale, Entries
    <3>3. Within(g, k, j)'
      BY <1>2, <2>2, WithinStays, Zenon DEF At
    <3> QED BY <1>1, <1>2, <2>2, <3>1, <3>2, <3>3, ZenonT(60) DEF At
  <2> QED BY <2>3, <2>4, Zenon DEF ParseInv
<1>8. DoneInv'
  <2>1. SuccessIsOwn'
    BY <1>1, <1>2, <1>3, Zenon DEF DoneInv, SuccessIsOwn, Success, Trans, Failed
  <2>2. SuccessIsComplete'
    BY <1>1, <1>2, <1>3, Zenon DEF DoneInv, SuccessIsComplete, Success, Trans
  <2>3. FirstErrorWins'
    BY <1>1, <1>2, <1>3, Zenon DEF DoneInv, FirstErrorWins, Trans, Failed, ErrorOf
  <2>4. (phase = "done" /\ tas_err = "SERVER_CON" => \E i \in DOMAIN rsp : rsp[i].rq # call)'
    BY <1>1, <1>3, Zenon DEF DoneInv
  <2> QED BY <2>1, <2>2, <2>3, <2>4, Zenon DEF DoneInv
<1> QED BY <1>4, <1>5, <1>6, <1>7, <1>8, Zenon DEF IInv

LEMMA InvStep ==
    ASSUME IInv, FewUnderway, [Next]_vars
    PROVE  IInv'
<1>1. CASE UNCHANGED vars
  BY <1>1, StutterStep
<1>2. CASE Next
  <2>1. ASSUME NEW r \in Requests, Request(r) PROVE IInv'
    BY <2>1, RequestStep
  <2>2. CASE DeviceReset
    BY <2>2, ResetStep
  <2>3. CASE Timeout
    BY <2>3, TimeoutStep
  <2>4. CASE Receive
    BY <2>4, ReceiveStep
  <2>5. CASE ParseNext
    BY <2>5, ParseStep
  <2>6. CASE rw_get_trans_rsp
    BY <2>6, MergeStep
  <2> QED BY <1>2, <2>1, <2>2, <2>3, <2>4, <2>5, <2>6 DEF Next, ParseNext
<1> QED BY <1>1, <1>2

\* What a step may refuse (the action of OwnNotRefused).
NotRefusedStep ==
    (phase' = "done" /\ tas_err' = "SERVER_CON")
        => IF phase = "parse" THEN Part.rq # call
           ELSE \E i \in DOMAIN rsp' : rsp'[i].rq # call

LEMMA RefuseStep ==
    ASSUME IInv, FewUnderway, Next
    PROVE  NotRefusedStep
<1>1. ASSUME NEW r \in Requests, Request(r) PROVE phase' # "done"
  BY <1>1, Zenon DEF Request
<1>2. ASSUME DeviceReset PROVE NotRefusedStep
  <2>1. phase' = phase /\ tas_err' = tas_err /\ rsp' = rsp /\ call' = call
    BY <1>2, Zenon DEF DeviceReset
  <2>2. phase = "done" => phase # "parse"
    OBVIOUS
  <2> QED BY <2>1, <2>2, Zenon DEF NotRefusedStep, IInv, DoneInv
<1>3. ASSUME Timeout PROVE phase' # "done"
  BY <1>3, Zenon DEF Timeout
<1>4. ASSUME Receive PROVE NotRefusedStep
  <2>1. phase # "parse"
    BY <1>4, Zenon DEF Receive
  <2>2. Refused => \E i \in DOMAIN rsp' : (rsp')[i].rq # call
    BY <1>4, ReceiveStep
  <2> QED BY <2>1, <2>2, Zenon DEF NotRefusedStep, Refused
<1>5. ASSUME ParseNext PROVE NotRefusedStep
  BY <1>5, ParseStep, Zenon DEF NotRefusedStep, Refused
<1>6. ASSUME rw_get_trans_rsp PROVE phase' # "done"
  BY <1>6, Zenon DEF rw_get_trans_rsp
<1> QED BY <1>1, <1>2, <1>3, <1>4, <1>5, <1>6, Zenon DEF Next, ParseNext, NotRefusedStep

--------------------------------------------------------------------------------
(* Where data of a late response may get to.                                 *)

\* An answer begins with a packet header and PL0_START.
LEMMA StartWords ==
    ASSUME NEW q, NEW s, AnswerTo(q, s), NEW C, Sums(s, C)
    PROVE  C[1] = 2 /\ Len(s) \in Nat /\ Len(s) >= 1 /\ s \in Seq(Piece)
<1>1. s \in Seq(Piece) /\ Len(s) >= 1 /\ s[1].cmd = "PL0_START"
  BY Zenon DEF AnswerTo
<1>2. Len(s) \in Nat
  BY <1>1, LenProperties
<1>3. 1 \in 1..Len(s) /\ 1 - 1 = 0
  BY <1>1, <1>2
<1>4. PartWords(s[1]) = 2
  BY <1>1 DEF PartWords
<1>5. C[0] = 0 /\ C[1] = C[1 - 1] + PartWords(s[1])
  BY <1>3, Zenon DEF Sums
<1>6. C[1] = 0 + 2
  BY <1>3, <1>4, <1>5, Zenon
<1> QED BY <1>1, <1>2, <1>6

LEMMA AnswerAtLeast ==
    ASSUME NEW q, NEW s, AnswerTo(q, s)
    PROVE  NumWords(s) \in Nat /\ NumWords(s) >= 2
<1>1. s \in Seq(Piece)
  BY Zenon DEF AnswerTo
<1>2. PICK C : Sums(s, C) /\ NumWords(s) = C[Len(s)]
  BY <1>1, NumWordsSums
<1>3. C[1] = 2 /\ Len(s) \in Nat /\ Len(s) >= 1
  BY <1>2, StartWords
<1>4. 1 \in 0..Len(s) /\ Len(s) \in 1..Len(s)
  BY <1>3
<1>5. C[Len(s)] \in Nat /\ C[1] + (Len(s) - 1) <= C[Len(s)]
  BY <1>1, <1>2, <1>4, SumsGrow
<1> QED BY <1>2, <1>3, <1>5

\* The answer that is read, if it has more accesses than the request, is longer than
\* the answers to all of these.
LEMMA LongAnswer ==
    ASSUME Types1, NEW g, NEW k, NEW j, Reading(g, k, j), Assigned(g, k, j), Within(g, k, j),
           g.Y[k - 1] = 0, mPl0NumTrans < j, PartWords(Part) >= 2,
           \A i \in 1..(j - 1) : g.A[k][i + 1].err = "NO_ERROR"
    PROVE  g.W[mPl0NumTrans] \in Nat /\ NumWords(g.A[k]) >= g.W[mPl0NumTrans] + 5
<1> DEFINE s == g.A[k]
           n == mPl0NumTrans
           z == Len(s)
           m == Len(g.qs[k].acc)
<1>1. Response(g) /\ Here(g, k, j) /\ k \in 1..mNumPl2Pkt
  BY Zenon DEF Reading, Here
<1>2. AnswerTo(g.qs[k], s) /\ s \in Seq(Piece)
  <2>1. Typed(g, k)
    BY <1>1, ResponseTypes, Zenon
  <2> QED BY <2>1, Zenon DEF Typed
<1>3. PICK C : Sums(s, C) /\ NumWords(s) = C[z]
  BY <1>2, NumWordsSums
<1>4. C[1] = 2 /\ z \in Nat
  BY <1>2, <1>3, StartWords
<1>5. m \in Nat /\ j \in Nat /\ j >= 1 /\ j <= m /\ z = m + 2
  BY Zenon DEF Assigned
<1>6. n \in Nat /\ n < j
  BY Zenon DEF Types1, Scalars
<1> DEFINE W == g.W
<1>7. W \in [0..n -> Nat] /\ W[0] = 0 /\ \A i \in 1..n : W[i] = W[i - 1] + AnswerWords(mPl0Trans[i].a)
  BY <1>1, Zenon DEF Response, Layout
<1>8. \A i \in 1..n : PartWords(s[i + 1]) = AnswerWords(mPl0Trans[i].a)
  <2>1. \A i \in 1..n : i \in 1..(j - 1) /\ i <= n
    <3> HIDE DEF n
    <3> QED BY <1>5, <1>6
  <2>2. Got(j, g.qs[k]) = j - 1
    <3> HIDE DEF m
    <3>1. (IF j <= 1 THEN 0 ELSE IF j - 1 <= m THEN j - 1 ELSE m) = j - 1
      BY <1>5
    <3> QED BY <3>1, Zenon DEF m, Got
  <2> QED BY <2>1, <2>2, Zenon DEF Within
<1> DEFINE P == {i \in Nat : i <= n => C[i + 1] = 2 + W[i]}
<1> HIDE DEF n, z, m, s, W
<1>9. \A i \in 1..z : C[i] = C[i - 1] + PartWords(s[i])
  BY <1>3, Zenon DEF Sums, z
<1>10. 0 \in P
  BY <1>4, <1>7
<1>11. ASSUME NEW i \in P PROVE i + 1 \in P
  <2>1. i \in Nat /\ (i <= n => C[i + 1] = 2 + W[i])
    BY <1>11
  <2> SUFFICES ASSUME i + 1 <= n PROVE C[(i + 1) + 1] = 2 + W[i + 1]
    BY <2>1
  <2>2. i + 1 \in 1..n /\ (i + 1) - 1 = i /\ (i + 1) + 1 \in 1..z /\ ((i + 1) + 1) - 1 = i + 1 /\ i <= n
        /\ i \in 0..n /\ i + 1 \in 0..n
    BY <1>5, <1>6, <2>1
  <2>3. C[(i + 1) + 1] = C[((i + 1) + 1) - 1] + PartWords(s[(i + 1) + 1])
    BY <1>9, <2>2, Zenon
  <2>4. W[i + 1] = W[(i + 1) - 1] + AnswerWords(mPl0Trans[i + 1].a)
    BY <1>7, <2>2, Zenon
  <2>5. PartWords(s[(i + 1) + 1]) = AnswerWords(mPl0Trans[i + 1].a)
    BY <1>8, <2>2, Zenon
  <2>6. W[i] \in Nat /\ W[i + 1] \in Nat
    BY <1>7, <2>2
  <2> DEFINE a == AnswerWords(mPl0Trans[i + 1].a)
             x == W[i + 1]
             y == W[i]
  <2>7. C[(i + 1) + 1] = (2 + y) + a /\ x = y + a
    BY <2>1, <2>2, <2>3, <2>4, <2>5
  <2>8. a \in Int
    <3>1. i + 1 \in 1..Len(mPl0Trans)
      <4>1. mPl0Trans \in Seq(TransEntry) /\ n <= Len(mPl0Trans)
        BY Zenon DEF Types1, Arrays, n
      <4>2. Len(mPl0Trans) \in Nat
        BY <4>1, LenProperties
      <4> QED BY <2>2, <4>1, <4>2, <1>6
    <3> QED BY <3>1, EntryFields
  <2> HIDE DEF a, x, y
  <2>9. y \in Nat /\ x \in Nat
    BY <2>6 DEF x, y
  <2>10. C[(i + 1) + 1] = 2 + x
    BY <2>7, <2>8, <2>9
  <2> QED BY <2>10 DEF x
<1>12. \A i \in Nat : i \in P
  <2>1. P \in SUBSET Nat /\ \A i \in P : i + 1 \in P
    BY <1>11
  <2> HIDE DEF P
  <2> QED BY <1>10, <2>1, SetInduction
<1>13. C[n + 1] = 2 + W[n] /\ W[n] \in Nat
  BY <1>6, <1>7, <1>12
<1>14. /\ n + 1 \in 0..z /\ j \in (n + 1)..z /\ j + 1 \in 0..z /\ z \in (j + 1)..z /\ j + 1 \in 1..z
       /\ (j + 1) - 1 = j
  BY <1>4, <1>5, <1>6
<1>15. C[n + 1] \in Nat /\ C[j] \in Nat /\ C[n + 1] + (j - (n + 1)) <= C[j]
  BY <1>2, <1>3, <1>14, SumsGrow DEF z
<1>16. C[j + 1] \in Nat /\ C[z] \in Nat /\ C[j + 1] + (z - (j + 1)) <= C[z]
  BY <1>2, <1>3, <1>14, SumsGrow DEF z
<1>17. C[j + 1] = C[j] + PartWords(Part) /\ PartWords(Part) \in Nat
  <2>1. Part = s[j + 1] /\ PartWords(Part) \in Nat
    <3>1. Part \in Piece
      BY <1>1, Zenon DEF Here
    <3>2. Part = s[j + 1]
      BY <1>1, Zenon DEF Here, s
    <3> QED BY <3>1, <3>2, PieceFields
  <2>2. C[j + 1] = C[(j + 1) - 1] + PartWords(s[j + 1])
    BY <1>9, <1>14, Zenon
  <2> QED BY <1>14, <2>1, <2>2, Zenon
<1> DEFINE a == C[n + 1]
           b == C[j]
           c == C[j + 1]
           d == C[z]
           e == PartWords(Part)
           w == W[n]
<1>18. /\ a = 2 + w /\ w \in Nat /\ a \in Nat /\ b \in Nat /\ c \in Nat /\ d \in Nat /\ e \in Nat /\ e >= 2
       /\ a + (j - (n + 1)) <= b /\ c = b + e /\ c + (z - (j + 1)) <= d
  BY <1>13, <1>15, <1>16, <1>17
<1> HIDE DEF a, b, c, d, e, w
<1>19. d >= w + 5
  BY <1>5, <1>6, <1>18
<1> QED BY <1>3, <1>18, <1>19 DEF d, w, W, n, s

\* With at most two packets, one that is longer by two words than all answers makes
\* the response longer than expected.
LEMMA ShortRequest ==
    ASSUME Types1, NEW g, Response(g), mNumPl2Pkt <= 2, NEW k \in 1..mNumPl2Pkt,
           NEW w \in Nat, NumWords(g.A[k]) >= w + 5
    PROVE  NumWords(g.R[0]) > 3 * mNumPl2Pkt + w
<1> DEFINE n == mNumPl2Pkt
           A == g.A
           R == g.R
<1>1. n \in Nat /\ n <= 2
  BY Zenon DEF Types1, Scalars
<1>2. /\ A \in [1..n -> Seq(Piece)] /\ R \in [0..n -> Seq(Piece)] /\ R[n] = <<>>
      /\ \A i \in 1..n : R[i - 1] = A[i] \o R[i]
  BY Zenon DEF Response, Behind
<1>3. \A i \in 1..n : NumWords(A[i]) \in Nat /\ NumWords(A[i]) >= 2
  <2>1. \A i \in 1..n : AnswerTo(g.qs[i], A[i])
    BY Zenon DEF Response
  <2> QED BY <2>1, AnswerAtLeast
<1>4. \A i \in 1..n : NumWords(R[i - 1]) = NumWords(A[i]) + NumWords(R[i])
  <2> SUFFICES ASSUME NEW i \in 1..n PROVE NumWords(A[i] \o R[i]) = NumWords(A[i]) + NumWords(R[i])
    BY <1>2
  <2>1. A[i] \in Seq(Piece) /\ R[i] \in Seq(Piece)
    <3>1. i \in 0..n
      BY <1>1
    <3> QED BY <1>2, <3>1
  <2> QED BY <2>1, NumWordsConcat
<1>5. NumWords(R[n]) = 0
  BY <1>2, SumsEmpty
<1>6. k \in 1..n /\ NumWords(A[k]) >= w + 5
  OBVIOUS
<1> HIDE DEF n, A, R
<1>7. n = 1 \/ n = 2
  BY <1>1, <1>6
<1>8. CASE n = 1
  <2>1. k = 1 /\ 1 \in 1..n /\ 1 - 1 = 0
    BY <1>6, <1>8
  <2>2. NumWords(R[0]) = NumWords(A[1]) + NumWords(R[1])
    BY <1>4, <2>1
  <2>3. NumWords(A[1]) \in Nat
    BY <1>3, <2>1
  <2>4. NumWords(R[0]) > 3 * 1 + w
    BY <1>5, <1>6, <1>8, <2>1, <2>2, <2>3
  <2> QED BY <1>8, <2>4 DEF n, R
<1>9. CASE n = 2
  <2>1. (k = 1 \/ k = 2) /\ 1 \in 1..n /\ 2 \in 1..n /\ 1 - 1 = 0 /\ 2 - 1 = 1
    BY <1>6, <1>9
  <2>2. NumWords(R[0]) = NumWords(A[1]) + NumWords(R[1]) /\ NumWords(R[1]) = NumWords(A[2]) + NumWords(R[2])
    <3>1. NumWords(R[1 - 1]) = NumWords(A[1]) + NumWords(R[1]) /\ NumWords(R[2 - 1]) = NumWords(A[2]) + NumWords(R[2])
      BY <1>4, <2>1, Zenon
    <3> QED BY <2>1, <3>1, Zenon
  <2>3. /\ NumWords(A[1]) \in Nat /\ NumWords(A[1]) >= 2
        /\ NumWords(A[2]) \in Nat /\ NumWords(A[2]) >= 2
    BY <1>3, <2>1
  <2>4. NumWords(R[0]) > 3 * 2 + w
    BY <1>5, <1>6, <1>9, <2>1, <2>2, <2>3
  <2> QED BY <1>9, <2>4 DEF n, R
<1> QED BY <1>7, <1>8, <1>9

\* The bytes ParseRd notes for an access.
DataOf(e, a) == IF e.err = "NO_ERROR" THEN a.num_bytes ELSE IF e.cmd = "RDBLK" THEN 4 * e.n ELSE 0

\* An answer with data has at least two words.
LEMMA DataWords ==
    ASSUME NEW a0 \in Pl0Access, NEW a \in Pl0Access, NEW rq, NEW e \in Piece, AnswerOf(e, a0, rq),
           e.cmd \in RdCmds, RdOk(e, a), DataOf(e, a) > 0
    PROVE  PartWords(e) >= 2 /\ (e.err # "NO_ERROR" => e.n # 0)
<1>1. CASE e.err = "NO_ERROR"
  <2>1. PartWords(e) = AnswerWords(a)
    BY <1>1, PassesWords DEF Passes
  <2>2. a.type = "RD" /\ Words(a) \in Nat /\ Words(a) >= 1
    BY AccessFields DEF RdOk
  <2>3. AnswerWords(a) >= 2
    BY <2>2 DEF AnswerWords
  <2> QED BY <1>1, <2>1, <2>3
<1>2. CASE e.err # "NO_ERROR"
  <2>1. e.cmd = "RDBLK" /\ 4 * e.n > 0 /\ e.n \in Nat /\ e.wl = e.n
    BY <1>2, PieceFields DEF DataOf, RdOk
  <2>2. e.n >= 1
    BY <2>1
  <2>3. PartWords(e) = 1 + e.n
    BY <2>1 DEF PartWords
  <2> QED BY <2>1, <2>2, <2>3
<1> QED BY <1>1, <1>2

\* What ParseRd has accepted.
LEMMA RdAccepted ==
    ASSUME Types1, ParseInv, ParseRd, p'.iTrans > p.iTrans, mPl0TransRsp'[p'.iTrans].num_bytes_ok > 0
    PROVE  Turn /\ ~AtStart /\ Part.cmd \in RdCmds /\ RdOk(Part, Entry.a) /\ DataOf(Part, Entry.a) > 0
<1> DEFINE a == Entry.a
           ok == /\ Part.wl = Part.n
                 /\ a.type = "RD"
                 /\ IF Part.cmd = "RDBLK1KB"
                    THEN Words(a) = DataBlkWords /\ Part.wl = 0 /\ Part.err = "NO_ERROR"
                    ELSE IF Part.err # "NO_ERROR"
                    THEN IF Part.cmd = "RDBLK" THEN Part.n <= Words(a) ELSE Part.n = 0
                    ELSE Part.n = Words(a) % 256
           nb == IF Part.err = "NO_ERROR" THEN a.num_bytes
                 ELSE IF Part.cmd = "RDBLK" THEN 4 * Part.n ELSE 0
<1>1. Turn /\ ~AtStart /\ Part.cmd \in {"RD", "RDBLK", "RDBLK1KB"} /\ Accept(ok, FALSE, nb, "RW_READ")
  BY Zenon DEF ParseRd
<1>2. (ok <=> RdOk(Part, a)) /\ nb = DataOf(Part, a)
  BY Zenon DEF RdOk, DataOf
<1>3. Part.cmd \in RdCmds /\ Part.cmd # "PL0_END"
  BY <1>1 DEF RdCmds
<1>4. mPl0TransRsp \in Seq(Result) /\ p.iTrans + 1 \in 1..Len(mPl0TransRsp)
  BY <1>1, <1>3, AccessTypes DEF Types1, Arrays
<1> HIDE DEF ok, nb
<1>5. p \in [wi : Nat, next : Nat, iTrans : Nat]
  BY Zenon DEF Types1, Parsed
<1>6. ok
  <2> SUFFICES ASSUME ~ok PROVE FALSE
    OBVIOUS
  <2>1. p' = p
    BY <1>1, Zenon DEF Accept
  <2>2. p'.iTrans = p.iTrans /\ p.iTrans \in Nat
    BY <1>5, <2>1
  <2> QED BY <2>2
<1>7. Answered(nb, Part.err) /\ Consume([p EXCEPT !.iTrans = @ + 1])
  BY <1>1, <1>6, Zenon DEF Accept
<1>8. p'.iTrans = p.iTrans + 1
  BY <1>5, <1>7 DEF Consume
<1>9. mPl0TransRsp'[p.iTrans + 1].num_bytes_ok = nb
  <2> DEFINE i == p.iTrans + 1
             rec == [num_bytes_ok |-> nb, pl_err |-> Part.err, rq |-> Part.rq]
  <2>1. mPl0TransRsp' = [mPl0TransRsp EXCEPT ![i] = rec] /\ i \in DOMAIN mPl0TransRsp
    BY <1>4, <1>7 DEF Answered
  <2>2. rec.num_bytes_ok = nb
    OBVIOUS
  <2> HIDE DEF i, rec
  <2>3. mPl0TransRsp'[i] = rec
    BY <2>1
  <2> QED BY <2>2, <2>3, Zenon DEF i
<1>10. nb > 0
  BY <1>8, <1>9
<1> QED BY <1>1, <1>2, <1>3, <1>6, <1>10

\* Data of an earlier request does not get to an access of an earlier request.
LEMMA StrayStep ==
    ASSUME Types1, ParseInv, ParseRd, mNumPl2Pkt <= 2,
           p'.iTrans > p.iTrans, mPl0TransRsp'[p'.iTrans].num_bytes_ok > 0
    PROVE  Entry.call = call
<1>1. /\ Turn /\ ~AtStart /\ Part.cmd \in RdCmds /\ RdOk(Part, Entry.a) /\ DataOf(Part, Entry.a) > 0
      /\ phase = "parse" /\ rsp # <<>> /\ Part.cmd # "PL0_END"
  <2>1. Turn /\ ~AtStart /\ Part.cmd \in RdCmds /\ RdOk(Part, Entry.a) /\ DataOf(Part, Entry.a) > 0
    BY RdAccepted
  <2>2. Part.cmd # "PL0_END"
    BY <2>1 DEF RdCmds
  <2> QED BY <2>1, <2>2, Zenon DEF Turn
<1>2. PICK g : Response(g) /\ \E k, j : At(g, k, j) /\ Here(g, k, j)
  BY <1>1, TurnAt, Zenon
<1>3. PICK k, j : At(g, k, j) /\ Here(g, k, j)
  BY <1>2, Zenon
<1>4. Reading(g, k, j)
  BY <1>2, <1>3, Zenon DEF Reading
<1>5. j # 0 /\ k \in 1..mNumPl2Pkt
  <2>1. k \in 1..mNumPl2Pkt /\ (AtStart <=> j = 0)
    BY <1>1, <1>4, Position
  <2> QED BY <1>1, <2>1, Zenon
<1>6. Assigned(g, k, j)
  BY <1>1, <1>4, <1>5, AssignedTo, Zenon
<1>7. Within(g, k, j)
  BY <1>3, Zenon DEF At
<1>8. p.iTrans + 1 <= mPl0NumTrans => Entry.call = call
  <2>1. \A i \in 1..mPl0NumTrans : mPl0Trans[i].call = call
    BY Zenon DEF Types1, Arrays
  <2>2. p.iTrans \in Nat /\ mPl0NumTrans \in Nat
    BY <1>6, Zenon DEF Assigned, Types1, Scalars
  <2>3. p.iTrans + 1 <= mPl0NumTrans => p.iTrans + 1 \in 1..mPl0NumTrans
    BY <2>2
  <2> QED BY <2>1, <2>3, Zenon DEF Entry
<1>9. CASE g.qs[k].rq = call
  BY <1>6, <1>8, <1>9, Zenon DEF Assigned
<1>10. CASE g.qs[k].rq # call
  <2>1. Stale(g.qs[k])
    BY <1>6, <1>10, Zenon DEF Assigned, Stale
  <2>2. g.Y[k - 1] = 0 /\ g.Off[0] = 0
    BY <1>2, <1>5, <2>1, Zenon DEF Response, Taken, Layout
  <2>3. p.iTrans = j - 1 /\ j \in Nat /\ mPl0NumTrans \in Nat
    <3>1. p.iTrans = g.Off[g.Y[k - 1]] + (j - 1) /\ j \in Nat /\ g.Off[g.Y[k - 1]] = 0
      BY <1>6, <2>2, Zenon DEF Assigned
    <3>2. mPl0NumTrans \in Nat
      BY Zenon DEF Types1, Scalars
    <3> QED BY <3>1, <3>2
  <2> SUFFICES ASSUME ~(p.iTrans + 1 <= mPl0NumTrans) PROVE FALSE
    BY <1>8, Zenon
  <2>4. mPl0NumTrans < j
    BY <2>3
  <2> DEFINE q == g.qs[k]
             s == g.A[k]
             m == Len(q.acc)
  <2>5. /\ AnswerTo(q, s) /\ q.acc \in Seq(Pl0Access) /\ m \in Nat /\ j \in 1..m /\ Len(s) = m + 2
        /\ Part = s[j + 1] /\ Part \in Piece /\ AnswerOf(Part, q.acc[j], q.rq) /\ q.acc[j] \in Pl0Access
    <3>1. Typed(g, k)
      BY <1>2, <1>5, ResponseTypes, Zenon
    <3>2. AnswerTo(q, s) /\ q.acc \in Seq(Pl0Access) /\ m \in Nat
      BY <3>1, Zenon DEF Typed
    <3>3. j >= 1 /\ j <= m /\ Len(s) = m + 2
      BY <1>6, Zenon DEF Assigned
    <3>4. j \in 1..m
      <4> HIDE DEF m
      <4> QED BY <2>3, <3>2, <3>3
    <3>5. AnswerOf(Part, q.acc[j], q.rq) /\ q.acc[j] \in Pl0Access
      <4>1. j # m + 1
        <5> HIDE DEF m
        <5> QED BY <3>2, <3>4
      <4> QED BY <1>2, <1>3, <1>5, <4>1, AnswerPart, Zenon
    <3>6. Part = s[j + 1] /\ Part \in Piece
      BY <1>3, Zenon DEF Here
    <3> QED BY <3>2, <3>3, <3>4, <3>5, <3>6
  <2>6. PartWords(Part) >= 2 /\ (Part.err # "NO_ERROR" => Part.n # 0)
    <3>1. Entry.a \in Pl0Access
      BY <1>1, AccessTypes, Zenon
    <3> QED BY <1>1, <2>5, <3>1, DataWords, Zenon
  <2>7. \A i \in 1..(j - 1) : s[i + 1].err = "NO_ERROR"
    <3> SUFFICES ASSUME NEW i \in 1..(j - 1) PROVE s[i + 1].err = "NO_ERROR"
      OBVIOUS
    <3> DEFINE ans == [x \in DOMAIN q.acc |-> s[x + 1]]
    <3>1. FailsOn(q.acc, ans)
      <4>1. Len(s) # 1
        <5> HIDE DEF m, s
        <5> QED BY <2>5
      <4> QED BY <2>5, <4>1, Zenon DEF AnswerTo
    <3>2. DOMAIN q.acc = 1..m /\ i \in 1..m /\ j \in 1..m /\ i < j
      <4>1. DOMAIN q.acc = 1..m
        BY <2>5
      <4> HIDE DEF m
      <4> QED BY <2>3, <2>5, <4>1
    <3>3. ans[i] = s[i + 1] /\ ans[j] = Part
      BY <2>5, <3>2, Zenon
    <3> HIDE DEF ans
    <3>4. ans[i].err # "NO_ERROR" => ans[j].err # "NO_ERROR" /\ ans[j].n = 0
      BY <3>1, <3>2, Zenon DEF FailsOn
    <3> QED BY <2>6, <3>3, <3>4, Zenon
  <2> DEFINE w == g.W[mPl0NumTrans]
  <2>8. w \in Nat /\ NumWords(s) >= w + 5
    BY <1>4, <1>6, <1>7, <2>2, <2>4, <2>6, <2>7, LongAnswer
  <2>9. NumWords(g.R[0]) > 3 * mNumPl2Pkt + w
    BY <1>2, <1>5, <2>8, ShortRequest
  <2>10. NumWords(g.R[0]) <= mRspSize /\ mRspSize = 3 * mNumPl2Pkt + w
    BY <1>2, <1>7, Zenon DEF Within, Response, Layout
  <2>11. NumWords(g.R[0]) \in Int /\ mNumPl2Pkt \in Nat
    <3>1. mNumPl2Pkt \in Nat
      BY Zenon DEF Types1, Scalars
    <3>2. g.R[0] \in Seq(Piece)
      <4>1. 0 \in 0..mNumPl2Pkt
        BY <3>1
      <4> QED BY <1>2, <4>1, Zenon DEF Response, Behind
    <3>3. PICK C : Sums(g.R[0], C) /\ NumWords(g.R[0]) = C[Len(g.R[0])]
      BY <3>2, NumWordsSums
    <3>4. Len(g.R[0]) \in 0..Len(g.R[0])
      BY <3>2
    <3>5. C[Len(g.R[0])] \in Nat
      BY <3>3, <3>4, Zenon DEF Sums
    <3> QED BY <3>1, <3>3, <3>5
  <2> DEFINE x == NumWords(g.R[0])
             y == mRspSize
  <2>12. x > 3 * mNumPl2Pkt + w /\ x <= y /\ y = 3 * mNumPl2Pkt + w /\ x \in Int /\ mNumPl2Pkt \in Nat /\ w \in Nat
    BY <2>8, <2>9, <2>10, <2>11
  <2> HIDE DEF x, y, w
  <2> QED BY <2>12
<1> QED BY <1>9, <1>10

\* The action of NoStrayCopy.
NoStrayStep ==
    (mNumPl2Pkt <= 2 /\ ParseRd /\ p'.iTrans > p.iTrans /\ mPl0TransRsp'[p'.iTrans].num_bytes_ok > 0)
        => Entry.call = call

--------------------------------------------------------------------------------
(* Sums of bytes.                                                             *)

\* Bytes transferred by the accesses in S, t being their results.
SumOk(t, S) == MapThenSumSet(LAMBDA i : t[i].num_bytes_ok, S)

\* F[k][S]: bytes of those in S up to k.
OkTypes(n, t) == \A i \in 1..n : t[i].num_bytes_ok \in Nat
OkSums(n, t, F) ==
    /\ OkTypes(n, t)
    /\ F \in [0..n -> [SUBSET (1..n) -> Nat]]
    /\ \A S \in SUBSET (1..n) : F[0][S] = 0
    /\ \A k \in 1..n, S \in SUBSET (1..n) : F[k][S] = F[k - 1][S] + (IF k \in S THEN t[k].num_bytes_ok ELSE 0)

LEMMA OkSumsExist ==
    ASSUME NEW n \in Nat, NEW t, OkTypes(n, t)
    PROVE  \E F : OkSums(n, t, F)
<1> DEFINE D == SUBSET (1..n)
           V == [D -> Nat]
           b == [S \in D |-> 0]
           g == [x \in (1..n) \X V |-> [S \in D |-> x[2][S] + (IF x[1] \in S THEN t[x[1]].num_bytes_ok ELSE 0)]]
<1>0. \A i \in 1..n : t[i].num_bytes_ok \in Nat
  BY DEF OkTypes
<1>1. b \in V
  OBVIOUS
<1>2. g \in [(1..n) \X V -> V]
  <2> SUFFICES ASSUME NEW x \in (1..n) \X V, NEW S \in D
               PROVE  x[2][S] + (IF x[1] \in S THEN t[x[1]].num_bytes_ok ELSE 0) \in Nat
    OBVIOUS
  <2>1. x[1] \in 1..n /\ x[2] \in V
    OBVIOUS
  <2>2. x[2][S] \in Nat /\ t[x[1]].num_bytes_ok \in Nat
    BY <1>0, <2>1
  <2> QED BY <2>2
<1>3. \E it \in [SUBSET (1..n) -> V] : Recursion(n, b, g, it)
  <2> HIDE DEF g, V, b, D
  <2> QED BY <1>1, <1>2, RecursionExists
<1>4. PICK it \in [SUBSET (1..n) -> V] : it[1..0] = b /\ \A k \in 1..n : it[1..k] = g[<<k, it[1..(k - 1)]>>]
  <2>1. PICK u, v : u = b /\ v = g
    OBVIOUS
  <2> HIDE DEF g, V, b, D
  <2>2. PICK it \in [SUBSET (1..n) -> V] : Recursion(n, u, v, it)
    BY <1>3, <2>1, Zenon
  <2>3. it[1..0] = u /\ \A k \in 1..n : it[1..k] = v[<<k, it[1..(k - 1)]>>]
    BY <2>2, RecursionStep
  <2> QED BY <2>1, <2>3, Zenon
<1> DEFINE F == [k \in 0..n |-> it[1..k]]
<1>5. \A k \in 0..n : (1..k) \in SUBSET (1..n)
  OBVIOUS
<1>6. F \in [0..n -> V]
  BY <1>5
<1>7. \A S \in D : F[0][S] = 0
  <2>1. F[0] = b
    BY <1>4
  <2> QED BY <2>1
<1>8. ASSUME NEW k \in 1..n, NEW S \in D
      PROVE  F[k][S] = F[k - 1][S] + (IF k \in S THEN t[k].num_bytes_ok ELSE 0)
  <2>1. k \in 0..n /\ k - 1 \in 0..n
    OBVIOUS
  <2>2. F[k] = it[1..k] /\ F[k - 1] = it[1..(k - 1)] /\ F[k - 1] \in V
    BY <1>6, <2>1
  <2>3. <<k, F[k - 1]>> \in (1..n) \X V
    BY <2>2
  <2>4. F[k] = [T \in D |-> F[k - 1][T] + (IF k \in T THEN t[k].num_bytes_ok ELSE 0)]
    <3>1. F[k] = g[<<k, F[k - 1]>>]
      BY <1>4, <2>2
    <3> HIDE DEF F
    <3> QED BY <2>3, <3>1
  <2> HIDE DEF F
  <2> QED BY <2>4
<1>9. OkSums(n, t, F)
  <2> HIDE DEF F, V
  <2> QED BY <1>6, <1>7, <1>8 DEF OkSums, V
<1> QED BY <1>9

\* What one element adds.
Without(n, S, x, R) == S \in SUBSET (1..n) /\ x \in S /\ R = S \ {x}
Adds(n, t, F, S, x, R) == F[n][S] = t[x].num_bytes_ok + F[n][R] /\ F[n][S] \in Nat /\ F[n][R] \in Nat

LEMMA OkSumsAdd ==
    ASSUME NEW n \in Nat, NEW t, NEW F, OkSums(n, t, F),
           NEW S, NEW x, NEW R, Without(n, S, x, R)
    PROVE  Adds(n, t, F, S, x, R)
<1> DEFINE P == {k \in Nat : k <= n => F[k][S] = (IF x <= k THEN t[x].num_bytes_ok ELSE 0) + F[k][R]}
<1>1. S \in SUBSET (1..n) /\ R \in SUBSET (1..n) /\ x \in 1..n /\ x \in S /\ x \notin R /\ \A k \in 1..n : k # x => (k \in R <=> k \in S)
  BY DEF Without
<1>2. \A k \in 0..n : F[k][S] \in Nat /\ F[k][R] \in Nat
  <2>1. \A k \in 0..n : F[k] \in [SUBSET (1..n) -> Nat]
    BY Zenon DEF OkSums
  <2> QED BY <1>1, <2>1
<1>3. \A i \in 1..n : t[i].num_bytes_ok \in Nat
  BY DEF OkSums, OkTypes
<1>4. /\ F[0][S] = 0 /\ F[0][R] = 0
      /\ \A k \in 1..n : /\ F[k][S] = F[k - 1][S] + (IF k \in S THEN t[k].num_bytes_ok ELSE 0)
                         /\ F[k][R] = F[k - 1][R] + (IF k \in R THEN t[k].num_bytes_ok ELSE 0)
  BY <1>1, Zenon DEF OkSums
<1>5. 0 \in P
  BY <1>1, <1>4
<1>6. ASSUME NEW k \in P PROVE k + 1 \in P
  <2> SUFFICES ASSUME k + 1 <= n
               PROVE  F[k + 1][S] = (IF x <= k + 1 THEN t[x].num_bytes_ok ELSE 0) + F[k + 1][R]
    OBVIOUS
  <2>1. k \in Nat /\ k + 1 \in 1..n /\ (k + 1) - 1 = k /\ k \in 0..n /\ k <= n
    OBVIOUS
  <2>2. F[k][S] = (IF x <= k THEN t[x].num_bytes_ok ELSE 0) + F[k][R]
    BY <2>1
  <2>3. /\ F[k + 1][S] = F[k][S] + (IF k + 1 \in S THEN t[k + 1].num_bytes_ok ELSE 0)
        /\ F[k + 1][R] = F[k][R] + (IF k + 1 \in R THEN t[k + 1].num_bytes_ok ELSE 0)
    BY <1>4, <2>1
  <2>4. t[k + 1].num_bytes_ok \in Nat /\ F[k][S] \in Nat /\ F[k][R] \in Nat
    BY <1>2, <1>3, <2>1
  <2>5. CASE x = k + 1
    <3>1. k + 1 \in S /\ k + 1 \notin R /\ ~(x <= k) /\ x <= k + 1
      BY <1>1, <2>1, <2>5
    <3> QED BY <2>2, <2>3, <2>4, <2>5, <3>1
  <2>6. CASE x # k + 1
    <3>1. (k + 1 \in S <=> k + 1 \in R) /\ (x <= k <=> x <= k + 1)
      BY <1>1, <2>1, <2>6
    <3> DEFINE u == t[k + 1].num_bytes_ok
               v == t[x].num_bytes_ok
    <3>2. u \in Nat /\ v \in Nat
      BY <1>1, <1>3, <2>4
    <3> HIDE DEF u, v, P
    <3> QED BY <2>2, <2>3, <2>4, <3>1, <3>2 DEF u, v
  <2> QED BY <2>5, <2>6
<1>7. n \in P
  <2>1. P \in SUBSET Nat /\ \A k \in P : k + 1 \in P
    BY <1>6
  <2> HIDE DEF P
  <2> QED BY <1>5, <2>1, SetInduction
<1>8. n <= n /\ x <= n /\ n \in 0..n
  BY <1>1
<1> QED BY <1>2, <1>7, <1>8 DEF Adds

\* The order in which a set is summed up is not known; the sum does not depend on it.
LEMMA SumOkIs ==
    ASSUME NEW n \in Nat, NEW t, NEW F, OkSums(n, t, F),
           NEW S, S \in SUBSET (1..n)
    PROVE  SumOk(t, S) = F[n][S]
<1> DEFINE c(s) == CHOOSE x \in s : TRUE
           Body(it) == it = [s \in SUBSET S |-> IF s = {} THEN 0 ELSE t[c(s)].num_bytes_ok + it[s \ {c(s)}]]
           G == CHOOSE it : Body(it)
           w == [s \in SUBSET S |-> F[n][s]]
<1>1. SumOk(t, S) = G[S]
  BY Zenon DEF SumOk, MapThenSumSet, MapThenFoldSet
<1>2. \A s \in SUBSET S : s # {} => c(s) \in s
  OBVIOUS
<1>3. \A s \in SUBSET S : s \in SUBSET (1..n) /\ \A x \in s : s \ {x} \in SUBSET S
  OBVIOUS
<1>4. \A s \in SUBSET S : F[n][s] = IF s = {} THEN 0 ELSE t[c(s)].num_bytes_ok + F[n][s \ {c(s)}]
  <2> SUFFICES ASSUME NEW s \in SUBSET S
               PROVE  F[n][s] = IF s = {} THEN 0 ELSE t[c(s)].num_bytes_ok + F[n][s \ {c(s)}]
    OBVIOUS
  <2>1. CASE s = {}
    <3>0. PICK e \in SUBSET (1..n) : e = {}
      OBVIOUS
    <3> DEFINE P == {k \in Nat : k <= n => F[k][e] = 0}
    <3>1. 0 \in P
      BY DEF OkSums
    <3>2. ASSUME NEW k \in P PROVE k + 1 \in P
      <4> SUFFICES ASSUME k + 1 <= n PROVE F[k + 1][e] = 0
        OBVIOUS
      <4>1. k + 1 \in 1..n /\ (k + 1) - 1 = k /\ k <= n /\ F[k][e] = 0
        OBVIOUS
      <4>2. F[k + 1][e] = F[(k + 1) - 1][e] + (IF k + 1 \in e THEN t[k + 1].num_bytes_ok ELSE 0)
        BY <3>0, <4>1, SMT DEF OkSums
      <4>3. F[k + 1][e] = 0 + 0
        BY <3>0, <4>1, <4>2
      <4> QED BY <4>3
    <3>3. n \in P
      <4>1. P \in SUBSET Nat /\ \A k \in P : k + 1 \in P
        BY <3>2
      <4> HIDE DEF P
      <4> QED BY <3>1, <4>1, SetInduction
    <3>4. n <= n
      OBVIOUS
    <3> QED BY <2>1, <3>0, <3>3, <3>4
  <2>2. CASE s # {}
    <3>1. c(s) \in s /\ s \in SUBSET (1..n)
      BY <1>2, <1>3, <2>2
    <3>2. PICK y \in s : y = c(s)
      BY <3>1
    <3>3. PICK r : r = s \ {y}
      OBVIOUS
    <3>4. F[n][s] = t[y].num_bytes_ok + F[n][r]
      <4>1. Adds(n, t, F, s, y, r)
        BY <3>1, <3>3, OkSumsAdd, Zenon DEF Without
      <4> QED BY <4>1, Zenon DEF Adds
    <3> HIDE DEF c
    <3> QED BY <2>2, <3>2, <3>3, <3>4, Zenon
  <2> QED BY <2>1, <2>2
<1> HIDE DEF c
<1>5. Body(w)
  <2>1. \A s \in SUBSET S : w[s] = IF s = {} THEN 0 ELSE t[c(s)].num_bytes_ok + w[s \ {c(s)}]
    <3> SUFFICES ASSUME NEW s \in SUBSET S
                 PROVE  w[s] = IF s = {} THEN 0 ELSE t[c(s)].num_bytes_ok + w[s \ {c(s)}]
      OBVIOUS
    <3>1. CASE s = {}
      BY <1>4, <3>1
    <3>2. CASE s # {}
      <4>1. s \ {c(s)} \in SUBSET S
        BY <1>2, <1>3, <3>2
      <4>2. w[s] = F[n][s] /\ w[s \ {c(s)}] = F[n][s \ {c(s)}]
        BY <4>1
      <4> QED BY <1>4, <3>2, <4>2
    <3> QED BY <3>1, <3>2
  <2>2. w = [s \in SUBSET S |-> w[s]]
    OBVIOUS
  <2> HIDE DEF w
  <2> QED BY <2>1, <2>2
<1>6. Body(G)
  <2> HIDE DEF Body
  <2> QED BY <1>5, Zenon
<1> HIDE DEF G
<1>7. \A s \in SUBSET S : G[s] = IF s = {} THEN 0 ELSE t[c(s)].num_bytes_ok + G[s \ {c(s)}]
  BY <1>6
<1> HIDE DEF Body
<1> DEFINE P == {k \in Nat : \A s \in SUBSET S : Cardinality(s) = k => G[s] = F[n][s]}
<1>8. \A s \in SUBSET S : IsFiniteSet(s) /\ Cardinality(s) \in Nat
  <2>1. IsFiniteSet(1..n)
    BY FS_Interval
  <2> QED BY <1>3, <2>1, FS_Subset, FS_CardinalityType
<1>9. 0 \in P
  <2> SUFFICES ASSUME NEW s \in SUBSET S, Cardinality(s) = 0 PROVE G[s] = F[n][s]
    OBVIOUS
  <2>1. s = {}
    BY <1>8, FS_EmptySet
  <2> QED BY <1>4, <1>7, <2>1
<1>10. ASSUME NEW k \in P PROVE k + 1 \in P
  <2> SUFFICES ASSUME NEW s \in SUBSET S, Cardinality(s) = k + 1 PROVE G[s] = F[n][s]
    OBVIOUS
  <2>1. s # {}
    BY <1>8, FS_EmptySet
  <2>2. c(s) \in s /\ s \ {c(s)} \in SUBSET S
    BY <1>2, <1>3, <2>1
  <2>3. Cardinality(s \ {c(s)}) = k
    <3>1. Cardinality(s \ {c(s)}) = Cardinality(s) - 1
      BY <1>8, <2>2, FS_RemoveElement
    <3> QED BY <3>1
  <2>4. G[s \ {c(s)}] = F[n][s \ {c(s)}]
    BY <2>2, <2>3
  <2> HIDE DEF P
  <2> QED BY <1>4, <1>7, <2>1, <2>4
<1>11. Cardinality(S) \in P
  <2>1. P \in SUBSET Nat /\ \A k \in P : k + 1 \in P
    BY <1>10
  <2> HIDE DEF P
  <2> QED BY <1>8, <1>9, <2>1, SetInduction
<1> QED BY <1>1, <1>11

\* The sum over a set, and what one more access adds to it.
LEMMA SumOkAdd ==
    ASSUME NEW n \in Nat, NEW t, OkTypes(n, t),
           NEW S, S \in SUBSET (1..n), NEW x, x \in 1..n, x \notin S
    PROVE  SumOk(t, S \cup {x}) = SumOk(t, S) + t[x].num_bytes_ok
<1>1. PICK F : OkSums(n, t, F)
  BY OkSumsExist
<1>2. PICK T \in SUBSET (1..n) : T = S \cup {x} /\ x \in T /\ T \ {x} = S
  <2>1. S \cup {x} \in SUBSET (1..n) /\ x \in S \cup {x} /\ (S \cup {x}) \ {x} = S
    OBVIOUS
  <2> QED BY <2>1
<1>3. SumOk(t, S) = F[n][S] /\ SumOk(t, T) = F[n][T]
  BY <1>1, <1>2, SumOkIs
<1>4. F[n][T] = t[x].num_bytes_ok + F[n][S] /\ F[n][S] \in Nat
  <2>1. S = T \ {x}
    BY <1>2
  <2>2. OkSums(n, t, F) /\ n \in Nat /\ T \in SUBSET (1..n) /\ x \in T /\ S = T \ {x}
    BY <1>1, <1>2, <2>1, Zenon
  <2>3. Adds(n, t, F, T, x, S)
    BY <2>2, OkSumsAdd, Zenon DEF Without
  <2> QED BY <2>3 DEF Adds
<1>5. t[x].num_bytes_ok \in Nat
  BY DEF OkTypes
<1> QED BY <1>2, <1>3, <1>4, <1>5

LEMMA SumOkEmpty ==
    ASSUME NEW t
    PROVE  SumOk(t, {}) = 0
<1>1. PICK F : OkSums(0, t, F)
  <2>1. 0 \in Nat /\ OkTypes(0, t)
    BY DEF OkTypes
  <2> QED BY <2>1, OkSumsExist
<1>2. {} \in SUBSET (1..0) /\ 0 \in Nat
  OBVIOUS
<1>3. SumOk(t, {}) = F[0][{}]
  BY <1>1, <1>2, SumOkIs
<1> QED BY <1>1, <1>2, <1>3 DEF OkSums

--------------------------------------------------------------------------------
(* The accesses of a request, and the turns of rw_get_trans_rsp().            *)

\* The accesses of a request lie in their transactions one behind the other; where one
\* begins at the address of its transaction, that transaction begins, and where
\* one reaches its end, that transaction ends.
RwTrans == [type : Types, addr : Nat, num_bytes : Nat \ {0}]
End(x) == x.addr + x.num_bytes
Begins(acc, i) == i = 1 \/ acc[i - 1].rw # acc[i].rw
Ends(acc, i) == i = Len(acc) \/ acc[i + 1].rw # acc[i].rw
Within1(acc, rw, i) ==
    LET x == rw[acc[i].rw]
    IN  /\ acc[i] \in Pl0Access /\ acc[i].rw \in 1..Len(rw) /\ x \in RwTrans
        /\ Begins(acc, i) <=> acc[i].addr = x.addr
        /\ Ends(acc, i) <=> End(acc[i]) >= End(x)
        /\ acc[i].addr >= x.addr /\ End(acc[i]) <= End(x)
Follows1(acc, i) ==
    IF Begins(acc, i) THEN acc[i].rw = acc[i - 1].rw + 1
    ELSE acc[i].rw = acc[i - 1].rw /\ acc[i].addr = End(acc[i - 1])
Tiled(acc, rw) ==
    /\ acc \in Seq(Pl0Access) /\ rw \in Seq(RwTrans)
    /\ Len(acc) \in Nat /\ Len(acc) > 0 /\ Len(rw) \in Nat /\ Len(rw) > 0
    /\ acc[1].rw = 1 /\ acc[Len(acc)].rw = Len(rw)
    /\ \A i \in 1..Len(acc) : Within1(acc, rw, i)
    /\ \A i \in 1..Len(acc) : i # 1 => Follows1(acc, i)

LEMMA RequestTiled ==
    ASSUME NEW r \in Requests
    PROVE  Tiled(Accesses(r), r.rw)
<1>1. PICK acc, rw : acc = Accesses(r) /\ rw = r.rw
  OBVIOUS
<1>2. acc \in Seq(Pl0Access) /\ Len(acc) \in Nat /\ Len(acc) > 0
  <2>1. PICK w : Laid(r, w)
    BY RequestLaid
  <2>2. acc \in Seq(Pl0Access) /\ Len(acc) \in Nat
    BY <1>1, <2>1, Zenon DEF Laid
  <2>3. w.Off[1 - 1] < Len(acc) /\ w.Off[0] = 0
    <3>1. 1 \in 1..Len(r.pkts)
      BY <2>1 DEF Laid
    <3> QED BY <1>1, <2>1, <3>1, Zenon DEF Laid
  <2> QED BY <2>2, <2>3
<1>3. rw \in Seq(RwTrans) /\ Len(rw) \in Nat
  <2>1. rw \in Seq(RwTrans)
    BY <1>1, RequestTypes, Zenon DEF RwTrans
  <2> QED BY <2>1, LenProperties
<1> DEFINE n == Len(acc)
           T == Len(rw)
<1>4. \A i \in 1..n :
        /\ Begins(acc, i) => acc[i].addr = rw[acc[i].rw].addr /\ acc[i].rw = (IF i = 1 THEN 1 ELSE acc[i - 1].rw + 1)
        /\ ~Begins(acc, i) => acc[i].addr = End(acc[i - 1])
        /\ Ends(acc, i) => End(acc[i]) = End(rw[acc[i].rw])
  <2>1. DOMAIN acc = 1..n
    BY <1>2, LenProperties
  <2> SUFFICES ASSUME NEW i \in 1..n
               PROVE  /\ Begins(acc, i) => acc[i].addr = rw[acc[i].rw].addr /\ acc[i].rw = (IF i = 1 THEN 1 ELSE acc[i - 1].rw + 1)
                      /\ ~Begins(acc, i) => acc[i].addr = End(acc[i - 1])
                      /\ Ends(acc, i) => End(acc[i]) = End(rw[acc[i].rw])
    OBVIOUS
  <2>2. /\ IF Begins(acc, i) THEN /\ acc[i].addr = rw[acc[i].rw].addr
                                  /\ acc[i].rw = (IF i = 1 THEN 1 ELSE acc[i - 1].rw + 1)
           ELSE acc[i].addr = acc[i - 1].addr + acc[i - 1].num_bytes
        /\ Ends(acc, i) => acc[i].addr + acc[i].num_bytes = rw[acc[i].rw].addr + rw[acc[i].rw].num_bytes
    <3> HIDE DEF n
    <3>1. i \in DOMAIN acc
      BY <2>1
    <3> QED BY <1>1, <3>1, RequestAssumption DEF Begins, Ends
  <2> QED BY <2>2, Zenon DEF End
<1>5. acc[n].rw = T
  BY <1>1, RequestAssumption, Zenon
<1>6. \A i \in 1..n : /\ acc[i] \in Pl0Access /\ acc[i].addr \in Nat /\ acc[i].num_bytes \in Nat
                      /\ acc[i].num_bytes >= 1 /\ acc[i].rw \in Nat /\ acc[i].rw >= 1
  <2>1. \A i \in 1..n : acc[i] \in Pl0Access
    BY <1>2, ElementOfSeq
  <2> QED BY <2>1, AccessFields
<1> HIDE DEF n, T
<1>7. n \in Nat /\ n >= 1 /\ T \in Nat
  BY <1>2, <1>3 DEF n, T
<1>8. \A i \in 1..n : i # 1 => i - 1 \in 1..n /\ (i - 1) + 1 = i
  BY <1>7
<1>9. \A i \in 1..n : i # 1 => Follows1(acc, i)
  <2> SUFFICES ASSUME NEW i \in 1..n, i # 1 PROVE Follows1(acc, i)
    OBVIOUS
  <2>1. ~Begins(acc, i) => acc[i].rw = acc[i - 1].rw
    BY Zenon DEF Begins
  <2> QED BY <1>4, <2>1, Zenon DEF Follows1
<1>10. acc[1].rw = 1
  <2>1. 1 \in 1..n /\ Begins(acc, 1)
    BY <1>7 DEF Begins
  <2> QED BY <1>4, <2>1, Zenon
\* Transactions are in their order, and within 1..T.
<1> DEFINE P == {d \in Nat : d < n => acc[n - d].rw <= T /\ End(acc[n - d]) <= End(rw[acc[n - d].rw])
                                      /\ (~Ends(acc, n - d) => End(acc[n - d]) < End(rw[acc[n - d].rw]))}
<1>11. \A t \in 1..T : rw[t] \in RwTrans /\ End(rw[t]) \in Nat
  <2>1. \A t \in 1..T : rw[t] \in RwTrans
    BY <1>3, ElementOfSeq DEF T
  <2> QED BY <2>1 DEF RwTrans, End
<1>12. 0 \in P
  <2>1. n \in 1..n /\ n - 0 = n /\ Ends(acc, n)
    BY <1>7 DEF Ends, n
  <2>2. End(acc[n]) = End(rw[acc[n].rw]) /\ acc[n].rw \in 1..T
    <3>1. acc[n].rw \in Nat /\ acc[n].rw >= 1
      BY <1>6, <2>1
    <3> QED BY <1>4, <1>5, <1>7, <2>1, <3>1
  <2>3. End(rw[acc[n].rw]) \in Nat /\ T <= T
    BY <1>7, <1>11, <2>2
  <2>4. End(acc[n]) <= End(rw[acc[n].rw])
    BY <2>2, <2>3
  <2> QED BY <1>5, <2>1, <2>3, <2>4
<1>13. ASSUME NEW d \in P PROVE d + 1 \in P
  <2> SUFFICES ASSUME d + 1 < n
               PROVE  /\ acc[n - (d + 1)].rw <= T /\ End(acc[n - (d + 1)]) <= End(rw[acc[n - (d + 1)].rw])
                      /\ (~Ends(acc, n - (d + 1)) => End(acc[n - (d + 1)]) < End(rw[acc[n - (d + 1)].rw]))
    OBVIOUS
  <2>1. PICK i \in 1..n : i = n - (d + 1) /\ i + 1 = n - d /\ i + 1 \in 1..n /\ i # n /\ d < n /\ i + 1 # 1 /\ (i + 1) - 1 = i
    <3>1. n - (d + 1) \in 1..n
      BY <1>7
    <3> QED BY <1>7, <3>1
  <2>2. /\ acc[i + 1].rw <= T /\ End(acc[i + 1]) <= End(rw[acc[i + 1].rw])
    BY <2>1
  <2>3. Follows1(acc, i + 1)
    BY <1>9, <2>1, Zenon
  <2>4. /\ acc[i].rw \in Nat /\ acc[i].rw >= 1 /\ acc[i + 1].rw \in Nat
        /\ acc[i].addr \in Nat /\ acc[i].num_bytes \in Nat /\ acc[i].num_bytes >= 1
        /\ acc[i + 1].addr \in Nat /\ acc[i + 1].num_bytes \in Nat /\ acc[i + 1].num_bytes >= 1
    BY <1>6, <2>1
  <2>5. acc[i + 1].rw = acc[i].rw + 1 \/ acc[i + 1].rw = acc[i].rw
    BY <2>1, <2>3, Zenon DEF Follows1
  <2>6. acc[i].rw <= T /\ acc[i].rw \in 1..T
    BY <1>7, <2>2, <2>4, <2>5
  <2>7. End(rw[acc[i].rw]) \in Nat
    BY <1>11, <2>6
  <2>8. CASE Ends(acc, i)
    <3>1. End(acc[i]) = End(rw[acc[i].rw])
      BY <1>4, <2>8, Zenon
    <3> QED BY <2>1, <2>6, <2>7, <2>8, <3>1
  <2>9. CASE ~Ends(acc, i)
    <3>1. acc[i + 1].rw = acc[i].rw
      BY <2>9, Zenon DEF Ends
    <3>2. ~Begins(acc, i + 1)
      BY <2>1, <3>1, Zenon DEF Begins
    <3>3. acc[i + 1].addr = End(acc[i])
      BY <2>1, <2>3, <3>2, Zenon DEF Follows1
    <3>4. End(acc[i]) < End(acc[i + 1])
      BY <2>4, <3>3 DEF End
    <3>5. End(acc[i]) \in Nat /\ End(acc[i + 1]) \in Nat
      BY <2>4 DEF End
    <3>6. End(acc[i]) < End(rw[acc[i].rw])
      BY <2>2, <2>7, <3>1, <3>4, <3>5
    <3> QED BY <2>1, <2>6, <2>7, <3>5, <3>6
  <2> QED BY <2>8, <2>9
<1>14. \A i \in 1..n : /\ acc[i].rw \in 1..T /\ End(acc[i]) <= End(rw[acc[i].rw])
                       /\ ~Ends(acc, i) => End(acc[i]) < End(rw[acc[i].rw])
  <2> SUFFICES ASSUME NEW i \in 1..n
               PROVE  /\ acc[i].rw \in 1..T /\ End(acc[i]) <= End(rw[acc[i].rw])
                      /\ ~Ends(acc, i) => End(acc[i]) < End(rw[acc[i].rw])
    OBVIOUS
  <2>1. n - i \in Nat /\ n - i < n /\ n - (n - i) = i
    BY <1>7
  <2>2. \A d \in Nat : d \in P
    <3>1. P \in SUBSET Nat /\ \A d \in P : d + 1 \in P
      BY <1>13
    <3> HIDE DEF P
    <3> QED BY <1>12, <3>1, SetInduction
  <2>3. acc[i].rw <= T /\ End(acc[i]) <= End(rw[acc[i].rw]) /\ (~Ends(acc, i) => End(acc[i]) < End(rw[acc[i].rw]))
    BY <2>1, <2>2
  <2>4. acc[i].rw \in 1..T
    BY <1>6, <1>7, <2>3
  <2> QED BY <2>3, <2>4, Zenon
<1>15. T > 0
  <2>1. 1 \in 1..n
    BY <1>7
  <2> QED BY <1>7, <1>14, <2>1
\* Where they begin.
<1> DEFINE Q == {i \in Nat : i + 1 <= n => /\ acc[i + 1].addr >= rw[acc[i + 1].rw].addr
                                           /\ ~Begins(acc, i + 1) => acc[i + 1].addr > rw[acc[i + 1].rw].addr}
<1>16. \A t \in 1..T : rw[t].addr \in Nat
  BY <1>11 DEF RwTrans
<1>17. 0 \in Q
  <2>1. 1 \in 1..n /\ Begins(acc, 1) /\ 0 + 1 = 1
    BY <1>7 DEF Begins
  <2>2. acc[1].addr = rw[acc[1].rw].addr /\ rw[acc[1].rw].addr \in Nat
    BY <1>4, <1>14, <1>16, <2>1
  <2> QED BY <2>1, <2>2
<1>18. ASSUME NEW k \in Q PROVE k + 1 \in Q
  <2> SUFFICES ASSUME (k + 1) + 1 <= n
               PROVE  /\ acc[(k + 1) + 1].addr >= rw[acc[(k + 1) + 1].rw].addr
                      /\ ~Begins(acc, (k + 1) + 1) => acc[(k + 1) + 1].addr > rw[acc[(k + 1) + 1].rw].addr
    OBVIOUS
  <2>1. PICK i \in 1..n : i = (k + 1) + 1 /\ i - 1 = k + 1 /\ i - 1 \in 1..n /\ i # 1 /\ k + 1 <= n
    <3>1. (k + 1) + 1 \in 1..n
      BY <1>7
    <3> QED BY <1>7, <3>1
  <2>2. acc[i - 1].addr >= rw[acc[i - 1].rw].addr
    BY <2>1
  <2>3. rw[acc[i].rw].addr \in Nat
    BY <1>14, <1>16
  <2>4. CASE Begins(acc, i)
    <3>1. acc[i].addr = rw[acc[i].rw].addr
      BY <1>4, <2>4, Zenon
    <3> QED BY <2>1, <2>3, <2>4, <3>1
  <2>5. CASE ~Begins(acc, i)
    <3>1. acc[i].rw = acc[i - 1].rw /\ acc[i].addr = End(acc[i - 1])
      BY <1>9, <2>1, <2>5, Zenon DEF Follows1
    <3>2. acc[i - 1].addr \in Nat /\ acc[i - 1].num_bytes \in Nat /\ acc[i - 1].num_bytes >= 1
      BY <1>6, <2>1
    <3>3. acc[i].addr > rw[acc[i].rw].addr
      BY <2>2, <2>3, <3>1, <3>2 DEF End
    <3>4. acc[i].addr \in Nat
      BY <1>6
    <3> QED BY <2>1, <2>3, <3>3, <3>4
  <2> QED BY <2>4, <2>5
<1>19. \A i \in 1..n : /\ acc[i].addr >= rw[acc[i].rw].addr
                       /\ ~Begins(acc, i) => acc[i].addr > rw[acc[i].rw].addr
  <2> SUFFICES ASSUME NEW i \in 1..n
               PROVE  /\ acc[i].addr >= rw[acc[i].rw].addr
                      /\ ~Begins(acc, i) => acc[i].addr > rw[acc[i].rw].addr
    OBVIOUS
  <2>1. i - 1 \in Nat /\ (i - 1) + 1 = i /\ i <= n
    BY <1>7
  <2>2. \A k \in Nat : k \in Q
    <3>1. Q \in SUBSET Nat /\ \A k \in Q : k + 1 \in Q
      BY <1>18
    <3> HIDE DEF Q
    <3> QED BY <1>17, <3>1, SetInduction
  <2> QED BY <2>1, <2>2
<1>20. \A i \in 1..n : Within1(acc, rw, i)
  <2> SUFFICES ASSUME NEW i \in 1..n PROVE Within1(acc, rw, i)
    OBVIOUS
  <2>1. acc[i].rw \in 1..T /\ rw[acc[i].rw] \in RwTrans /\ acc[i] \in Pl0Access
    BY <1>6, <1>11, <1>14
  <2>2. Begins(acc, i) <=> acc[i].addr = rw[acc[i].rw].addr
    <3>1. acc[i].addr \in Nat /\ rw[acc[i].rw].addr \in Nat
      BY <1>6, <1>16, <2>1
    <3>2. Begins(acc, i) => acc[i].addr = rw[acc[i].rw].addr
      BY <1>4, Zenon
    <3>3. ~Begins(acc, i) => acc[i].addr > rw[acc[i].rw].addr
      BY <1>19
    <3> QED BY <3>1, <3>2, <3>3
  <2>3. Ends(acc, i) <=> End(acc[i]) >= End(rw[acc[i].rw])
    <3>1. End(acc[i]) \in Nat /\ End(rw[acc[i].rw]) \in Nat
      <4>1. acc[i].addr \in Nat /\ acc[i].num_bytes \in Nat
        BY <1>6
      <4> QED BY <1>11, <2>1, <4>1 DEF End
    <3>2. Ends(acc, i) => End(acc[i]) = End(rw[acc[i].rw])
      BY <1>4, Zenon
    <3>3. ~Ends(acc, i) => End(acc[i]) < End(rw[acc[i].rw])
      BY <1>14
    <3> QED BY <3>1, <3>2, <3>3
  <2> QED BY <1>14, <1>19, <2>1, <2>2, <2>3, Zenon DEF Within1, T
<1> QED BY <1>1, <1>2, <1>3, <1>5, <1>9, <1>10, <1>15, <1>20, Zenon DEF Tiled, n, T

\* The turns of rw_get_trans_rsp(), M[i] behind access i.
TransResult == [num_bytes_ok : Nat, pl_err : PlErr]
MergeState == {m \in [addrEnd : Nat, done : BOOLEAN, out : Seq(TransResult)] :
                    Len(m.out) >= 1 /\ Len(m.out) <= Len(mRwTrans)}
Turns(M) ==
    /\ M \in [0..mPl0NumTrans -> MergeState]
    /\ M[0] = [addrEnd |-> 0, done |-> FALSE, out |-> <<NoBytes>>]
    /\ \A i \in 1..mPl0NumTrans : M[i] = MergeTurn(M[i - 1], i)

LEMMA MergedType ==
    ASSUME NEW tr \in TransResult, NEW e \in Result
    PROVE  Merged(tr, e) \in TransResult
<1>1. tr.num_bytes_ok \in Nat /\ e.num_bytes_ok \in Nat /\ e.pl_err \in PlErr
  BY DEF TransResult, Result
<1>2. (tr.num_bytes_ok + e.num_bytes_ok) % 65536 \in Nat
  BY <1>1
<1>3. [num_bytes_ok |-> (tr.num_bytes_ok + e.num_bytes_ok) % 65536, pl_err |-> e.pl_err] \in TransResult
  BY <1>1, <1>2 DEF TransResult
<1> DEFINE x == [num_bytes_ok |-> (tr.num_bytes_ok + e.num_bytes_ok) % 65536, pl_err |-> e.pl_err]
           ok == tr.pl_err = "NO_ERROR"
<1>4. Merged(tr, e) = IF ~ok THEN tr ELSE x
  BY DEF Merged
<1> HIDE DEF x, ok
<1> QED BY <1>3, <1>4 DEF x

LEMMA TurnType ==
    ASSUME Types1, mRwTrans \in Seq(RwTrans), NEW m \in MergeState, NEW i \in 1..mPl0NumTrans
    PROVE  MergeTurn(m, i) \in MergeState
<1>1. mPl0NumTrans \in Nat /\ i \in 1..Len(mPl0Trans) /\ i \in 1..Len(mPl0TransRsp) /\ Len(mRwTrans) \in Nat
  BY LenProperties DEF Types1, Scalars, Arrays
<1>2. mPl0Trans[i] \in TransEntry /\ mPl0TransRsp[i] \in Result
  BY <1>1, ElementOfSeq DEF Types1, Arrays
<1> DEFINE a   == mPl0Trans[i].a
           t   == Len(m.out)
           end == IF a.addr = mRwTrans[t].addr THEN a.addr + mRwTrans[t].num_bytes ELSE m.addrEnd
           out == [m.out EXCEPT ![t] = Merged(@, mPl0TransRsp[i])]
           fin == a.addr + a.num_bytes >= end
<1>3. /\ m.addrEnd \in Nat /\ m.done \in BOOLEAN /\ m.out \in Seq(TransResult)
      /\ t \in Nat /\ t >= 1 /\ t <= Len(mRwTrans)
  BY LenProperties DEF MergeState
<1>4. t \in 1..Len(mRwTrans) /\ t \in 1..Len(m.out)
  BY <1>1, <1>3
<1>5. mRwTrans[t] \in RwTrans /\ m.out[t] \in TransResult
  BY <1>3, <1>4, ElementOfSeq
<1>6. end \in Nat
  <2>1. a.addr \in Nat
    BY <1>2, AccessFields DEF TransEntry
  <2>2. mRwTrans[t].num_bytes \in Nat
    BY <1>5 DEF RwTrans
  <2> QED BY <1>3, <2>1, <2>2
<1>7. out \in Seq(TransResult) /\ Len(out) = t
  <2>1. Merged(m.out[t], mPl0TransRsp[i]) \in TransResult
    BY <1>2, <1>5, MergedType
  <2> QED BY <1>3, <1>4, <2>1, ExceptSeq
<1>8. NoBytes \in TransResult
  BY DEF NoBytes, TransResult, PlErr
<1> HIDE DEF out, end, t, a
<1>9. Append(out, NoBytes) \in Seq(TransResult) /\ Len(Append(out, NoBytes)) = t + 1
  BY <1>7, <1>8, AppendProperties
<1> DEFINE o2 == IF fin /\ t < Len(mRwTrans) THEN Append(out, NoBytes) ELSE out
           d2 == fin /\ t = Len(mRwTrans)
<1>10. o2 \in Seq(TransResult) /\ Len(o2) >= 1 /\ Len(o2) <= Len(mRwTrans) /\ d2 \in BOOLEAN
  <2>1. CASE fin /\ t < Len(mRwTrans)
    BY <1>1, <1>3, <1>9, <2>1
  <2>2. CASE ~(fin /\ t < Len(mRwTrans))
    BY <1>1, <1>3, <1>7, <2>2
  <2> QED BY <2>1, <2>2
<1>11. MergeTurn(m, i) = IF m.done THEN m ELSE [addrEnd |-> end, done |-> d2, out |-> o2]
  BY Zenon DEF MergeTurn, a, t, end, out
<1> HIDE DEF o2, d2
<1>12. [addrEnd |-> end, done |-> d2, out |-> o2] \in MergeState
  BY <1>6, <1>10 DEF MergeState
<1> QED BY <1>11, <1>12, Zenon

LEMMA TransRspTurns ==
    ASSUME Types1, mRwTrans \in Seq(RwTrans), mRwTrans # <<>>
    PROVE  \E M : Turns(M) /\ TransRsp = M[mPl0NumTrans].out
<1> DEFINE n == mPl0NumTrans
           V == MergeState
           sq == [i \in 1..n |-> i]
           b == [addrEnd |-> 0, done |-> FALSE, out |-> <<NoBytes>>]
           g == [x \in (1..n) \X V |-> MergeTurn(x[2], x[1])]
           Body(it) == it = [s \in SUBSET (1..n) |->
                        IF s = {} THEN b ELSE MergeTurn(it[s \ {Max(s)}], sq[Max(s)])]
           F == CHOOSE it : Body(it)
<1>1. n \in Nat /\ Len(sq) = n /\ DOMAIN sq = 1..n /\ \A i \in 1..n : sq[i] = i
  BY DEF Types1, Scalars
<1>2. TransRsp = F[1..n].out
  BY <1>1, Zenon DEF TransRsp, FoldLeft, MapThenFoldSet
<1>3. b \in V
  <2>1. NoBytes \in TransResult
    BY DEF NoBytes, TransResult, PlErr
  <2>2. <<NoBytes>> \in Seq(TransResult) /\ Len(<<NoBytes>>) = 1
    BY <2>1
  <2>3. Len(mRwTrans) >= 1
    BY EmptySeq, LenProperties
  <2>4. PICK s : s = <<NoBytes>>
    OBVIOUS
  <2>5. [addrEnd |-> 0, done |-> FALSE, out |-> s] \in [addrEnd : Nat, done : BOOLEAN, out : Seq(TransResult)]
    BY <2>2, <2>4
  <2>6. b = [addrEnd |-> 0, done |-> FALSE, out |-> s] /\ Len(s) = 1
    BY <2>2, <2>4, Zenon
  <2>7. Len(mRwTrans) \in Nat
    BY LenProperties
  <2>8. PICK c : c = b
    OBVIOUS
  <2> HIDE DEF b
  <2>9. c \in [addrEnd : Nat, done : BOOLEAN, out : Seq(TransResult)] /\ c.out = s
    BY <2>5, <2>6, <2>8, Zenon
  <2>10. Len(c.out) >= 1 /\ Len(c.out) <= Len(mRwTrans)
    <3>1. Len(c.out) = 1
      BY <2>6, <2>9, Zenon
    <3> QED BY <2>3, <2>7, <3>1
  <2> QED BY <2>8, <2>9, <2>10, Zenon DEF MergeState
<1>4. g \in [(1..n) \X V -> V]
  <2> SUFFICES ASSUME NEW x \in (1..n) \X V PROVE MergeTurn(x[2], x[1]) \in V
    OBVIOUS
  <2>1. x[1] \in 1..n /\ x[2] \in V
    OBVIOUS
  <2> QED BY <2>1, TurnType
<1>5. PICK it \in [SUBSET (1..n) -> V] : Recursion(n, b, g, it)
  <2> HIDE DEF b, g, V
  <2> QED BY <1>1, <1>3, <1>4, RecursionExists
<1>6. ASSUME NEW s \in SUBSET (1..n), s # {}
      PROVE  g[<<Max(s), it[s \ {Max(s)}]>>] = MergeTurn(it[s \ {Max(s)}], sq[Max(s)])
  <2>1. Max(s) \in 1..n
    <3>1. Max(s) \in s
      BY <1>1, <1>6, MaxOf
    <3> QED BY <3>1
  <2>2. it[s \ {Max(s)}] \in V
    OBVIOUS
  <2> HIDE DEF V
  <2> QED BY <2>1, <2>2
<1>7. Body(it)
  <2>1. it = [s \in SUBSET (1..n) |-> IF s = {} THEN b ELSE g[<<Max(s), it[s \ {Max(s)}]>>]]
    BY <1>5 DEF Recursion
  <2> HIDE DEF g, b, sq
  <2> QED BY <1>6, <2>1
<1>8. Body(F)
  <2> HIDE DEF Body
  <2> QED BY <1>7, Zenon
<1> HIDE DEF F, V, b, sq, g
<1>9. ASSUME NEW s \in SUBSET (1..n)
      PROVE  F[s] = IF s = {} THEN b ELSE MergeTurn(F[s \ {Max(s)}], sq[Max(s)])
  BY <1>8
<1>10. F[1..0] = b
  <2>1. 1..0 = {} /\ {} \in SUBSET (1..n)
    OBVIOUS
  <2> QED BY <1>9, <2>1
<1>11. ASSUME NEW k \in 1..n PROVE F[1..k] = MergeTurn(F[1..(k - 1)], k)
  <2>1. (1..k) \in SUBSET (1..n)
    BY <1>1
  <2>2. Max(1..k) = k /\ (1..k) \ {k} = 1..(k - 1) /\ (1..k) # {}
    <3>1. k \in Nat /\ k # 0
      OBVIOUS
    <3> QED BY <3>1, MaxOfInterval
  <2>3. F[1..k] = MergeTurn(F[(1..k) \ {Max(1..k)}], sq[Max(1..k)])
    BY <1>9, <2>1, <2>2, Zenon
  <2> QED BY <1>1, <2>2, <2>3, Zenon
<1> HIDE DEF Body
<1> DEFINE M == [k \in 0..n |-> F[1..k]]
           P == {k \in Nat : k <= n => F[1..k] \in V}
<1>12. \A k \in Nat : k \in P
  <2>1. 0 \in P
    BY <1>3, <1>10
  <2>2. ASSUME NEW k \in P PROVE k + 1 \in P
    <3> SUFFICES ASSUME k + 1 <= n PROVE F[1..(k + 1)] \in V
      OBVIOUS
    <3>1. k + 1 \in 1..n /\ (k + 1) - 1 = k /\ k <= n
      BY <1>1
    <3>2. F[1..k] \in V
      BY <3>1
    <3>3. F[1..(k + 1)] = MergeTurn(F[1..k], k + 1)
      BY <1>11, <3>1
    <3> QED BY <3>1, <3>2, <3>3, TurnType DEF V
  <2>3. P \in SUBSET Nat /\ \A k \in P : k + 1 \in P
    BY <2>2
  <2> HIDE DEF P
  <2> QED BY <2>1, <2>3, SetInduction
<1>13. M \in [0..n -> V]
  BY <1>1, <1>12
<1>14. M[0] = b
  BY <1>1, <1>10
<1>15. \A i \in 1..n : M[i] = MergeTurn(M[i - 1], i)
  <2> SUFFICES ASSUME NEW i \in 1..n PROVE M[i] = MergeTurn(M[i - 1], i)
    OBVIOUS
  <2>1. i \in 0..n /\ i - 1 \in 0..n
    BY <1>1
  <2>2. M[i] = F[1..i] /\ M[i - 1] = F[1..(i - 1)]
    BY <2>1
  <2> HIDE DEF M
  <2> QED BY <1>11, <2>2, Zenon
<1>16. M[n] = F[1..n]
  BY <1>1
<1> HIDE DEF M
<1> QED BY <1>2, <1>13, <1>14, <1>15, <1>16, Zenon DEF Turns, V, b

\* acc are the accesses of the request; behind access i the results of Current(acc, i)
\* transactions are begun.
AskedFor(acc) ==
    /\ Tiled(acc, mRwTrans) /\ mPl0NumTrans = Len(acc)
    /\ \A i \in 1..mPl0NumTrans : mPl0Trans[i].a = acc[i]
Current(acc, i) == IF i = Len(acc) THEN Len(mRwTrans) ELSE acc[i + 1].rw
Ready(acc, m, i) ==
    /\ m \in MergeState /\ ~m.done /\ Len(m.out) = acc[i].rw
    /\ ~Begins(acc, i) => m.addrEnd = End(mRwTrans[acc[i].rw])
Turned(acc, m, i, q) ==
    /\ q.addrEnd = End(mRwTrans[acc[i].rw])
    /\ q.done <=> i = Len(acc)
    /\ Len(q.out) = Current(acc, i)
    /\ \A v \in 1..Current(acc, i) :
        q.out[v] = IF v = acc[i].rw THEN Merged(m.out[v], mPl0TransRsp[i])
                   ELSE IF v < acc[i].rw THEN m.out[v] ELSE NoBytes

LEMMA CurrentIs ==
    ASSUME NEW acc, Tiled(acc, mRwTrans), NEW i \in 1..Len(acc)
    PROVE  /\ Len(acc) \in Nat /\ Len(mRwTrans) \in Nat
           /\ acc[i].rw \in 1..Len(mRwTrans)
           /\ Ends(acc, i) /\ acc[i].rw < Len(mRwTrans) => i # Len(acc) /\ Current(acc, i) = acc[i].rw + 1
           /\ ~(Ends(acc, i) /\ acc[i].rw < Len(mRwTrans)) => Current(acc, i) = acc[i].rw
           /\ Ends(acc, i) /\ acc[i].rw = Len(mRwTrans) <=> i = Len(acc)
<1> DEFINE n == Len(acc)
           T == Len(mRwTrans)
<1>1. n \in Nat /\ T \in Nat /\ acc[n].rw = T
  BY DEF Tiled
<1>2. \A x \in 1..n : acc[x].rw \in 1..T
  BY DEF Tiled, Within1
<1>3. i # n => i + 1 \in 1..n /\ i + 1 # 1 /\ (i + 1) - 1 = i
  BY <1>1
<1>4. i # n => acc[i + 1].rw = acc[i].rw \/ acc[i + 1].rw = acc[i].rw + 1
  <2> SUFFICES ASSUME i # n PROVE acc[i + 1].rw = acc[i].rw \/ acc[i + 1].rw = acc[i].rw + 1
    OBVIOUS
  <2>1. Follows1(acc, i + 1)
    BY <1>3, Zenon DEF Tiled
  <2> QED BY <1>3, <2>1, Zenon DEF Follows1
<1>5. Ends(acc, i) <=> i = n \/ acc[i + 1].rw # acc[i].rw
  BY DEF Ends
<1>6. Current(acc, i) = IF i = n THEN T ELSE acc[i + 1].rw
  BY DEF Current
<1>7. i = n => acc[i].rw = T
  BY <1>1
<1>8. acc[i].rw \in 1..T /\ (i # n => acc[i + 1].rw \in 1..T)
  BY <1>2, <1>3
<1> DEFINE a == acc[i].rw
           b == acc[i + 1].rw
<1> HIDE DEF n, T
<1>9. a \in Nat /\ a <= T /\ a >= 1 /\ (i # n => b \in Nat /\ b <= T)
  BY <1>1, <1>8
<1> HIDE DEF a, b
<1>10. (i # n => b = a \/ b = a + 1) /\ (Ends(acc, i) <=> i = n \/ b # a) /\ (i = n => a = T)
  BY <1>4, <1>5, <1>7, Zenon DEF a, b
<1>11. Current(acc, i) = IF i = n THEN T ELSE b
  BY <1>6, Zenon DEF b
<1>12. Ends(acc, i) /\ a < T => i # n /\ Current(acc, i) = a + 1
  <2> SUFFICES ASSUME Ends(acc, i), a < T PROVE i # n /\ Current(acc, i) = a + 1
    OBVIOUS
  <2>1. a # T
    BY <1>1, <1>9
  <2>2. i # n /\ b = a + 1
    BY <1>10, <2>1, Zenon
  <2> QED BY <1>11, <2>2, Zenon
<1>13. ~(Ends(acc, i) /\ a < T) => Current(acc, i) = a
  <2> SUFFICES ASSUME ~(Ends(acc, i) /\ a < T) PROVE Current(acc, i) = a
    OBVIOUS
  <2>1. CASE i = n
    BY <1>10, <1>11, <2>1, Zenon
  <2>2. CASE i # n
    <3>1. b = a + 1 => a < T /\ b # a
      BY <1>1, <1>9, <2>2
    <3>2. b = a
      BY <1>10, <2>2, <3>1, Zenon
    <3> QED BY <1>11, <2>2, <3>2, Zenon
  <2> QED BY <2>1, <2>2
<1>14. Ends(acc, i) /\ a = T <=> i = n
  BY <1>1, <1>9, <1>10
<1> QED BY <1>1, <1>8, <1>12, <1>13, <1>14, Zenon DEF n, T, a

LEMMA TurnedBy ==
    ASSUME Types1, NEW acc, AskedFor(acc), NEW i \in 1..mPl0NumTrans, NEW m, Ready(acc, m, i)
    PROVE  Turned(acc, m, i, MergeTurn(m, i))
<1> DEFINE T == Len(mRwTrans)
           a == acc[i]
           t == Len(m.out)
           end == IF a.addr = mRwTrans[t].addr THEN a.addr + mRwTrans[t].num_bytes ELSE m.addrEnd
           out == [m.out EXCEPT ![t] = Merged(@, mPl0TransRsp[i])]
           fin == a.addr + a.num_bytes >= end
           o2 == IF fin /\ t < T THEN Append(out, NoBytes) ELSE out
           d2 == fin /\ t = T
<1>1. Tiled(acc, mRwTrans) /\ mPl0NumTrans = Len(acc) /\ mPl0Trans[i].a = acc[i] /\ i \in 1..Len(acc)
  BY DEF AskedFor
<1>2. Within1(acc, mRwTrans, i)
  BY <1>1, Zenon DEF Tiled
<1>3. ~m.done /\ m \in MergeState /\ t = acc[i].rw
  BY DEF Ready
<1>4. MergeTurn(m, i) = [addrEnd |-> end, done |-> d2, out |-> o2]
  BY <1>1, <1>3, Zenon DEF MergeTurn
<1>5. m.out \in Seq(TransResult) /\ t \in Nat /\ t >= 1 /\ t <= T /\ T \in Nat
  <2>1. T \in Nat
    BY <1>1 DEF Tiled
  <2> QED BY <1>3, <2>1, LenProperties DEF MergeState
<1>6. /\ t \in 1..T /\ mRwTrans[t] \in RwTrans /\ a \in Pl0Access
      /\ (Begins(acc, i) <=> a.addr = mRwTrans[t].addr)
      /\ (Ends(acc, i) <=> End(a) >= End(mRwTrans[t]))
  BY <1>2, <1>3, Zenon DEF Within1
<1>7. end = End(mRwTrans[t])
  <2>1. CASE a.addr = mRwTrans[t].addr
    BY <2>1, Zenon DEF End
  <2>2. CASE a.addr # mRwTrans[t].addr
    BY <1>3, <1>6, <2>2, Zenon DEF Ready
  <2> QED BY <2>1, <2>2
<1>8. fin <=> Ends(acc, i)
  <2> HIDE DEF end, a, t
  <2> QED BY <1>6, <1>7, Zenon DEF End
<1>9. mPl0TransRsp[i] \in Result
  <2>1. i \in 1..Len(mPl0TransRsp)
    BY LenProperties DEF Types1, Scalars, Arrays
  <2> QED BY <2>1, ElementOfSeq DEF Types1, Arrays
<1>10. m.out[t] \in TransResult /\ t \in 1..Len(m.out)
  <2>1. t \in 1..Len(m.out)
    BY <1>5
  <2> QED BY <1>5, <2>1, ElementOfSeq
<1>11. /\ out \in Seq(TransResult) /\ Len(out) = t
       /\ \A v \in 1..t : out[v] = IF v = t THEN Merged(m.out[t], mPl0TransRsp[i]) ELSE m.out[v]
  <2>1. Merged(m.out[t], mPl0TransRsp[i]) \in TransResult
    BY <1>9, <1>10, MergedType
  <2>2. DOMAIN m.out = 1..t
    BY <1>5, LenProperties
  <2> QED BY <1>5, <1>10, <2>1, <2>2, ExceptSeq
<1>12. NoBytes \in TransResult
  BY DEF NoBytes, TransResult, PlErr
<1> HIDE DEF end, out
<1>13. /\ Len(Append(out, NoBytes)) = t + 1 /\ Append(out, NoBytes)[t + 1] = NoBytes
       /\ \A v \in 1..t : Append(out, NoBytes)[v] = out[v]
  BY <1>11, <1>12, AppendProperties
<1>14. d2 <=> i = Len(acc)
  <2> HIDE DEF fin
  <2> QED BY <1>1, <1>3, <1>8, CurrentIs
<1>15. /\ Len(o2) = Current(acc, i)
       /\ \A v \in 1..Current(acc, i) :
            o2[v] = IF v = t THEN Merged(m.out[v], mPl0TransRsp[i])
                    ELSE IF v < t THEN m.out[v] ELSE NoBytes
  <2> HIDE DEF fin, t
  <2>1. CASE fin /\ t < T
    <3>1. Current(acc, i) = t + 1
      BY <1>1, <1>3, <1>8, <2>1, CurrentIs
    <3>2. o2 = Append(out, NoBytes)
      BY <2>1
    <3> HIDE DEF o2
    <3> SUFFICES ASSUME NEW v \in 1..(t + 1)
                 PROVE  o2[v] = IF v = t THEN Merged(m.out[v], mPl0TransRsp[i])
                                ELSE IF v < t THEN m.out[v] ELSE NoBytes
      BY <1>13, <3>1, <3>2
    <3>3. CASE v = t + 1
      BY <1>5, <1>13, <3>2, <3>3
    <3>4. CASE v # t + 1
      <4>1. v \in 1..t /\ (v # t => v < t)
        BY <1>5, <3>4
      <4>2. o2[v] = out[v]
        BY <1>13, <3>2, <4>1
      <4> QED BY <1>11, <4>1, <4>2, Zenon
    <3> QED BY <3>3, <3>4
  <2>2. CASE ~(fin /\ t < T)
    <3>1. Current(acc, i) = t
      BY <1>1, <1>3, <1>8, <2>2, CurrentIs
    <3>2. o2 = out
      BY <2>2
    <3>3. \A v \in 1..t : v # t => v < t
      BY <1>5
    <3> HIDE DEF o2
    <3>4. Len(o2) = Current(acc, i)
      BY <1>11, <3>1, <3>2, Zenon
    <3> SUFFICES ASSUME NEW v \in 1..t
                 PROVE  o2[v] = IF v = t THEN Merged(m.out[v], mPl0TransRsp[i])
                                ELSE IF v < t THEN m.out[v] ELSE NoBytes
      BY <3>1, <3>4, Zenon
    <3>5. o2[v] = IF v = t THEN Merged(m.out[t], mPl0TransRsp[i]) ELSE m.out[v]
      BY <1>11, <3>2, Zenon
    <3>6. CASE v = t
      BY <3>5, <3>6, Zenon
    <3>7. CASE v # t
      BY <3>3, <3>5, <3>7, Zenon
    <3> QED BY <3>6, <3>7
  <2> QED BY <2>1, <2>2
<1> HIDE DEF o2, d2
<1>16. /\ MergeTurn(m, i).addrEnd = end /\ MergeTurn(m, i).out = o2 /\ MergeTurn(m, i).done = d2
  BY <1>4
<1> QED BY <1>3, <1>7, <1>14, <1>15, <1>16, Zenon DEF Turned

\* All turns.
LEMMA TurnsAre ==
    ASSUME Types1, NEW acc, AskedFor(acc), NEW M, Turns(M)
    PROVE  \A i \in 1..mPl0NumTrans : Ready(acc, M[i - 1], i) /\ Turned(acc, M[i - 1], i, M[i])
<1> DEFINE n == mPl0NumTrans
           P == {i \in Nat : i < n => Ready(acc, M[i], i + 1)}
<1>1. Tiled(acc, mRwTrans) /\ n = Len(acc) /\ n \in Nat /\ n > 0
  BY DEF AskedFor, Tiled
<1>2. M \in [0..n -> MergeState] /\ M[0] = [addrEnd |-> 0, done |-> FALSE, out |-> <<NoBytes>>]
      /\ \A i \in 1..n : M[i] = MergeTurn(M[i - 1], i)
  BY DEF Turns
<1>3. ASSUME NEW i \in 1..n, Ready(acc, M[i - 1], i)
      PROVE  Turned(acc, M[i - 1], i, M[i])
  <2>1. Turned(acc, M[i - 1], i, MergeTurn(M[i - 1], i))
    BY <1>3, TurnedBy
  <2> QED BY <1>2, <2>1, Zenon
<1>4. 0 \in P
  <2>1. M[0] \in MergeState
    <3>1. 0 \in 0..n
      BY <1>1
    <3> QED BY <1>2, <3>1, Zenon
  <2>2. ~M[0].done /\ Len(M[0].out) = 1
    BY <1>2
  <2>3. acc[1].rw = 1
    BY <1>1, Zenon DEF Tiled
  <2>4. Begins(acc, 1)
    BY DEF Begins
  <2>5. Ready(acc, M[0], 1)
    BY <2>1, <2>2, <2>3, <2>4, Zenon DEF Ready
  <2> QED BY <2>5
<1>5. ASSUME NEW i \in P PROVE i + 1 \in P
  <2> SUFFICES ASSUME i + 1 < n PROVE Ready(acc, M[i + 1], (i + 1) + 1)
    OBVIOUS
  <2>1. i + 1 \in 1..n /\ i < n /\ (i + 1) - 1 = i /\ i + 1 \in 0..n /\ i + 1 # n
    BY <1>1
  <2>2. Ready(acc, M[i], i + 1)
    BY <2>1
  <2>3. Turned(acc, M[i], i + 1, M[i + 1])
    BY <1>3, <2>1, <2>2
  <2>4. M[i + 1] \in MergeState
    BY <1>2, <2>1
  <2>5. PICK j : j = i + 1
    OBVIOUS
  <2>6. Len(M[j].out) = Current(acc, j) /\ ~M[j].done /\ M[j].addrEnd = End(mRwTrans[acc[j].rw])
    BY <1>1, <2>1, <2>3, <2>5, Zenon DEF Turned
  <2>7. Current(acc, j) = acc[j + 1].rw
    BY <1>1, <2>1, <2>5, Zenon DEF Current
  <2>8. (j + 1) - 1 = j /\ j + 1 # 1
    BY <2>5
  <2>9. ~Begins(acc, j + 1) => acc[j + 1].rw = acc[j].rw
    BY <2>8, Zenon DEF Begins
  <2>10. Ready(acc, M[j], j + 1)
    BY <2>4, <2>5, <2>6, <2>7, <2>9, Zenon DEF Ready
  <2> QED BY <2>5, <2>10
<1>6. \A i \in Nat : i \in P
  <2>1. P \in SUBSET Nat /\ \A i \in P : i + 1 \in P
    BY <1>5
  <2> HIDE DEF P
  <2> QED BY <1>4, <2>1, SetInduction
<1>7. ASSUME NEW i \in 1..n PROVE Ready(acc, M[i - 1], i)
  <2>1. i - 1 \in Nat /\ i - 1 < n /\ (i - 1) + 1 = i
    BY <1>1
  <2>2. i - 1 \in P
    BY <1>6, <2>1
  <2>3. Ready(acc, M[i - 1], (i - 1) + 1)
    BY <2>1, <2>2
  <2> QED BY <2>1, <2>3
<1> QED BY <1>3, <1>7

--------------------------------------------------------------------------------
(* The bytes rw_get_trans_rsp() counts.                                       *)

\* An access may have transferred up to three bytes more than it has, where z.
Slack(z, i) == IF z THEN 3 * i ELSE 0
Bounded(acc, z) ==
    \A i \in 1..mPl0NumTrans : mPl0TransRsp[i].num_bytes_ok <= acc[i].num_bytes + Slack(z, 1)
\* Behind access i no transaction has more than its bytes, and the one that goes on with the
\* next access no more than lie before it.
Room(acc, z, M, i) ==
    /\ \A v \in 1..Current(acc, i) : M[i].out[v].num_bytes_ok <= mRwTrans[v].num_bytes + Slack(z, i)
    /\ i < mPl0NumTrans =>
        M[i].out[acc[i + 1].rw].num_bytes_ok + mRwTrans[acc[i + 1].rw].addr <= acc[i + 1].addr + Slack(z, i)

LEMMA MergedBytes ==
    ASSUME NEW tr, NEW e, tr.num_bytes_ok \in Nat, e.num_bytes_ok \in Nat
    PROVE  /\ Merged(tr, e).num_bytes_ok \in Nat
           /\ Merged(tr, e).num_bytes_ok <= tr.num_bytes_ok + e.num_bytes_ok
<1> DEFINE x == tr.num_bytes_ok
           y == e.num_bytes_ok
           ok == tr.pl_err = "NO_ERROR"
<1>1. Merged(tr, e) = IF ~ok THEN tr ELSE [num_bytes_ok |-> (x + y) % 65536, pl_err |-> e.pl_err]
  BY DEF Merged
<1>2. Merged(tr, e).num_bytes_ok = IF ~ok THEN x ELSE (x + y) % 65536
  <2> HIDE DEF ok
  <2>1. CASE ok
    BY <1>1, <2>1
  <2>2. CASE ~ok
    BY <1>1, <2>2
  <2> QED BY <2>1, <2>2
<1> HIDE DEF x, y, ok
<1>3. x \in Nat /\ y \in Nat
  BY DEF x, y
<1>4. (x + y) % 65536 \in Nat /\ (x + y) % 65536 <= x + y
  BY <1>3, SMT
<1> QED BY <1>2, <1>3, <1>4, SMT DEF x, y

LEMMA SlackStep ==
    ASSUME NEW z \in BOOLEAN, NEW i \in Nat
    PROVE  Slack(z, i + 1) = Slack(z, i) + Slack(z, 1) /\ Slack(z, i) \in Nat /\ Slack(z, 1) \in Nat /\ Slack(z, 0) = 0
BY DEF Slack

LEMMA RoomStep ==
    ASSUME Types1, NEW acc, AskedFor(acc), NEW M, Turns(M), NEW z \in BOOLEAN, Bounded(acc, z),
           NEW k \in Nat, k < mPl0NumTrans, Room(acc, z, M, k)
    PROVE  Room(acc, z, M, k + 1)
<1> DEFINE n == mPl0NumTrans
<1>1. Tiled(acc, mRwTrans) /\ n = Len(acc) /\ n \in Nat
  BY DEF AskedFor, Tiled
<1>2. PICK i \in 1..n : i = k + 1 /\ i - 1 = k /\ k \in 0..n /\ k # n
  BY <1>1
<1>3. Ready(acc, M[k], i) /\ Turned(acc, M[k], i, M[i])
  BY <1>2, TurnsAre
<1>4. PICK t : t = acc[i].rw
  OBVIOUS
<1>5. /\ Within1(acc, mRwTrans, i) /\ t \in 1..Len(mRwTrans) /\ acc[i] \in Pl0Access /\ mRwTrans[t] \in RwTrans
  BY <1>1, <1>2, <1>4, Zenon DEF Tiled, Within1
<1>6. /\ Len(M[i].out) = Current(acc, i)
      /\ \A v \in 1..Current(acc, i) :
           M[i].out[v] = IF v = t THEN Merged(M[k].out[v], mPl0TransRsp[i])
                         ELSE IF v < t THEN M[k].out[v] ELSE NoBytes
  BY <1>3, <1>4, Zenon DEF Turned
<1>7. /\ t \in Nat /\ t >= 1 /\ Current(acc, k) = t
      /\ Current(acc, i) = t \/ Current(acc, i) = t + 1
  <2>1. Current(acc, k) = t
    BY <1>1, <1>2, <1>4, Zenon DEF Current
  <2>2. Current(acc, i) = t \/ Current(acc, i) = t + 1
    <3>1. i \in 1..Len(acc)
      BY <1>1
    <3> QED BY <1>1, <1>4, <3>1, CurrentIs
  <2> QED BY <1>5, <2>1, <2>2
<1>8. /\ M[k].out[t].num_bytes_ok + mRwTrans[t].addr <= acc[i].addr + Slack(z, k)
      /\ \A v \in 1..t : M[k].out[v].num_bytes_ok <= mRwTrans[v].num_bytes + Slack(z, k)
  BY <1>2, <1>4, <1>7 DEF Room
<1>9. mPl0TransRsp[i].num_bytes_ok <= acc[i].num_bytes + Slack(z, 1)
  BY <1>2 DEF Bounded
<1>10. /\ acc[i].addr \in Nat /\ acc[i].num_bytes \in Nat
       /\ mRwTrans[t].addr \in Nat /\ mRwTrans[t].num_bytes \in Nat
       /\ End(acc[i]) <= End(mRwTrans[t])
  <2>1. End(acc[i]) <= End(mRwTrans[t])
    BY <1>4, <1>5, Zenon DEF Within1
  <2>2. acc[i].addr \in Nat /\ acc[i].num_bytes \in Nat
    BY <1>5, AccessFields
  <2>3. mRwTrans[t].addr \in Nat /\ mRwTrans[t].num_bytes \in Nat
    BY <1>5 DEF RwTrans
  <2> QED BY <2>1, <2>2, <2>3
<1>11. mPl0TransRsp[i].num_bytes_ok \in Nat
  <2>1. i \in 1..Len(mPl0TransRsp)
    BY <1>1, LenProperties DEF Types1, Scalars, Arrays
  <2>2. mPl0TransRsp[i] \in Result
    BY <2>1, ElementOfSeq DEF Types1, Arrays
  <2> QED BY <2>2 DEF Result
<1>12. \A v \in 1..t : M[k].out[v].num_bytes_ok \in Nat
  <2>1. M[k].out \in Seq(TransResult) /\ Len(M[k].out) = t
    BY <1>3, <1>4 DEF Ready, MergeState
  <2>2. \A v \in 1..t : M[k].out[v] \in TransResult
    BY <2>1, ElementOfSeq
  <2> QED BY <2>2 DEF TransResult
<1>13. Slack(z, i) = Slack(z, k) + Slack(z, 1) /\ Slack(z, k) \in Nat /\ Slack(z, 1) \in Nat
  BY <1>2, SlackStep
<1>14. PICK x \in Nat : x = M[i].out[t].num_bytes_ok /\ x + mRwTrans[t].addr <= End(acc[i]) + Slack(z, i)
  <2>1. t \in 1..Current(acc, i) /\ t \in 1..t
    BY <1>7
  <2>2. M[i].out[t] = Merged(M[k].out[t], mPl0TransRsp[i])
    BY <1>6, <2>1, Zenon
  <2>3. /\ M[i].out[t].num_bytes_ok \in Nat
        /\ M[i].out[t].num_bytes_ok <= M[k].out[t].num_bytes_ok + mPl0TransRsp[i].num_bytes_ok
    BY <1>11, <1>12, <2>1, <2>2, MergedBytes
  <2>4. PICK a, b, c, d, e, f, g, h :
            /\ a = M[i].out[t].num_bytes_ok /\ b = M[k].out[t].num_bytes_ok /\ c = mPl0TransRsp[i].num_bytes_ok
            /\ d = acc[i].num_bytes /\ e = acc[i].addr /\ f = mRwTrans[t].addr /\ g = Slack(z, k) /\ h = Slack(z, 1)
    OBVIOUS
  <2>5. /\ a \in Nat /\ b \in Nat /\ c \in Nat /\ d \in Nat /\ e \in Nat /\ f \in Nat /\ g \in Nat /\ h \in Nat
        /\ a <= b + c /\ b + f <= e + g /\ c <= d + h
    BY <1>8, <1>9, <1>10, <1>11, <1>12, <1>13, <2>1, <2>3, <2>4, Zenon
  <2>6. a + f <= (e + d) + (g + h)
    BY <2>5
  <2>7. a \in Nat /\ a = M[i].out[t].num_bytes_ok /\ a + mRwTrans[t].addr <= End(acc[i]) + Slack(z, i)
    BY <1>13, <2>4, <2>5, <2>6, Zenon DEF End
  <2> QED BY <2>7
<1>15. ASSUME NEW v \in 1..Current(acc, i)
       PROVE  M[i].out[v].num_bytes_ok <= mRwTrans[v].num_bytes + Slack(z, i)
  <2>1. CASE v = t
    <3>1. x + mRwTrans[t].addr <= (mRwTrans[t].addr + mRwTrans[t].num_bytes) + Slack(z, i)
      <4>1. End(acc[i]) \in Nat /\ End(mRwTrans[t]) \in Nat /\ Slack(z, i) \in Nat
        BY <1>10, <1>13 DEF End
      <4>2. x + mRwTrans[t].addr <= End(mRwTrans[t]) + Slack(z, i)
        BY <1>10, <1>14, <4>1
      <4> QED BY <4>2 DEF End
    <3> QED BY <1>10, <1>13, <1>14, <2>1, <3>1
  <2>2. CASE v < t
    <3>1. v \in 1..t /\ v # t
      BY <1>7, <2>2
    <3>2. M[i].out[v] = M[k].out[v]
      BY <1>6, <2>2, <3>1, Zenon
    <3>3. mRwTrans[v].num_bytes \in Nat
      <4>1. v \in 1..Len(mRwTrans)
        BY <1>5, <3>1
      <4>2. mRwTrans[v] \in RwTrans
        BY <1>1, <4>1, ElementOfSeq DEF Tiled
      <4> QED BY <4>2 DEF RwTrans
    <3> QED BY <1>8, <1>12, <1>13, <3>1, <3>2, <3>3
  <2>3. CASE v > t
    <3>1. v = t + 1 /\ v # t /\ ~(v < t)
      BY <1>7, <2>3
    <3>2. M[i].out[v].num_bytes_ok = 0
      <4>1. M[i].out[v] = NoBytes
        BY <1>6, <3>1, Zenon
      <4> QED BY <4>1 DEF NoBytes
    <3>3. v \in 1..Len(mRwTrans)
      <4>1. M[i] \in MergeState
        BY <1>2 DEF Turns
      <4>2. Current(acc, i) <= Len(mRwTrans) /\ Len(mRwTrans) \in Nat
        BY <1>1, <1>6, <4>1 DEF MergeState, Tiled
      <4> QED BY <1>7, <4>2
    <3>4. mRwTrans[v] \in RwTrans
      BY <1>1, <3>3, ElementOfSeq DEF Tiled
    <3> QED BY <1>13, <3>2, <3>4 DEF RwTrans
  <2> QED BY <1>7, <2>1, <2>2, <2>3
<1>16. ASSUME i < n
       PROVE  M[i].out[acc[i + 1].rw].num_bytes_ok + mRwTrans[acc[i + 1].rw].addr <= acc[i + 1].addr + Slack(z, i)
  <2>1. i + 1 \in 1..n /\ i + 1 # 1 /\ (i + 1) - 1 = i /\ i # n
    BY <1>1, <1>16
  <2>2. Follows1(acc, i + 1) /\ Within1(acc, mRwTrans, i + 1)
    BY <1>1, <2>1, Zenon DEF Tiled
  <2>3. Current(acc, i) = acc[i + 1].rw
    BY <1>1, <2>1, Zenon DEF Current
  <2>4. CASE ~Begins(acc, i + 1)
    <3>1. acc[i + 1].rw = t /\ acc[i + 1].addr = End(acc[i])
      BY <1>4, <2>1, <2>2, <2>4, Zenon DEF Follows1
    <3> QED BY <1>14, <3>1, Zenon
  <2>5. CASE Begins(acc, i + 1)
    <3>1. PICK v : v = acc[i + 1].rw /\ v = t + 1
      BY <1>4, <2>1, <2>2, <2>5, Zenon DEF Follows1
    <3>2. acc[i + 1].addr = mRwTrans[v].addr
      BY <2>2, <2>5, <3>1, Zenon DEF Within1
    <3>3. v # t /\ ~(v < t) /\ v \in 1..Current(acc, i)
      BY <1>7, <2>3, <3>1
    <3>4. M[i].out[v].num_bytes_ok = 0
      <4>1. M[i].out[v] = NoBytes
        BY <1>6, <3>3, Zenon
      <4> QED BY <4>1 DEF NoBytes
    <3>5. mRwTrans[v].addr \in Nat
      BY <2>2, <3>1 DEF Within1, RwTrans
    <3> QED BY <1>13, <3>1, <3>2, <3>4, <3>5
  <2> QED BY <2>4, <2>5
<1> QED BY <1>2, <1>15, <1>16, Zenon DEF Room

LEMMA MergeRoom ==
    ASSUME Types1, NEW acc, AskedFor(acc), NEW M, Turns(M), NEW z \in BOOLEAN, Bounded(acc, z)
    PROVE  \A i \in 0..mPl0NumTrans : Room(acc, z, M, i)
<1> DEFINE n == mPl0NumTrans
           P == {i \in Nat : i <= n => Room(acc, z, M, i)}
<1>1. Tiled(acc, mRwTrans) /\ n = Len(acc) /\ n \in Nat /\ n > 0
  BY DEF AskedFor, Tiled
<1>2. 0 \in P
  <2>1. M[0].out = <<NoBytes>> /\ NoBytes.num_bytes_ok = 0
    BY DEF Turns, NoBytes
  <2>2. 0 + 1 = 1 /\ 0 # n /\ 1 \in 1..n /\ acc[1].rw = 1
    BY <1>1 DEF Tiled
  <2>3. Current(acc, 0) = 1
    BY <1>1, <2>2, Zenon DEF Current
  <2>4. M[0].out[1].num_bytes_ok = 0
    BY <2>1
  <2>5. Within1(acc, mRwTrans, 1) /\ Begins(acc, 1)
    BY <1>1, <2>2 DEF Tiled, Begins
  <2>6. acc[1].addr = mRwTrans[1].addr /\ mRwTrans[1] \in RwTrans
    BY <2>2, <2>5, Zenon DEF Within1
  <2>7. mRwTrans[1].addr \in Nat /\ mRwTrans[1].num_bytes \in Nat
    BY <2>6 DEF RwTrans
  <2>8. Slack(z, 0) = 0
    BY DEF Slack
  <2>9. \A v \in 1..1 : v = 1
    OBVIOUS
  <2>10. M[0].out[1].num_bytes_ok <= mRwTrans[1].num_bytes + Slack(z, 0)
    BY <2>4, <2>7, <2>8
  <2>11. M[0].out[1].num_bytes_ok + mRwTrans[1].addr <= acc[1].addr + Slack(z, 0)
    BY <2>4, <2>6, <2>7, <2>8
  <2>12. Room(acc, z, M, 0)
    BY <2>2, <2>3, <2>9, <2>10, <2>11, Zenon DEF Room
  <2> QED BY <2>12
<1>3. ASSUME NEW i \in P PROVE i + 1 \in P
  <2> SUFFICES ASSUME i + 1 <= n PROVE Room(acc, z, M, i + 1)
    OBVIOUS
  <2>1. i \in Nat /\ i < n /\ i <= n
    BY <1>1
  <2>2. Room(acc, z, M, i)
    BY <2>1
  <2> QED BY <2>1, <2>2, RoomStep
<1>4. \A i \in Nat : i \in P
  <2>1. P \in SUBSET Nat /\ \A i \in P : i + 1 \in P
    BY <1>3
  <2> HIDE DEF P
  <2> QED BY <1>2, <2>1, SetInduction
<1> QED BY <1>1, <1>4

--------------------------------------------------------------------------------
(* The results of the transactions are those of their accesses.               *)

\* The accesses of transaction v up to i; tr is what they give, U those that count.
Mine(acc, i, v) == {j \in 1..i : acc[j].rw = v}
UpTo(mine, b) == {j \in mine : j <= b}
FailsAt(mine, b) == b \in mine /\ Failed(b) /\ \A j \in mine : j < b => ~Failed(j)
AllOk(mine) == \A j \in mine : ~Failed(j)
Counting(mine, err, U) ==
    \/ err = "NO_ERROR" /\ U = mine /\ AllOk(mine)
    \/ \E b : FailsAt(mine, b) /\ err = mPl0TransRsp[b].pl_err /\ U = UpTo(mine, b)
Shown(mine, tr, U) == tr.num_bytes_ok = SumOk(mPl0TransRsp, U) /\ Counting(mine, tr.pl_err, U)
AllShown(acc, out, i) == \A v \in 1..Current(acc, i) : \E U : Shown(Mine(acc, i, v), out[v], U)

LEMMA RwGrows ==
    ASSUME NEW acc, Tiled(acc, mRwTrans)
    PROVE  \A i \in 1..Len(acc), j \in 1..Len(acc) : j <= i => acc[j].rw <= acc[i].rw
<1> DEFINE n == Len(acc)
<1>1. n \in Nat
  BY DEF Tiled
<1>2. \A i \in 1..n : acc[i].rw \in Nat
  BY DEF Tiled, Within1
<1>3. ASSUME NEW j \in 1..n
      PROVE  \A i \in 1..n : j <= i => acc[j].rw <= acc[i].rw
  <2> DEFINE P == {d \in Nat : j + d <= n => acc[j].rw <= acc[j + d].rw}
  <2>1. 0 \in P
    <3>1. j + 0 = j /\ acc[j].rw <= acc[j].rw
      BY <1>2
    <3> QED BY <3>1
  <2>2. ASSUME NEW d \in P PROVE d + 1 \in P
    <3> SUFFICES ASSUME j + (d + 1) <= n PROVE acc[j].rw <= acc[j + (d + 1)].rw
      OBVIOUS
    <3>1. PICK i \in 1..n : i = j + (d + 1) /\ i - 1 = j + d /\ i # 1 /\ i - 1 \in 1..n /\ j + d <= n
      <4>1. j + (d + 1) \in 1..n
        BY <1>1
      <4> QED BY <1>1, <4>1
    <3>2. acc[j].rw <= acc[i - 1].rw
      BY <3>1
    <3>3. Follows1(acc, i)
      BY <3>1, Zenon DEF Tiled
    <3>4. acc[i].rw = acc[i - 1].rw + 1 \/ acc[i].rw = acc[i - 1].rw
      BY <3>3, Zenon DEF Follows1
    <3>5. acc[i].rw \in Nat /\ acc[i - 1].rw \in Nat /\ acc[j].rw \in Nat
      BY <1>2, <3>1
    <3>6. acc[j].rw <= acc[i].rw
      BY <3>2, <3>4, <3>5
    <3> QED BY <3>1, <3>6
  <2>3. \A d \in Nat : d \in P
    <3>1. P \in SUBSET Nat /\ \A d \in P : d + 1 \in P
      BY <2>2
    <3> HIDE DEF P
    <3> QED BY <2>1, <3>1, SetInduction
  <2> SUFFICES ASSUME NEW i \in 1..n, j <= i PROVE acc[j].rw <= acc[i].rw
    OBVIOUS
  <2>4. i - j \in Nat /\ j + (i - j) = i /\ i <= n
    BY <1>1
  <2>5. acc[j].rw <= acc[j + (i - j)].rw
    BY <2>3, <2>4
  <2> QED BY <2>4, <2>5
<1> QED BY <1>3

Fits(x) == x < 65536

\* One more access of the transaction.
LEMMA ShownStep ==
    ASSUME Types1, NEW i \in 1..mPl0NumTrans, NEW mine \in SUBSET (1..(i - 1)), NEW tr \in TransResult,
           NEW U, Shown(mine, tr, U), Fits(tr.num_bytes_ok + mPl0TransRsp[i].num_bytes_ok)
    PROVE  \E X : Shown(mine \cup {i}, Merged(tr, mPl0TransRsp[i]), X)
<1> DEFINE n == mPl0NumTrans
<1>1. n \in Nat /\ \A j \in mine : j \in 1..n /\ j < i
  BY DEF Types1, Scalars
<1>2. \A j \in 1..n : mPl0TransRsp[j] \in Result
  <2>1. \A j \in 1..n : j \in 1..Len(mPl0TransRsp)
    BY LenProperties DEF Types1, Scalars, Arrays
  <2> QED BY <2>1, ElementOfSeq DEF Types1, Arrays
<1>3. PICK e, m2 : e = mPl0TransRsp[i] /\ m2 = mine \cup {i}
  OBVIOUS
<1>4. OkTypes(n, mPl0TransRsp) /\ e.num_bytes_ok \in Nat /\ tr.num_bytes_ok \in Nat
  BY <1>2, <1>3 DEF OkTypes, Result, TransResult
<1>5. tr.num_bytes_ok = SumOk(mPl0TransRsp, U) /\ Counting(mine, tr.pl_err, U)
  BY Zenon DEF Shown
<1>6. CASE tr.pl_err = "NO_ERROR"
  <2>1. U = mine /\ AllOk(mine)
    <3>1. \A b : FailsAt(mine, b) => mPl0TransRsp[b].pl_err # "NO_ERROR"
      BY DEF Failed, FailsAt
    <3>2. \A b : FailsAt(mine, b) => tr.pl_err # mPl0TransRsp[b].pl_err
      BY <1>6, <3>1
    <3> QED BY <1>5, <3>2 DEF Counting
  <2>2. Merged(tr, e) = [num_bytes_ok |-> (tr.num_bytes_ok + e.num_bytes_ok) % 65536, pl_err |-> e.pl_err]
    BY <1>6 DEF Merged
  <2>3. (tr.num_bytes_ok + e.num_bytes_ok) % 65536 = tr.num_bytes_ok + e.num_bytes_ok
    <3> DEFINE x == tr.num_bytes_ok + e.num_bytes_ok
    <3>1. x \in Nat /\ x < 65536
      BY <1>3, <1>4 DEF Fits
    <3> HIDE DEF x
    <3>2. x % 65536 = x
      BY <3>1, SMT
    <3> QED BY <3>2 DEF x
  <2>4. Merged(tr, e).num_bytes_ok = tr.num_bytes_ok + e.num_bytes_ok /\ Merged(tr, e).pl_err = e.pl_err
    BY <2>2, <2>3
  <2>5. SumOk(mPl0TransRsp, m2) = SumOk(mPl0TransRsp, mine) + e.num_bytes_ok
    <3>1. mine \in SUBSET (1..n) /\ i \notin mine
      BY <1>1
    <3> HIDE DEF n
    <3>2. SumOk(mPl0TransRsp, mine \cup {i}) = SumOk(mPl0TransRsp, mine) + mPl0TransRsp[i].num_bytes_ok
      <4>1. i \in 1..n
        BY DEF n
      <4> QED BY <1>1, <1>4, <3>1, <4>1, SumOkAdd
    <3> QED BY <1>3, <3>2, Zenon
  <2>6. Merged(tr, e).num_bytes_ok = SumOk(mPl0TransRsp, m2)
    BY <1>5, <2>1, <2>4, <2>5, Zenon
  <2>7. Counting(m2, e.pl_err, m2)
    <3>1. CASE ~Failed(i)
      <4>1. e.pl_err = "NO_ERROR" /\ AllOk(m2)
        BY <1>3, <2>1, <3>1 DEF Failed, AllOk
      <4> QED BY <4>1, Zenon DEF Counting
    <3>2. CASE Failed(i)
      <4>1. m2 = UpTo(m2, i)
        <5>1. \A j \in m2 : j <= i
          BY <1>1, <1>3
        <5>2. \A j : j \in m2 <=> j \in UpTo(m2, i)
          BY <5>1, Zenon DEF UpTo
        <5> QED BY <5>2, Zenon DEF UpTo
      <4>2. FailsAt(m2, i)
        <5>1. i \in m2 /\ \A j \in m2 : j < i => j \in mine
          BY <1>3
        <5> QED BY <2>1, <3>2, <5>1, Zenon DEF FailsAt, AllOk
      <4> QED BY <1>3, <4>1, <4>2, Zenon DEF Counting
    <3> QED BY <3>1, <3>2
  <2> QED BY <1>3, <2>4, <2>6, <2>7, Zenon DEF Shown
<1>7. CASE tr.pl_err # "NO_ERROR"
  <2>1. Merged(tr, e) = tr
    BY <1>7 DEF Merged
  <2>2. PICK b : FailsAt(mine, b) /\ tr.pl_err = mPl0TransRsp[b].pl_err /\ U = UpTo(mine, b)
    BY <1>5, <1>7 DEF Counting
  <2>3. b \in mine /\ b < i /\ b \in 1..n /\ ~(i < b) /\ ~(i <= b)
    BY <1>1, <2>2 DEF FailsAt
  <2>4. UpTo(m2, b) = UpTo(mine, b)
    BY <1>3, <2>3 DEF UpTo
  <2>5. FailsAt(m2, b)
    BY <1>3, <2>2, <2>3 DEF FailsAt
  <2>6. Counting(m2, tr.pl_err, U)
    BY <2>2, <2>4, <2>5, Zenon DEF Counting
  <2> QED BY <1>3, <1>5, <2>1, <2>6, Zenon DEF Shown
<1> QED BY <1>6, <1>7

\* rw_get_trans_rsp() does not overflow its count of bytes.
NoWrap == \A t \in 1..Len(mRwTrans) : mRwTrans[t].num_bytes + 3 * mPl0NumTrans < 65536

LEMMA AllShownStep ==
    ASSUME Types1, NEW acc, AskedFor(acc), NEW M, Turns(M), NEW z \in BOOLEAN, Bounded(acc, z), NoWrap,
           NEW k \in Nat, k < mPl0NumTrans, AllShown(acc, M[k].out, k)
    PROVE  AllShown(acc, M[k + 1].out, k + 1)
<1> DEFINE n == mPl0NumTrans
<1>1. Tiled(acc, mRwTrans) /\ n = Len(acc) /\ n \in Nat
  BY DEF AskedFor, Tiled
<1>2. PICK i \in 1..n : i = k + 1 /\ i - 1 = k /\ k \in 0..n /\ k # n
  BY <1>1
<1>3. Ready(acc, M[k], i) /\ Turned(acc, M[k], i, M[i])
  BY <1>2, TurnsAre
<1>4. PICK t : t = acc[i].rw
  OBVIOUS
<1>5. \A v \in 1..Current(acc, i) :
           M[i].out[v] = IF v = t THEN Merged(M[k].out[v], mPl0TransRsp[i])
                         ELSE IF v < t THEN M[k].out[v] ELSE NoBytes
  BY <1>3, <1>4, Zenon DEF Turned
<1>6. /\ t \in 1..Len(mRwTrans) /\ t \in Nat /\ t >= 1 /\ Current(acc, k) = t
      /\ Current(acc, i) = t \/ Current(acc, i) = t + 1
  <2>1. Current(acc, k) = t
    BY <1>1, <1>2, <1>4, Zenon DEF Current
  <2>2. t \in 1..Len(mRwTrans) /\ (Current(acc, i) = t \/ Current(acc, i) = t + 1)
    <3>1. i \in 1..Len(acc)
      BY <1>1
    <3> QED BY <1>1, <1>4, <3>1, CurrentIs
  <2> QED BY <2>1, <2>2
<1>7. \A v \in 1..t : \E U : Shown(Mine(acc, k, v), M[k].out[v], U)
  BY <1>6, Zenon DEF AllShown
<1>8. \A v : v # t => Mine(acc, i, v) = Mine(acc, k, v)
  BY <1>1, <1>2, <1>4 DEF Mine
<1>9. Mine(acc, i, t) = Mine(acc, k, t) \cup {i} /\ Mine(acc, k, t) \in SUBSET (1..(i - 1))
  BY <1>1, <1>2, <1>4 DEF Mine
<1>10. \A j \in 1..i : acc[j].rw <= t /\ acc[j].rw \in Nat
  <2> SUFFICES ASSUME NEW j \in 1..i PROVE acc[j].rw <= t /\ acc[j].rw \in Nat
    OBVIOUS
  <2>1. j \in 1..Len(acc) /\ i \in 1..Len(acc) /\ j <= i
    BY <1>1
  <2>2. acc[j].rw <= acc[i].rw
    BY <1>1, <2>1, RwGrows
  <2>3. acc[j].rw \in 1..Len(mRwTrans)
    BY <1>1, <2>1 DEF Tiled, Within1
  <2> QED BY <1>4, <2>2, <2>3
<1>11. ASSUME NEW v \in 1..Current(acc, i)
       PROVE  \E U : Shown(Mine(acc, i, v), M[i].out[v], U)
  <2>1. CASE v = t
    <3>1. t \in 1..t
      BY <1>6
    <3>2. PICK U : Shown(Mine(acc, k, t), M[k].out[t], U)
      BY <1>7, <3>1, Zenon
    <3>3. M[k].out[t] \in TransResult
      <4>1. M[k].out \in Seq(TransResult) /\ Len(M[k].out) = t
        BY <1>3, <1>4 DEF Ready, MergeState
      <4> QED BY <3>1, <4>1, ElementOfSeq
    <3>4. Fits(M[k].out[t].num_bytes_ok + mPl0TransRsp[i].num_bytes_ok)
      <4>1. Room(acc, z, M, k)
        BY <1>2, MergeRoom
      <4>2. M[k].out[t].num_bytes_ok + mRwTrans[t].addr <= acc[i].addr + Slack(z, k)
        BY <1>2, <1>4, <4>1 DEF Room
      <4>3. mPl0TransRsp[i].num_bytes_ok <= acc[i].num_bytes + Slack(z, 1)
        BY <1>2 DEF Bounded
      <4>4. Slack(z, i) = Slack(z, k) + Slack(z, 1) /\ Slack(z, k) \in Nat /\ Slack(z, 1) \in Nat
        BY <1>2, SlackStep
      <4>5. Slack(z, i) <= 3 * n /\ Slack(z, i) \in Nat
        BY <1>1 DEF Slack
      <4>6. Within1(acc, mRwTrans, i)
        BY <1>1, Zenon DEF Tiled
      <4>7. acc[i] \in Pl0Access /\ mRwTrans[t] \in RwTrans /\ End(acc[i]) <= End(mRwTrans[t])
        BY <1>4, <4>6, Zenon DEF Within1
      <4>8. /\ acc[i].addr \in Nat /\ acc[i].num_bytes \in Nat
            /\ mRwTrans[t].addr \in Nat /\ mRwTrans[t].num_bytes \in Nat
        BY <4>7, AccessFields DEF RwTrans
      <4>9. mRwTrans[t].num_bytes + 3 * n < 65536
        BY <1>6 DEF NoWrap
      <4>10. mPl0TransRsp[i].num_bytes_ok \in Nat /\ M[k].out[t].num_bytes_ok \in Nat
        <5>1. i \in 1..Len(mPl0TransRsp)
          BY <1>1, LenProperties DEF Types1, Scalars, Arrays
        <5>2. mPl0TransRsp[i] \in Result
          BY <5>1, ElementOfSeq DEF Types1, Arrays
        <5> QED BY <3>3, <5>2 DEF Result, TransResult
      <4>11. PICK a, b, c, d, e, f, g, h, s, q :
            /\ a = M[k].out[t].num_bytes_ok /\ b = mPl0TransRsp[i].num_bytes_ok /\ c = mRwTrans[t].addr
            /\ d = mRwTrans[t].num_bytes /\ e = acc[i].addr /\ f = acc[i].num_bytes
            /\ g = Slack(z, k) /\ h = Slack(z, 1) /\ s = Slack(z, i) /\ q = 3 * n
        OBVIOUS
      <4>12. q \in Nat
        BY <1>1, <4>11
      <4>13. e + f <= c + d
        BY <4>7, <4>11, Zenon DEF End
      <4>14. /\ a \in Nat /\ b \in Nat /\ c \in Nat /\ d \in Nat /\ e \in Nat /\ f \in Nat /\ g \in Nat
             /\ h \in Nat /\ s \in Nat /\ s = g + h /\ a + c <= e + g /\ b <= f + h /\ s <= q
        BY <4>2, <4>3, <4>4, <4>5, <4>8, <4>10, <4>11, Zenon
      <4>15. a + b <= d + q
        BY <4>12, <4>13, <4>14
      <4>16. M[k].out[t].num_bytes_ok + mPl0TransRsp[i].num_bytes_ok <= mRwTrans[t].num_bytes + 3 * n
        BY <4>11, <4>15, Zenon
      <4> HIDE DEF n
      <4> QED BY SMTT(40), <1>1, <4>8, <4>9, <4>10, <4>16 DEF Fits
    <3>5. PICK X : Shown(Mine(acc, k, t) \cup {i}, Merged(M[k].out[t], mPl0TransRsp[i]), X)
      <4>1. PICK m : m = Mine(acc, k, t)
        OBVIOUS
      <4>2. m \in SUBSET (1..(i - 1)) /\ Shown(m, M[k].out[t], U)
        BY <1>9, <3>2, <4>1, Zenon
      <4>3. \E X : Shown(m \cup {i}, Merged(M[k].out[t], mPl0TransRsp[i]), X)
        BY <3>3, <3>4, <4>2, ShownStep
      <4> QED BY <4>1, <4>3, Zenon
    <3>6. M[i].out[v] = Merged(M[k].out[t], mPl0TransRsp[i])
      BY <1>5, <2>1, Zenon
    <3> QED BY <1>9, <2>1, <3>5, <3>6, Zenon
  <2>2. CASE v < t
    <3>1. v \in 1..t /\ v # t
      BY <1>6, <2>2
    <3>2. M[i].out[v] = M[k].out[v] /\ Mine(acc, i, v) = Mine(acc, k, v)
      BY <1>5, <1>8, <2>2, <3>1, Zenon
    <3> QED BY <1>7, <3>1, <3>2, Zenon
  <2>3. CASE v > t
    <3>1. v # t /\ ~(v < t)
      BY <1>6, <2>3
    <3>2. M[i].out[v] = NoBytes
      BY <1>5, <3>1, Zenon
    <3>3. Mine(acc, i, v) = {}
      BY <1>6, <1>10, <2>3 DEF Mine
    <3>4. NoBytes.num_bytes_ok = 0 /\ NoBytes.pl_err = "NO_ERROR"
      BY DEF NoBytes
    <3>5. SumOk(mPl0TransRsp, {}) = 0
      BY SumOkEmpty
    <3>6. Shown({}, NoBytes, {})
      BY <3>4, <3>5 DEF Shown, Counting, AllOk
    <3> QED BY <3>2, <3>3, <3>6, Zenon
  <2> QED BY <1>6, <2>1, <2>2, <2>3
<1> QED BY <1>2, <1>11, Zenon DEF AllShown

LEMMA MergeShown ==
    ASSUME Types1, NEW acc, AskedFor(acc), NEW M, Turns(M), NEW z \in BOOLEAN, Bounded(acc, z), NoWrap
    PROVE  AllShown(acc, M[mPl0NumTrans].out, mPl0NumTrans)
<1> DEFINE n == mPl0NumTrans
           P == {i \in Nat : i <= n => AllShown(acc, M[i].out, i)}
<1>1. Tiled(acc, mRwTrans) /\ n = Len(acc) /\ n \in Nat /\ n > 0
  BY DEF AskedFor, Tiled
<1>2. 0 \in P
  <2>1. M[0].out = <<NoBytes>> /\ NoBytes.num_bytes_ok = 0 /\ NoBytes.pl_err = "NO_ERROR"
    BY DEF Turns, NoBytes
  <2>2. 0 + 1 = 1 /\ 0 # n /\ acc[1].rw = 1
    BY <1>1 DEF Tiled
  <2>3. Current(acc, 0) = 1
    BY <1>1, <2>2, Zenon DEF Current
  <2>4. M[0].out[1] = NoBytes /\ \A v \in 1..1 : v = 1 /\ Mine(acc, 0, v) = {}
    BY <2>1 DEF Mine
  <2>5. SumOk(mPl0TransRsp, {}) = 0
    BY SumOkEmpty
  <2>6. Shown({}, NoBytes, {})
    BY <2>1, <2>5 DEF Shown, Counting, AllOk
  <2>7. AllShown(acc, M[0].out, 0)
    BY <2>3, <2>4, <2>6, Zenon DEF AllShown
  <2> QED BY <2>7
<1>3. ASSUME NEW i \in P PROVE i + 1 \in P
  <2> SUFFICES ASSUME i + 1 <= n PROVE AllShown(acc, M[i + 1].out, i + 1)
    OBVIOUS
  <2>1. i \in Nat /\ i < n /\ i <= n
    BY <1>1
  <2>2. AllShown(acc, M[i].out, i)
    BY <2>1
  <2> QED BY <2>1, <2>2, AllShownStep
<1>4. \A i \in Nat : i \in P
  <2>1. P \in SUBSET Nat /\ \A i \in P : i + 1 \in P
    BY <1>3
  <2> HIDE DEF P
  <2> QED BY <1>2, <2>1, SetInduction
<1>5. n <= n
  BY <1>1
<1> QED BY <1>1, <1>4, <1>5

\* What rw_get_trans_rsp() gives to transaction t.
Bad(mine) == {i \in mine : Failed(i)}
Counted(mine) == IF Bad(mine) = {} THEN mine ELSE {i \in mine : i <= Min(Bad(mine))}
ErrOf(mine) == IF Bad(mine) = {} THEN "NO_ERROR" ELSE mPl0TransRsp[Min(Bad(mine))].pl_err
Merges(tr, mine) == tr.pl_err = ErrOf(mine) /\ tr.num_bytes_ok = SumOk(mPl0TransRsp, Counted(mine))

LEMMA ShownMerges ==
    ASSUME NEW n \in Nat, NEW mine \in SUBSET (1..n), NEW tr, NEW U, Shown(mine, tr, U)
    PROVE  Merges(tr, mine)
<1>1. tr.num_bytes_ok = SumOk(mPl0TransRsp, U) /\ Counting(mine, tr.pl_err, U)
  BY Zenon DEF Shown
<1>2. CASE tr.pl_err = "NO_ERROR" /\ U = mine /\ AllOk(mine)
  <2>1. Bad(mine) = {}
    BY <1>2 DEF Bad, AllOk
  <2> QED BY <1>1, <1>2, <2>1, Zenon DEF Merges, ErrOf, Counted
<1>3. ASSUME NEW b, FailsAt(mine, b), tr.pl_err = mPl0TransRsp[b].pl_err, U = UpTo(mine, b)
      PROVE  Merges(tr, mine)
  <2>1. b \in Bad(mine) /\ Bad(mine) # {} /\ \A j \in Bad(mine) : b <= j
    <3>1. b \in mine /\ Failed(b) /\ \A j \in mine : j < b => ~Failed(j)
      BY <1>3, Zenon DEF FailsAt
    <3>2. \A j \in mine : j \in Nat
      OBVIOUS
    <3> QED BY <3>1, <3>2 DEF Bad
  <2>2. \A x \in Bad(mine) : (\A j \in Bad(mine) : x <= j) => x = b
    <3>1. \A j \in Bad(mine) : j \in Nat
      BY DEF Bad
    <3> HIDE DEF Bad
    <3> QED BY <2>1, <3>1
  <2>3. Min(Bad(mine)) = b
    <3> HIDE DEF Bad
    <3> QED BY <2>1, <2>2 DEF Min
  <2>4. Counted(mine) = UpTo(mine, b) /\ ErrOf(mine) = mPl0TransRsp[b].pl_err
    <3> HIDE DEF Bad
    <3> QED BY <2>1, <2>3, Zenon DEF Counted, ErrOf, UpTo
  <2> QED BY <1>1, <1>3, <2>4, Zenon DEF Merges
<1> QED BY <1>1, <1>2, <1>3, Zenon DEF Counting

\* All transactions have a result.
LEMMA MergedLen ==
    ASSUME Types1, NEW acc, AskedFor(acc)
    PROVE  /\ TransRsp \in Seq(TransResult) /\ Len(TransRsp) = Len(mRwTrans)
           /\ \E M : Turns(M) /\ TransRsp = M[mPl0NumTrans].out
           /\ mPl0NumTrans \in Nat /\ mPl0NumTrans \in 0..mPl0NumTrans
           /\ Current(acc, mPl0NumTrans) = Len(mRwTrans)
<1>1. /\ Tiled(acc, mRwTrans) /\ mPl0NumTrans = Len(acc) /\ Len(acc) \in Nat /\ Len(acc) > 0
      /\ mRwTrans \in Seq(RwTrans) /\ mRwTrans # <<>>
  BY DEF AskedFor, Tiled
<1>2. PICK n : n = mPl0NumTrans /\ n \in Nat /\ n \in 0..n /\ n \in 1..n /\ n = Len(acc)
  BY <1>1
<1>3. PICK M : Turns(M) /\ TransRsp = M[mPl0NumTrans].out
  BY <1>1, TransRspTurns
<1>4. Current(acc, n) = Len(mRwTrans)
  BY <1>2, Zenon DEF Current
<1>5. TransRsp = M[n].out /\ M[n] \in MergeState
  <2>1. M \in [0..n -> MergeState]
    BY <1>2, <1>3 DEF Turns
  <2> QED BY <1>2, <1>3, <2>1
<1>6. TransRsp \in Seq(TransResult) /\ Len(TransRsp) = Len(mRwTrans)
  <2>1. Turned(acc, M[n - 1], n, M[n])
    BY <1>2, <1>3, TurnsAre
  <2>2. Len(M[n].out) = Current(acc, n)
    BY <2>1, Zenon DEF Turned
  <2> QED BY <1>4, <1>5, <2>2 DEF MergeState
<1> QED BY <1>2, <1>3, <1>4, <1>6, Zenon

\* None has more bytes than its transaction, if no access has.
LEMMA MergedTight ==
    ASSUME Types1, NEW acc, AskedFor(acc), Bounded(acc, FALSE)
    PROVE  \A t \in 1..Len(mRwTrans) : TransRsp[t].num_bytes_ok <= mRwTrans[t].num_bytes
<1>1. PICK M : Turns(M) /\ TransRsp = M[mPl0NumTrans].out
  BY MergedLen
<1>2. PICK n : n = mPl0NumTrans /\ n \in 0..n /\ Current(acc, n) = Len(mRwTrans)
  BY MergedLen
<1>3. PICK z \in BOOLEAN : ~z /\ Bounded(acc, z)
  OBVIOUS
<1>4. Room(acc, z, M, n)
  BY <1>1, <1>2, <1>3, MergeRoom
<1>5. Slack(z, n) = 0
  BY <1>3, Zenon DEF Slack
<1>6. \A t \in 1..Len(mRwTrans) : M[n].out[t].num_bytes_ok <= mRwTrans[t].num_bytes + 0
  BY <1>2, <1>4, <1>5, Zenon DEF Room
<1>7. \A t \in 1..Len(mRwTrans) : mRwTrans[t].num_bytes \in Nat
  <2> SUFFICES ASSUME NEW t \in 1..Len(mRwTrans) PROVE mRwTrans[t].num_bytes \in Nat
    OBVIOUS
  <2>1. mRwTrans \in Seq(RwTrans)
    BY DEF AskedFor, Tiled
  <2>2. mRwTrans[t] \in RwTrans
    BY <2>1, ElementOfSeq
  <2> QED BY <2>2 DEF RwTrans
<1> QED BY <1>1, <1>2, <1>6, <1>7

\* Each is that of its own accesses, if the count of its bytes does not wrap.
LEMMA MergedOwn ==
    ASSUME Types1, NEW acc, AskedFor(acc), Bounded(acc, TRUE), NoWrap
    PROVE  \A t \in 1..Len(mRwTrans) : Merges(TransRsp[t], Mine(acc, mPl0NumTrans, t))
<1>1. PICK M : Turns(M) /\ TransRsp = M[mPl0NumTrans].out
  BY MergedLen
<1>2. PICK n : n = mPl0NumTrans /\ n \in Nat /\ Current(acc, n) = Len(mRwTrans)
  BY MergedLen
<1>3. AllShown(acc, M[mPl0NumTrans].out, mPl0NumTrans)
  <2>1. PICK z \in BOOLEAN : Bounded(acc, z)
    OBVIOUS
  <2> QED BY <1>1, <2>1, MergeShown
<1>4. \A t \in 1..Len(mRwTrans) : \E U : Shown(Mine(acc, n, t), TransRsp[t], U)
  BY <1>1, <1>2, <1>3, Zenon DEF AllShown
<1>5. ASSUME NEW t \in 1..Len(mRwTrans) PROVE Merges(TransRsp[t], Mine(acc, n, t))
  <2>1. Mine(acc, n, t) \in SUBSET (1..n)
    BY DEF Mine
  <2>2. PICK U : Shown(Mine(acc, n, t), TransRsp[t], U)
    BY <1>4
  <2>3. PICK m, tr : m = Mine(acc, n, t) /\ tr = TransRsp[t]
    OBVIOUS
  <2>4. Merges(tr, m)
    BY <1>2, <2>1, <2>2, <2>3, ShownMerges
  <2> QED BY <2>3, <2>4, Zenon
<1> QED BY <1>2, <1>5, Zenon

--------------------------------------------------------------------------------
(* How many bytes an access may have, and what else the results rest on.      *)

\* No access has more bytes than its words; and no more than asked for, where only a part of
\* an answer to an earlier request, which the end of its packet refuses, can have more.
Rounded == \A i \in 1..mPl0NumTrans : mPl0TransRsp[i].num_bytes_ok <= mPl0Trans[i].a.num_bytes + 3
Tight == \A i \in 1..mPl0NumTrans : mPl0TransRsp[i].num_bytes_ok <= mPl0Trans[i].a.num_bytes
InLate == rsp # <<>> /\ ~AtStart /\ Part.rq # call
TightInv ==
    /\ phase = "idle" /\ call > 0 => tas_err = "SERVER_CON"
    /\ phase = "parse" => Tight \/ InLate
    /\ phase = "done" /\ tas_err # "SERVER_CON" => Tight

\* The arrays are those of a request.
AskedInv == call > 0 => \E r \in Requests : mRwTrans = r.rw /\ AskedFor(Accesses(r))

ResultInv ==
    /\ mRwTrans \in Seq(RwTrans) /\ mRwTransRsp \in Seq(TransResult) /\ Len(mRwTransRsp) = Len(mRwTrans)
    /\ phase # "merged" => \A t \in 1..Len(mRwTrans) : mRwTransRsp[t].num_bytes_ok = 0
    /\ phase = "merged" /\ tas_err # "SERVER_CON" =>
        \A t \in 1..Len(mRwTrans) : mRwTransRsp[t].num_bytes_ok <= mRwTrans[t].num_bytes

PBounded == p.wi <= p.next /\ p.iTrans <= Len(mPl0Trans)
PInv == phase # "parse" => PBounded

MInv == AskedInv /\ Rounded /\ TightInv /\ ResultInv /\ PInv

LEMMA AskedStays ==
    ASSUME AskedInv, mPl0Trans' = mPl0Trans, mPl0NumTrans' = mPl0NumTrans, mRwTrans' = mRwTrans, call' = call
    PROVE  AskedInv'
BY Zenon DEF AskedInv, AskedFor

LEMMA TightStays ==
    ASSUME mPl0Trans' = mPl0Trans, mPl0NumTrans' = mPl0NumTrans, mPl0TransRsp' = mPl0TransRsp
    PROVE  (Rounded => Rounded') /\ (Tight => Tight')
BY Zenon DEF Rounded, Tight

LEMMA ResultsStay ==
    ASSUME ResultInv, mRwTrans' = mRwTrans, mRwTransRsp' = mRwTransRsp,
           (phase' # "merged" /\ phase # "merged") \/ (phase' = phase /\ tas_err' = tas_err)
    PROVE  ResultInv'
BY Zenon DEF ResultInv

\* In the loop the locals of rw_set_rsp() stay within the response and the arrays.
LEMMA LocalsBounded ==
    ASSUME Types1, ParseInv, phase = "parse"
    PROVE  PBounded
<1>1. PICK g : Response(g) /\ \E k, j : At(g, k, j)
  BY Zenon DEF ParseInv
<1>2. PICK k, j : At(g, k, j)
  BY <1>1, Zenon
<1>3. k \in 1..mNumPl2Pkt /\ j \in 0..Len(g.A[k])
  BY <1>2, Zenon DEF At
<1>4. Typed(g, k)
  BY <1>1, <1>3, ResponseTypes, Zenon
<1> DEFINE s == g.A[k]
           q == g.qs[k]
           o == g.Off[g.Y[k - 1]]
           c == Len(q.acc)
           L == Len(mPl0Trans)
<1>5. s \in Seq(Piece) /\ Len(s) \in Nat /\ c \in Nat /\ o \in Nat /\ q.rq \in Nat
  BY <1>4, Zenon DEF Typed
<1>6. p.wi <= p.next
  <2>1. PICK C : Sums(s, C) /\ p.next = p.wi + (IF j = 0 THEN 0 ELSE C[Len(s)] - C[j])
    BY <1>2, Zenon DEF At
  <2>2. j \in Nat /\ j \in 0..Len(s) /\ Len(s) \in j..Len(s)
    <3> DEFINE m == Len(s)
    <3>1. m \in Nat /\ j \in 0..m
      BY <1>3, <1>5
    <3> HIDE DEF m
    <3>2. j \in Nat /\ m \in j..m
      BY <3>1
    <3> QED BY <3>1, <3>2 DEF m
  <2>3. C[j] + (Len(s) - j) <= C[Len(s)]
    <3> HIDE DEF s
    <3> QED BY <1>5, <2>1, <2>2, SumsGrow
  <2>4. C[j] \in Nat /\ C[Len(s)] \in Nat
    <3>1. C \in [0..Len(s) -> Nat]
      BY <2>1, Zenon DEF Sums
    <3>2. Len(s) \in 0..Len(s)
      BY <1>5
    <3> QED BY <2>2, <3>1, <3>2, Zenon
  <2>5. PICK x, y, m, a, b : x = C[j] /\ y = C[Len(s)] /\ m = Len(s) /\ a = p.wi /\ b = p.next
    OBVIOUS
  <2>6. x \in Nat /\ y \in Nat /\ m \in Nat /\ j \in 0..m /\ x + (m - j) <= y /\ a \in Nat
    BY <1>5, <2>2, <2>3, <2>4, <2>5, PFields
  <2>7. b = a + (IF j = 0 THEN 0 ELSE y - x)
    BY <2>1, <2>5, Zenon
  <2>8. a <= b
    BY <2>6, <2>7
  <2> QED BY <2>5, <2>8
<1>7. p.iTrans = o + Got(j, q)
  BY <1>2, Zenon DEF At
<1>8. Got(j, q) <= c /\ Got(j, q) \in Nat
  <2>1. Got(j, q) = IF j <= 1 THEN 0 ELSE IF j - 1 <= c THEN j - 1 ELSE c
    BY Zenon DEF Got
  <2>2. j \in Nat
    BY <1>3, <1>5
  <2> HIDE DEF c, q
  <2> QED BY <1>5, <2>1, <2>2
<1>9. L \in Nat /\ mPl0NumTrans \in Nat /\ mPl0NumTrans <= L
  <2>1. mPl0Trans \in Seq(TransEntry) /\ mPl0NumTrans \in Nat /\ mPl0NumTrans <= Len(mPl0Trans)
    BY Zenon DEF Types1, Scalars, Arrays
  <2> QED BY <2>1, LenProperties
<1>10. o <= mPl0NumTrans
  <2>1. g.Y[k - 1] \in 0..mNumPl2Pkt
    BY <1>4, Zenon DEF Typed
  <2> QED BY <1>1, <2>1, Zenon DEF Response, Layout
<1>11. p.iTrans <= L
  <2>1. CASE Stale(q)
    <3>1. g.Y[k - 1] = 0 /\ c <= L /\ g.Off[0] = 0
      BY <1>1, <1>3, <2>1, Zenon DEF Response, Taken, Layout
    <3>2. o = 0
      BY <3>1
    <3> HIDE DEF c, L, o, q
    <3> QED BY <1>5, <1>7, <1>8, <1>9, <3>1, <3>2
  <2>2. CASE ~Stale(q)
    <3>1. Entries(p.iTrans)
      BY <1>2, <2>2, Zenon DEF At
    <3>2. p.iTrans <= mPl0NumTrans /\ p.iTrans \in Nat
      BY <3>1, PFields DEF Entries
    <3> HIDE DEF L
    <3> QED BY <1>9, <3>2
  <2> QED BY <2>1, <2>2
<1> QED BY <1>6, <1>11 DEF PBounded

\* Own answers give no more bytes than the access has.
LEMMA OwnBytes ==
    ASSUME NEW a \in Pl0Access, NEW rq, NEW e, AnswerOf(e, a, rq), e.err # "NO_ERROR"
    PROVE  e.n \in Nat /\ 4 * e.n <= a.num_bytes
<1>1. e # OkAnswer(a, rq)
  <2>1. OkAnswer(a, rq).err = "NO_ERROR"
    BY DEF OkAnswer, E
  <2> QED BY <2>1
<1>2. PICK n \in PartialWords(a), err \in PlErrs \cup {"CONSEQUENTIAL"} : e = ErrAnswer(a, n, err, rq)
  BY <1>1, Zenon DEF AnswerOf
<1>3. ErrAnswer(a, n, err, rq).n = n
  BY DEF ErrAnswer, E
<1>4. e.n = n
  BY <1>2, <1>3
<1>5. n = 0 \/ (n = 1 /\ a.num_bytes > 8)
  BY DEF PartialWords, IsBlk
<1> QED BY <1>4, <1>5, AccessFields

\* The bytes of an accepted answer.
BytesOf(e, a, blk) == IF e.err = "NO_ERROR" THEN a.num_bytes ELSE IF e.cmd = blk THEN 4 * e.n ELSE 0

LEMMA AcceptedBytes ==
    ASSUME NEW a \in Pl0Access, NEW e, e.n \in Nat, NEW blk,
           e.err # "NO_ERROR" => IF e.cmd = blk THEN e.n <= Words(a) ELSE e.n = 0
    PROVE  BytesOf(e, a, blk) \in Nat /\ BytesOf(e, a, blk) <= a.num_bytes + 3
<1>1. a.num_bytes \in Nat /\ Words(a) \in Nat /\ 4 * Words(a) < a.num_bytes + 4
  BY AccessFields
<1>2. CASE e.err = "NO_ERROR"
  BY <1>1, <1>2 DEF BytesOf
<1>3. CASE e.err # "NO_ERROR" /\ e.cmd = blk
  <2>1. BytesOf(e, a, blk) = 4 * e.n /\ e.n <= Words(a)
    BY <1>3 DEF BytesOf
  <2> QED BY <1>1, <2>1
<1>4. CASE e.err # "NO_ERROR" /\ e.cmd # blk
  <2>1. BytesOf(e, a, blk) = 0
    BY <1>4 DEF BytesOf
  <2> QED BY <1>1, <2>1
<1> QED BY <1>2, <1>3, <1>4

\* Behind an answer to an earlier request its packet goes on.
LEMMA LateGoesOn ==
    ASSUME Types1, phase = "parse", NEW g, NEW k, NEW j, Reading(g, k, j), j # 0, Part.cmd # "PL0_END",
           g.qs[k].rq # call, call' = call,
           rsp' = Tail(rsp), p'.next = p.next, p'.wi = p.wi + PartWords(Part)
    PROVE  InLate'
<1> DEFINE s == g.A[k]
           r == g.R[k - 1]
           c == Len(g.qs[k].acc)
<1>1. Response(g) /\ At(g, k, j) /\ Here(g, k, j)
  BY Zenon DEF Reading
<1>2. k \in 1..mNumPl2Pkt /\ j \in Nat /\ Len(s) \in Nat /\ j < Len(s)
  BY Position
<1>3. Typed(g, k)
  BY <1>1, <1>2, ResponseTypes, Zenon
<1>4. /\ s \in Seq(Piece) /\ g.R[k] \in Seq(Piece) /\ r \in Seq(Piece) /\ r = s \o g.R[k]
      /\ \A i \in 1..Len(s) : s[i].rq = g.qs[k].rq
  BY <1>3, Zenon DEF Typed, AnswerTo
<1>5. j <= c /\ c \in Nat /\ Len(s) = c + 2
  BY AssignedTo, Zenon DEF Assigned
<1>6. j + 2 <= Len(s) /\ j + 2 \in 1..Len(s) /\ j + 2 \in Nat /\ j + 2 >= 1 /\ (j + 1) + 1 = j + 2
  <2> HIDE DEF s, c
  <2> QED BY <1>2, <1>5
<1>7. r[j + 2] = s[j + 2] /\ j + 2 <= Len(r)
  <2>1. /\ Len(s) \in Nat /\ Len(g.R[k]) \in Nat /\ Len(s \o g.R[k]) = Len(s) + Len(g.R[k])
        /\ \A i \in 1..Len(s) : (s \o g.R[k])[i] = s[i]
    <3> HIDE DEF s
    <3> QED BY <1>4, PiecesAt
  <2>2. r[j + 2] = s[j + 2] /\ Len(r) = Len(s) + Len(g.R[k])
    <3> HIDE DEF s, r
    <3> QED BY <1>4, <1>6, <2>1, Zenon
  <2> HIDE DEF s, r
  <2> QED BY <1>6, <2>1, <2>2
<1>8. rsp' # <<>> /\ Head(rsp') = s[j + 2]
  <2>1. rsp' = SubSeq(r, j + 2, Len(r))
    BY <1>1, <1>6, Zenon DEF Here
  <2>2. SubSeq(r, j + 2, Len(r)) # <<>> /\ Head(SubSeq(r, j + 2, Len(r))) = r[j + 2]
    <3> HIDE DEF r
    <3> QED BY <1>4, <1>6, <1>7, TailOfSub
  <2> QED BY <1>7, <2>1, <2>2, Zenon
<1>9. Part.rq' # call'
  <2>1. Part' = Head(rsp')
    BY DEF Part
  <2> QED BY <1>4, <1>6, <1>8, <2>1
<1>10. ~AtStart'
  <2>1. PICK C : /\ Sums(s, C) /\ p.next = p.wi + (IF j = 0 THEN 0 ELSE C[Len(s)] - C[j])
                 /\ C[j + 1] = C[j] + PartWords(Part)
                 /\ C[j] \in Nat /\ C[j + 1] \in Nat /\ C[Len(s)] \in Nat
    BY Position, Zenon
  <2>2. C[j + 1] + (Len(s) - (j + 1)) <= C[Len(s)]
    <3>1. j + 1 \in 0..Len(s) /\ Len(s) \in (j + 1)..Len(s)
      <4> HIDE DEF s
      <4> QED BY <1>2
    <3> HIDE DEF s
    <3> QED BY <1>4, <2>1, <3>1, SumsGrow
  <2>3. PICK a, b, d, m, v, w : a = C[j] /\ b = C[j + 1] /\ d = C[Len(s)] /\ m = Len(s) /\ v = p.wi /\ w = PartWords(Part)
    OBVIOUS
  <2>4. /\ a \in Nat /\ b \in Nat /\ d \in Nat /\ m \in Nat /\ v \in Nat /\ b = a + w
        /\ b + (m - (j + 1)) <= d
    BY <1>2, <2>1, <2>2, <2>3, PFields, Zenon
  <2>5. j + 2 <= m
    BY <1>6, <2>3, Zenon
  <2>6. p.next = v + (d - a)
    BY <2>1, <2>3, Zenon
  <2>7. w = b - a
    <3>1. w \in Nat
      <4>1. Part \in Piece
        BY <1>1, Zenon DEF Here
      <4> QED BY <2>3, <4>1, PieceFields
    <3> QED BY <2>4, <3>1
  <2>8. v + w # v + (d - a)
    BY <1>2, <2>4, <2>5, <2>7
  <2> QED BY <2>3, <2>6, <2>8, Zenon DEF AtStart
<1> QED BY <1>8, <1>9, <1>10, Zenon DEF InLate

\* An answer is accepted with nb bytes, or refused.
LEMMA AcceptBytes ==
    ASSUME Types1, ParseInv, Turn, ~AtStart, Part.cmd # "PL0_END", Rounded, Tight \/ InLate,
           NEW ok, NEW noted, NEW nb, NEW dflt, Accept(ok, noted, nb, dflt),
           ok => nb \in Nat /\ nb <= Entry.a.num_bytes + 3,
           ok /\ AnswerOf(Part, Entry.a, call) => nb <= Entry.a.num_bytes
    PROVE  /\ Rounded' /\ TightInv' /\ (phase' # "parse" => p' = p)
<1> DEFINE i == p.iTrans + 1
<1>1. /\ phase = "parse" /\ rsp # <<>> /\ mPl0Trans' = mPl0Trans /\ mPl0NumTrans' = mPl0NumTrans /\ call' = call
  BY DEF Accept, Turn, parseEnv, requestVars
<1>2. /\ Entry.a \in Pl0Access /\ i \in 1..Len(mPl0TransRsp) /\ mPl0TransRsp[i] \in Result
      /\ mPl0TransRsp \in Seq(Result)
  BY AccessTypes DEF Types1, Arrays
<1>3. PICK e : e = mPl0Trans[i].a /\ e = Entry.a /\ e.num_bytes \in Nat
  BY <1>2, AccessFields DEF Entry
<1>4. ASSUME NEW x, Answered(x, Part.err)
      PROVE  \A t : t \in 1..Len(mPl0TransRsp) =>
                    (mPl0TransRsp')[t].num_bytes_ok = IF t = i THEN x ELSE mPl0TransRsp[t].num_bytes_ok
  <2> DEFINE rec == [num_bytes_ok |-> x, pl_err |-> Part.err, rq |-> Part.rq]
  <2>1. mPl0TransRsp' = [mPl0TransRsp EXCEPT ![i] = rec]
    BY <1>4, Zenon DEF Answered
  <2>2. rec.num_bytes_ok = x
    OBVIOUS
  <2>3. DOMAIN mPl0TransRsp = 1..Len(mPl0TransRsp)
    BY <1>2, LenProperties
  <2> HIDE DEF i, rec
  <2> QED BY <2>1, <2>2, <2>3, Zenon
<1>5. \A t \in 1..mPl0NumTrans : t \in 1..Len(mPl0TransRsp)
  <2>1. mPl0NumTrans \in Nat /\ Len(mPl0TransRsp) \in Nat /\ mPl0NumTrans <= Len(mPl0TransRsp)
    <3>1. mPl0NumTrans \in Nat /\ mPl0NumTrans <= Len(mPl0TransRsp)
      BY DEF Types1, Scalars, Arrays
    <3> QED BY <1>2, <3>1, LenProperties
  <2> QED BY <2>1
<1>6. CASE ~ok
  <2>1. phase' = "done" /\ tas_err' = "SERVER_CON" /\ p' = p
    BY <1>6, Zenon DEF Accept, Return
  <2>2. \A t \in 1..mPl0NumTrans : (mPl0TransRsp')[t].num_bytes_ok = mPl0TransRsp[t].num_bytes_ok
    <3>1. CASE mPl0TransRsp' = mPl0TransRsp
      BY <3>1
    <3>2. CASE Answered(mPl0TransRsp[i].num_bytes_ok, Part.err)
      <4>1. PICK x : x = mPl0TransRsp[i].num_bytes_ok
        OBVIOUS
      <4> QED BY <1>4, <1>5, <3>2, <4>1, Zenon
    <3> QED BY <1>6, <3>1, <3>2, Zenon DEF Accept
  <2>3. Rounded'
    BY <1>1, <2>2, Zenon DEF Rounded
  <2>4. TightInv'
    BY <2>1 DEF TightInv
  <2> QED BY <2>1, <2>3, <2>4
<1>7. CASE ok
  <2>1. /\ Answered(nb, Part.err) /\ Consume([p EXCEPT !.iTrans = @ + 1]) /\ phase' = phase
    BY <1>7, Zenon DEF Accept
  <2>2. nb \in Nat /\ nb <= e.num_bytes + 3 /\ (AnswerOf(Part, Entry.a, call) => nb <= e.num_bytes)
    BY <1>3, <1>7
  <2>3. \A t \in 1..mPl0NumTrans : (mPl0TransRsp')[t].num_bytes_ok = IF t = i THEN nb ELSE mPl0TransRsp[t].num_bytes_ok
    BY <1>4, <1>5, <2>1, Zenon
  <2>4. Rounded'
    <3> SUFFICES ASSUME NEW t \in 1..mPl0NumTrans
                 PROVE  (mPl0TransRsp')[t].num_bytes_ok <= mPl0Trans[t].a.num_bytes + 3
      BY <1>1, Zenon DEF Rounded
    <3>1. CASE t = i
      BY <1>3, <2>2, <2>3, <3>1, Zenon
    <3>2. CASE t # i
      BY <2>3, <3>2, Zenon DEF Rounded
    <3> QED BY <3>1, <3>2
  <2>5. ASSUME Tight, nb <= e.num_bytes PROVE Tight'
    <3> SUFFICES ASSUME NEW t \in 1..mPl0NumTrans
                 PROVE  (mPl0TransRsp')[t].num_bytes_ok <= mPl0Trans[t].a.num_bytes
      BY <1>1, Zenon DEF Tight
    <3>1. CASE t = i
      BY <1>3, <2>3, <2>5, <3>1, Zenon
    <3>2. CASE t # i
      BY <2>3, <2>5, <3>2, Zenon DEF Tight
    <3> QED BY <3>1, <3>2
  <2>6. PICK g : Response(g) /\ \E k, j : At(g, k, j) /\ Here(g, k, j)
    BY <1>1, TurnAt, Zenon
  <2>7. PICK k, j : At(g, k, j) /\ Here(g, k, j)
    BY <2>6, Zenon
  <2>8. Reading(g, k, j)
    BY <2>6, <2>7, Zenon DEF Reading
  <2>9. j # 0 /\ Part.rq = g.qs[k].rq
    <3>1. Part.rq = g.qs[k].rq /\ (AtStart <=> j = 0)
      BY <1>1, <2>8, Position
    <3> QED BY <3>1, Zenon
  <2>10. Tight' \/ InLate'
    <3>1. CASE g.qs[k].rq = call
      <4>1. Tight
        BY <2>9, <3>1, Zenon DEF InLate
      <4>2. AnswerOf(Part, Entry.a, call)
        BY <1>1, <2>8, <2>9, <3>1, AssignedTo, Zenon DEF Assigned
      <4> QED BY <2>2, <2>5, <4>1, <4>2, Zenon
    <3>2. CASE g.qs[k].rq # call
      <4>1. rsp' = Tail(rsp) /\ p'.next = p.next /\ p'.wi = p.wi + PartWords(Part)
        <5>1. p \in [wi : Nat, next : Nat, iTrans : Nat]
          BY Zenon DEF Types1, Parsed
        <5> QED BY <2>1, <5>1 DEF Consume
      <4> QED BY <1>1, <2>8, <2>9, <3>2, <4>1, LateGoesOn, Zenon
    <3> QED BY <3>1, <3>2
  <2>11. phase' = "parse"
    BY <1>1, <2>1
  <2>12. TightInv'
    BY <2>10, <2>11 DEF TightInv
  <2> QED BY <2>4, <2>11, <2>12
<1> QED BY <1>6, <1>7

LEMMA WrBytes ==
    ASSUME Types1, ParseInv, ParseWr, Rounded, Tight \/ InLate
    PROVE  Rounded' /\ TightInv' /\ (phase' # "parse" => p' = p)
<1> DEFINE a == Entry.a
           isWr == Part.wl = 0 /\ a.type \in {"WR", "FILL"}
           ok == isWr /\ IF Part.err # "NO_ERROR"
                    THEN IF Part.cmd = "WRBLK" THEN Part.n < Words(a) ELSE Part.n = 0
                    ELSE Part.n = Words(a) % 256
           noted == isWr /\ Part.err # "NO_ERROR"
           nb == IF Part.err = "NO_ERROR" THEN a.num_bytes
                 ELSE IF Part.cmd = "WRBLK" THEN 4 * Part.n ELSE 0
<1>1. Turn /\ ~AtStart /\ Part.cmd \in {"WR", "WRBLK", "FILL"} /\ Accept(ok, noted, nb, "RW_WRITE")
  BY Zenon DEF ParseWr
<1>2. Part.cmd # "PL0_END"
  BY <1>1
<1>3. a \in Pl0Access /\ Part.n \in Nat
  BY <1>1, <1>2, AccessTypes
<1>4. nb = BytesOf(Part, a, "WRBLK")
  BY Zenon DEF BytesOf
<1>5. ok => nb \in Nat /\ nb <= a.num_bytes + 3
  <2>1. ok => (Part.err # "NO_ERROR" => IF Part.cmd = "WRBLK" THEN Part.n <= Words(a) ELSE Part.n = 0)
    <3>1. Part.n < Words(a) => Part.n <= Words(a)
      BY <1>3, AccessFields
    <3> QED BY <3>1, Zenon
  <2> HIDE DEF ok, nb, a
  <2> QED BY <1>3, <1>4, <2>1, AcceptedBytes, Zenon
<1>6. ok /\ AnswerOf(Part, a, call) => nb <= a.num_bytes
  <2> SUFFICES ASSUME AnswerOf(Part, a, call) PROVE nb <= a.num_bytes
    OBVIOUS
  <2>1. a.num_bytes \in Nat
    BY <1>3, AccessFields
  <2>2. Part.err # "NO_ERROR" => 4 * Part.n <= a.num_bytes
    BY <1>3, OwnBytes
  <2> HIDE DEF a
  <2> QED BY <2>1, <2>2
<1> HIDE DEF ok, noted, nb, isWr
<1> QED BY <1>1, <1>2, <1>5, <1>6, AcceptBytes, Zenon

LEMMA RdBytes ==
    ASSUME Types1, ParseInv, ParseRd, Rounded, Tight \/ InLate
    PROVE  Rounded' /\ TightInv' /\ (phase' # "parse" => p' = p)
<1> DEFINE a == Entry.a
           ok == /\ Part.wl = Part.n
                 /\ a.type = "RD"
                 /\ IF Part.cmd = "RDBLK1KB"
                    THEN Words(a) = DataBlkWords /\ Part.wl = 0 /\ Part.err = "NO_ERROR"
                    ELSE IF Part.err # "NO_ERROR"
                    THEN IF Part.cmd = "RDBLK" THEN Part.n <= Words(a) ELSE Part.n = 0
                    ELSE Part.n = Words(a) % 256
           nb == IF Part.err = "NO_ERROR" THEN a.num_bytes
                 ELSE IF Part.cmd = "RDBLK" THEN 4 * Part.n ELSE 0
<1>1. Turn /\ ~AtStart /\ Part.cmd \in {"RD", "RDBLK", "RDBLK1KB"} /\ Accept(ok, FALSE, nb, "RW_READ")
  BY Zenon DEF ParseRd
<1>2. Part.cmd # "PL0_END"
  BY <1>1
<1>3. a \in Pl0Access /\ Part.n \in Nat
  BY <1>1, <1>2, AccessTypes
<1>4. nb = BytesOf(Part, a, "RDBLK")
  BY Zenon DEF BytesOf
<1>5. ok => nb \in Nat /\ nb <= a.num_bytes + 3
  <2>1. ok => (Part.err # "NO_ERROR" => IF Part.cmd = "RDBLK" THEN Part.n <= Words(a) ELSE Part.n = 0)
    BY Zenon
  <2> HIDE DEF ok, nb, a
  <2> QED BY <1>3, <1>4, <2>1, AcceptedBytes, Zenon
<1>6. ok /\ AnswerOf(Part, a, call) => nb <= a.num_bytes
  <2> SUFFICES ASSUME AnswerOf(Part, a, call) PROVE nb <= a.num_bytes
    OBVIOUS
  <2>1. a.num_bytes \in Nat
    BY <1>3, AccessFields
  <2>2. Part.err # "NO_ERROR" => 4 * Part.n <= a.num_bytes
    BY <1>3, OwnBytes
  <2> HIDE DEF a
  <2> QED BY <2>1, <2>2
<1> HIDE DEF ok, nb
<1> QED BY <1>1, <1>2, <1>5, <1>6, AcceptBytes, Zenon

LEMMA ParseBytes ==
    ASSUME Types1, ParseInv, MInv, ParseNext
    PROVE  MInv'
<1>1. AskedInv /\ Rounded /\ TightInv /\ ResultInv /\ PInv
  BY Zenon DEF MInv
<1>2. /\ phase = "parse" /\ UNCHANGED requestVars /\ UNCHANGED <<mRwTransRsp, call>>
      /\ phase' \in {"parse", "done"}
  <2>1. CASE ParseStart
    BY <2>1 DEF ParseStart, Turn, parseEnv, Return
  <2>2. CASE ParseEnd
    BY <2>2 DEF ParseEnd, Turn, parseEnv, Return
  <2>3. CASE ParseWr
    BY <2>3 DEF ParseWr, Accept, Turn, parseEnv, Return
  <2>4. CASE ParseRd
    BY <2>4 DEF ParseRd, Accept, Turn, parseEnv, Return
  <2>5. CASE ParseOut
    BY <2>5 DEF ParseOut, Turn, parseEnv, Return
  <2> QED BY <2>1, <2>2, <2>3, <2>4, <2>5 DEF ParseNext
<1>3. /\ mPl0Trans' = mPl0Trans /\ mPl0NumTrans' = mPl0NumTrans /\ mRwTrans' = mRwTrans
      /\ mRwTransRsp' = mRwTransRsp /\ call' = call
      /\ phase' # "merged" /\ phase # "merged" /\ phase' # "idle"
  BY <1>2 DEF requestVars
<1>4. AskedInv' /\ ResultInv'
  BY <1>1, <1>3, AskedStays, ResultsStay, Zenon
<1>5. Tight \/ InLate
  BY <1>1, <1>2, Zenon DEF TightInv
<1>6. ASSUME Tight' PROVE TightInv'
  BY <1>3, <1>6, Zenon DEF TightInv
<1>7. Rounded' /\ TightInv' /\ (phase' # "parse" => p' = p)
  <2>1. CASE ParseStart
    <3>1. AtStart /\ mPl0TransRsp' = mPl0TransRsp /\ (phase' # "parse" => p' = p)
      BY <1>2, <2>1, Zenon DEF ParseStart
    <3>2. Tight
      BY <1>5, <3>1, Zenon DEF InLate
    <3> QED BY <1>1, <1>3, <1>6, <3>1, <3>2, TightStays, Zenon
  <2>2. CASE ParseEnd
    <3>1. mPl0TransRsp' = mPl0TransRsp /\ (phase' # "parse" => p' = p)
      BY <1>2, <2>2, Zenon DEF ParseEnd
    <3>2. CASE Part.n = mPl1CntOutstandingOldest
      <4>1. Part.rq = call
        BY <2>2, <3>2, EndOwn
      <4>2. Tight
        BY <1>5, <4>1, Zenon DEF InLate
      <4> QED BY <1>1, <1>3, <1>6, <3>1, <4>2, TightStays, Zenon
    <3>3. CASE Part.n # mPl1CntOutstandingOldest
      <4>1. phase' = "done" /\ tas_err' = "SERVER_CON"
        BY <2>2, <3>3, Zenon DEF ParseEnd, Return
      <4>2. TightInv'
        BY <4>1 DEF TightInv
      <4> QED BY <1>1, <1>3, <3>1, <4>2, TightStays, Zenon
    <3> QED BY <3>2, <3>3
  <2>3. CASE ParseWr
    BY <1>1, <1>5, <2>3, WrBytes
  <2>4. CASE ParseRd
    BY <1>1, <1>5, <2>4, RdBytes
  <2>5. CASE ParseOut
    <3>1. rsp = <<>> /\ mPl0TransRsp' = mPl0TransRsp /\ p' = p
      BY <2>5, Zenon DEF ParseOut
    <3>2. Tight
      BY <1>5, <3>1, Zenon DEF InLate
    <3> QED BY <1>1, <1>3, <1>6, <3>1, <3>2, TightStays, Zenon
  <2> QED BY <2>1, <2>2, <2>3, <2>4, <2>5 DEF ParseNext
<1>8. PInv'
  <2>1. PBounded
    BY <1>2, LocalsBounded
  <2> QED BY <1>3, <1>7, <2>1, Zenon DEF PInv, PBounded
<1> QED BY <1>4, <1>7, <1>8, Zenon DEF MInv

LEMMA RequestBytes ==
    ASSUME Types1, StreamInv, MInv, NEW r \in Requests, Request(r)
    PROVE  MInv'
<1>1. AskedInv /\ Rounded /\ TightInv /\ ResultInv /\ PInv
  BY Zenon DEF MInv
<1>2. PICK w, x : Laid(r, w) /\ x \in Nat /\ mPl1CntOutstandingLast = Cnt(x) /\ Requested(r, x)
  BY RequestStream
<1>3. /\ phase' = "sent" /\ mRwTrans' = r.rw /\ p' = p /\ mPl0NumTrans' = Len(Accesses(r))
      /\ mRwTransRsp' = [t \in DOMAIN r.rw |-> [num_bytes_ok |-> 0, pl_err |-> "PROTOCOL"]]
      /\ phase \in {"idle", "done", "merged"}
  BY Zenon DEF Request
<1>4. PICK acc : acc = Accesses(r)
  OBVIOUS
<1>5. Tiled(acc, r.rw)
  BY <1>4, RequestTiled
<1>6. /\ Len(acc) \in Nat /\ r.rw \in Seq(RwTrans) /\ Len(r.rw) \in Nat /\ DOMAIN r.rw = 1..Len(r.rw)
      /\ \A i \in 1..Len(acc) : acc[i] \in Pl0Access
  <2>1. Len(acc) \in Nat /\ r.rw \in Seq(RwTrans) /\ Len(r.rw) \in Nat
    BY <1>5, Zenon DEF Tiled
  <2>2. \A i \in 1..Len(acc) : acc[i] \in Pl0Access
    BY <1>5, Zenon DEF Tiled, Within1
  <2> QED BY <2>1, <2>2, LenProperties
<1>7. \A i \in 1..Len(acc) : (mPl0Trans')[i].a = acc[i] /\ (mPl0TransRsp')[i] = Unanswered
  BY <1>2, <1>4, Zenon DEF Requested
<1>8. AskedInv'
  <2>1. AskedFor(Accesses(r))'
    BY <1>3, <1>4, <1>5, <1>7, Zenon DEF AskedFor
  <2> QED BY <1>3, <2>1, Zenon DEF AskedInv
<1>9. Rounded'
  <2> SUFFICES ASSUME NEW i \in 1..Len(acc) PROVE (mPl0TransRsp')[i].num_bytes_ok <= (mPl0Trans')[i].a.num_bytes + 3
    BY <1>3, <1>4, Zenon DEF Rounded
  <2>1. (mPl0TransRsp')[i].num_bytes_ok = 0
    BY <1>7 DEF Unanswered
  <2>2. (mPl0Trans')[i].a = acc[i] /\ acc[i].num_bytes \in Nat
    BY <1>6, <1>7, AccessFields
  <2> QED BY <2>1, <2>2
<1>10. TightInv'
  BY <1>3 DEF TightInv
<1>11. ResultInv'
  <2> DEFINE none == [num_bytes_ok |-> 0, pl_err |-> "PROTOCOL"]
             T == Len(r.rw)
  <2>1. none \in TransResult /\ none.num_bytes_ok = 0
    BY DEF TransResult, PlErr
  <2>2. mRwTransRsp' = [t \in 1..T |-> none] /\ T \in Nat
    BY <1>3, <1>6
  <2> HIDE DEF none, T
  <2>3. /\ mRwTransRsp' \in Seq(TransResult) /\ Len(mRwTransRsp') = T
        /\ \A t \in 1..T : (mRwTransRsp')[t] = none
    BY <2>1, <2>2
  <2> QED BY <1>3, <1>6, <2>1, <2>3 DEF T, ResultInv
<1>12. PInv'
  <2>1. PBounded
    BY <1>1, <1>3 DEF PInv
  <2>2. p.iTrans <= Len(mPl0Trans) /\ Len(mPl0Trans) <= Len(mPl0Trans') /\ Len(mPl0Trans) \in Nat /\ Len(mPl0Trans') \in Nat
    BY <1>2, <2>1, Zenon DEF Requested, PBounded
  <2>3. p.iTrans <= Len(mPl0Trans')
    BY <2>2, PFields
  <2> QED BY <1>3, <2>1, <2>3, Zenon DEF PInv, PBounded
<1> QED BY <1>8, <1>9, <1>10, <1>11, <1>12, Zenon DEF MInv

LEMMA ReceiveBytes ==
    ASSUME Types1, Fresh, MInv, Receive
    PROVE  MInv'
<1>1. AskedInv /\ Rounded /\ TightInv /\ ResultInv /\ PInv
  BY Zenon DEF MInv
<1>2. /\ phase = "sent" /\ UNCHANGED requestVars /\ UNCHANGED <<mPl0TransRsp, mRwTransRsp, call>>
      /\ p' = [wi |-> 0, next |-> 0, iTrans |-> 0]
      /\ phase' \in {"parse", "done"} /\ (phase' = "done" => tas_err' = "SERVER_CON")
  BY DEF Receive, rw_set_rsp
<1>3. /\ mPl0Trans' = mPl0Trans /\ mPl0NumTrans' = mPl0NumTrans /\ mRwTrans' = mRwTrans
      /\ mRwTransRsp' = mRwTransRsp /\ mPl0TransRsp' = mPl0TransRsp /\ call' = call
      /\ phase' # "merged" /\ phase # "merged" /\ phase' # "idle"
  BY <1>2 DEF requestVars
<1>4. AskedInv' /\ ResultInv'
  BY <1>1, <1>3, AskedStays, ResultsStay, Zenon
<1>5. Tight
  <2> SUFFICES ASSUME NEW i \in 1..mPl0NumTrans PROVE mPl0TransRsp[i].num_bytes_ok <= mPl0Trans[i].a.num_bytes
    BY Zenon DEF Tight
  <2>1. mPl0TransRsp[i].num_bytes_ok = 0
    BY <1>2 DEF Fresh, Unanswered
  <2>2. i \in 1..Len(mPl0Trans)
    BY LenProperties DEF Types1, Scalars, Arrays
  <2>3. mPl0Trans[i].a.num_bytes \in Nat
    BY <2>2, EntryFields, AccessFields
  <2> QED BY <2>1, <2>3
<1>6. Rounded' /\ Tight'
  BY <1>1, <1>3, <1>5, TightStays, Zenon
<1>7. TightInv'
  BY <1>2, <1>3, <1>6, Zenon DEF TightInv
<1>8. PInv'
  <2>1. 0 <= Len(mPl0Trans)
    BY LenProperties DEF Types1, Arrays
  <2>2. p'.wi = 0 /\ p'.next = 0 /\ p'.iTrans = 0 /\ 0 <= 0
    BY <1>2
  <2> QED BY <1>3, <2>1, <2>2, Zenon DEF PInv, PBounded
<1> QED BY <1>4, <1>6, <1>7, <1>8, Zenon DEF MInv

\* The time is over, the device was reset, or nothing has happened.
LEMMA WaitBytes ==
    ASSUME MInv, UNCHANGED <<requestVars, mPl0TransRsp, mRwTransRsp, p, call, rsp>>,
           \/ phase' = phase /\ tas_err' = tas_err
           \/ phase = "sent" /\ phase' = "idle" /\ tas_err' = "SERVER_CON"
    PROVE  MInv'
<1>1. AskedInv /\ Rounded /\ TightInv /\ ResultInv /\ PInv
  BY Zenon DEF MInv
<1>2. /\ mPl0Trans' = mPl0Trans /\ mPl0NumTrans' = mPl0NumTrans /\ mRwTrans' = mRwTrans
      /\ mRwTransRsp' = mRwTransRsp /\ mPl0TransRsp' = mPl0TransRsp /\ call' = call
      /\ p' = p /\ rsp' = rsp
      /\ (phase' # "merged" /\ phase # "merged") \/ (phase' = phase /\ tas_err' = tas_err)
  BY DEF requestVars
<1>3. AskedInv' /\ ResultInv'
  BY <1>1, <1>2, AskedStays, ResultsStay, Zenon
<1>4. Rounded' /\ (Tight => Tight') /\ (InLate => InLate')
  BY <1>1, <1>2, TightStays, Zenon DEF InLate, AtStart, Part
<1>5. TightInv'
  <2>1. CASE phase' = phase /\ tas_err' = tas_err
    BY <1>1, <1>2, <1>4, <2>1, Zenon DEF TightInv
  <2>2. CASE phase' = "idle" /\ tas_err' = "SERVER_CON"
    BY <2>2 DEF TightInv
  <2> QED BY <2>1, <2>2
<1>6. PInv'
  <2>1. phase' # "parse" => phase # "parse"
    OBVIOUS
  <2> QED BY <1>1, <1>2, <2>1, Zenon DEF PInv, PBounded
<1> QED BY <1>3, <1>4, <1>5, <1>6, Zenon DEF MInv

\* The results of all transactions are those merged.
LEMMA MergeSets ==
    ASSUME Types1, MInv, rw_get_trans_rsp
    PROVE  /\ mRwTransRsp' = TransRsp
           /\ \E acc : AskedFor(acc) /\ \E r \in Requests : acc = Accesses(r) /\ mRwTrans = r.rw
<1>1. call > 0
  BY DEF rw_get_trans_rsp, Types1, Scalars
<1>2. AskedInv /\ ResultInv
  BY Zenon DEF MInv
<1>3. PICK r \in Requests : mRwTrans = r.rw /\ AskedFor(Accesses(r))
  BY <1>1, <1>2, Zenon DEF AskedInv
<1>4. PICK acc : acc = Accesses(r) /\ AskedFor(acc)
  BY <1>3
<1>5. PICK x : x = TransRsp /\ x \in Seq(TransResult) /\ Len(x) = Len(mRwTrans)
  BY <1>4, MergedLen
<1>6. mRwTransRsp \in Seq(TransResult) /\ Len(mRwTransRsp) = Len(mRwTrans)
  BY <1>2, Zenon DEF ResultInv
<1>7. mRwTransRsp' = x \o SubSeq(mRwTransRsp, Len(x) + 1, Len(mRwTransRsp))
  BY <1>5, Zenon DEF rw_get_trans_rsp
<1>8. mRwTransRsp' = x
  <2>1. PICK s : s = mRwTransRsp
    OBVIOUS
  <2>2. s \in Seq(TransResult) /\ Len(x) = Len(s) /\ mRwTransRsp' = x \o SubSeq(s, Len(x) + 1, Len(s))
    BY <1>5, <1>6, <1>7, <2>1, Zenon
  <2>3. x \o SubSeq(s, Len(s) + 1, Len(s)) = x
    <3>1. SubSeq(s, Len(s) + 1, Len(s)) = <<>>
      BY <2>2
    <3>2. x \o <<>> = x
      BY <1>5
    <3> QED BY <3>1, <3>2, Zenon
  <2> QED BY <2>2, <2>3, Zenon
<1> QED BY <1>3, <1>4, <1>5, <1>8, Zenon

LEMMA MergeBytes ==
    ASSUME Types1, MInv, rw_get_trans_rsp
    PROVE  MInv'
<1>1. AskedInv /\ Rounded /\ TightInv /\ ResultInv /\ PInv
  BY Zenon DEF MInv
<1>2. /\ phase' = "merged" /\ UNCHANGED requestVars /\ UNCHANGED <<mPl0TransRsp, p, call, tas_err>>
      /\ (phase = "done" \/ (phase = "idle" /\ call > 0))
  BY Zenon DEF rw_get_trans_rsp
<1>3. /\ mPl0Trans' = mPl0Trans /\ mPl0NumTrans' = mPl0NumTrans /\ mRwTrans' = mRwTrans
      /\ mPl0TransRsp' = mPl0TransRsp /\ call' = call /\ p' = p /\ tas_err' = tas_err /\ phase # "parse"
  BY <1>2 DEF requestVars
<1>4. AskedInv' /\ Rounded'
  BY <1>1, <1>3, AskedStays, TightStays, Zenon
<1>5. TightInv' /\ PInv'
  <2>1. TightInv'
    BY <1>2 DEF TightInv
  <2> QED BY <1>1, <1>3, <2>1, Zenon DEF PInv, PBounded
<1>6. PICK acc : mRwTransRsp' = TransRsp /\ AskedFor(acc)
  BY MergeSets
<1>7. TransRsp \in Seq(TransResult) /\ Len(TransRsp) = Len(mRwTrans)
  BY <1>6, MergedLen
<1>8. ASSUME tas_err # "SERVER_CON"
      PROVE  \A t \in 1..Len(mRwTrans) : TransRsp[t].num_bytes_ok <= mRwTrans[t].num_bytes
  <2>1. Tight
    BY <1>1, <1>2, <1>8, Zenon DEF TightInv
  <2>2. Bounded(acc, FALSE)
    <3> SUFFICES ASSUME NEW i \in 1..mPl0NumTrans PROVE mPl0TransRsp[i].num_bytes_ok <= acc[i].num_bytes + Slack(FALSE, 1)
      BY Zenon DEF Bounded
    <3>1. mPl0TransRsp[i].num_bytes_ok <= acc[i].num_bytes /\ acc[i] = mPl0Trans[i].a
      BY <1>6, <2>1 DEF AskedFor, Tight
    <3>2. acc[i].num_bytes \in Nat /\ Slack(FALSE, 1) = 0
      <4>1. i \in 1..Len(mPl0Trans)
        BY LenProperties DEF Types1, Scalars, Arrays
      <4> QED BY <3>1, <4>1, EntryFields, AccessFields DEF Slack
    <3>3. PICK b, s : b = acc[i].num_bytes /\ s = Slack(FALSE, 1) /\ b \in Nat /\ s = 0
      BY <3>2, Zenon
    <3>4. b + s = b
      <4>1. b \in Nat /\ s = 0
        BY <3>3, Zenon
      <4> QED BY <4>1
    <3> QED BY <3>1, <3>3, <3>4, Zenon
  <2> QED BY <1>6, <2>2, MergedTight
<1>9. ResultInv'
  BY <1>1, <1>2, <1>3, <1>6, <1>7, <1>8, Zenon DEF ResultInv
<1> QED BY <1>4, <1>5, <1>9, Zenon DEF MInv

LEMMA InitBytes == Init => MInv
<1> SUFFICES ASSUME Init PROVE MInv
  OBVIOUS
<1>1. /\ call = 0 /\ mPl0NumTrans = 0 /\ mRwTrans = <<>> /\ mRwTransRsp = <<>> /\ mPl0Trans = <<>>
      /\ phase = "idle" /\ p = [wi |-> 0, next |-> 0, iTrans |-> 0]
  BY DEF Init
<1>2. AskedInv /\ Rounded /\ TightInv
  BY <1>1 DEF AskedInv, Rounded, TightInv
<1>3. ResultInv
  <2>1. <<>> \in Seq(RwTrans) /\ <<>> \in Seq(TransResult) /\ Len(<<>>) = 0
    OBVIOUS
  <2> QED BY <1>1, <2>1 DEF ResultInv
<1>4. PInv
  BY <1>1 DEF PInv, PBounded
<1> QED BY <1>2, <1>3, <1>4, Zenon DEF MInv

LEMMA BytesStep ==
    ASSUME IInv, MInv, [Next]_vars
    PROVE  MInv'
<1>1. Types1 /\ StreamInv /\ Fresh /\ ParseInv
  BY Zenon DEF IInv
<1>2. CASE UNCHANGED vars
  <2>1. UNCHANGED <<requestVars, mPl0TransRsp, mRwTransRsp, p, call, rsp>> /\ phase' = phase /\ tas_err' = tas_err
    BY <1>2 DEF vars
  <2> QED BY <2>1, WaitBytes
<1>3. CASE Next
  <2>1. ASSUME NEW r \in Requests, Request(r) PROVE MInv'
    BY <1>1, <2>1, RequestBytes
  <2>2. CASE DeviceReset
    <3>1. UNCHANGED <<requestVars, mPl0TransRsp, mRwTransRsp, p, call, rsp>> /\ phase' = phase /\ tas_err' = tas_err
      BY <2>2, Zenon DEF DeviceReset
    <3> QED BY <3>1, WaitBytes
  <2>3. CASE Timeout
    <3>1. /\ UNCHANGED <<requestVars, mPl0TransRsp, mRwTransRsp, p, call, rsp>>
          /\ phase = "sent" /\ phase' = "idle" /\ tas_err' = "SERVER_CON"
      BY <2>3, Zenon DEF Timeout
    <3> QED BY <3>1, WaitBytes
  <2>4. CASE Receive
    BY <1>1, <2>4, ReceiveBytes
  <2>5. CASE ParseNext
    BY <1>1, <2>5, ParseBytes
  <2>6. CASE rw_get_trans_rsp
    BY <1>1, <2>6, MergeBytes
  <2> QED BY <1>3, <2>1, <2>2, <2>3, <2>4, <2>5, <2>6 DEF Next, ParseNext
<1> QED BY <1>2, <1>3

\* The bytes of a transaction, and of the words of its accesses, are counted in 16 bits.
FewBytes ==
    \A r \in Requests : \A t \in 1..Len(r.rw) : r.rw[t].num_bytes + 3 * Len(Accesses(r)) < 65536

Accessed(t) == {i \in Trans : mPl0Trans[i].a.rw = t}
MergedAll == phase = "merged" => \A t \in DOMAIN mRwTrans : Merges(mRwTransRsp[t], Accessed(t))

LEMMA MergedRightIs == MergedRight <=> MergedAll
BY DEF MergedRight, MergedAll, Accessed, Merges, SumOk, Counted, ErrOf, Bad

LEMMA MergedStays ==
    ASSUME MergedAll, UNCHANGED <<requestVars, mPl0TransRsp, mRwTransRsp, phase>>
    PROVE  MergedAll'
<1>1. /\ mPl0Trans' = mPl0Trans /\ mPl0NumTrans' = mPl0NumTrans /\ mRwTrans' = mRwTrans
      /\ mPl0TransRsp' = mPl0TransRsp /\ mRwTransRsp' = mRwTransRsp /\ phase' = phase
  BY DEF requestVars
<1>2. \A t : Accessed(t)' = Accessed(t)
  BY <1>1 DEF Accessed, Trans
<1>3. \A tr, m : Merges(tr, m)' <=> Merges(tr, m)
  BY <1>1, Zenon DEF Merges, Counted, ErrOf, Bad, Failed
<1> QED BY <1>1, <1>2, <1>3, Zenon DEF MergedAll

LEMMA MergedAllStep ==
    ASSUME IInv, MInv, FewBytes, MergedAll, [Next]_vars
    PROVE  MergedAll'
<1>1. Types1
  BY Zenon DEF IInv
<1>2. CASE phase' # "merged"
  BY <1>2 DEF MergedAll
<1>3. CASE rw_get_trans_rsp
  <2>1. PICK acc, r : mRwTransRsp' = TransRsp /\ AskedFor(acc) /\ r \in Requests /\ acc = Accesses(r) /\ mRwTrans = r.rw
    BY <1>1, <1>3, MergeSets
  <2>2. /\ mPl0Trans' = mPl0Trans /\ mPl0NumTrans' = mPl0NumTrans /\ mRwTrans' = mRwTrans
        /\ mPl0TransRsp' = mPl0TransRsp
    BY <1>3 DEF rw_get_trans_rsp, requestVars
  <2>3. mPl0NumTrans = Len(acc) /\ \A i \in 1..mPl0NumTrans : mPl0Trans[i].a = acc[i]
    BY <2>1, Zenon DEF AskedFor
  <2>4. NoWrap
    BY <2>1, <2>3 DEF NoWrap, FewBytes
  <2>5. Bounded(acc, TRUE)
    <3> SUFFICES ASSUME NEW i \in 1..mPl0NumTrans PROVE mPl0TransRsp[i].num_bytes_ok <= acc[i].num_bytes + Slack(TRUE, 1)
      BY Zenon DEF Bounded
    <3>1. Rounded
      BY Zenon DEF MInv
    <3>2. mPl0TransRsp[i].num_bytes_ok <= acc[i].num_bytes + 3
      BY <2>3, <3>1, Zenon DEF Rounded
    <3>3. Slack(TRUE, 1) = 3
      BY DEF Slack
    <3> QED BY <3>2, <3>3, Zenon
  <2>6. \A t \in 1..Len(mRwTrans) : Merges(TransRsp[t], Mine(acc, mPl0NumTrans, t))
    BY <1>1, <2>1, <2>4, <2>5, MergedOwn
  <2>7. DOMAIN mRwTrans = 1..Len(mRwTrans)
    <3>1. mRwTrans \in Seq(RwTrans)
      BY <2>1, Zenon DEF AskedFor, Tiled
    <3> QED BY <3>1, LenProperties
  <2>8. \A t : Mine(acc, mPl0NumTrans, t) = Accessed(t)
    BY <2>3 DEF Mine, Accessed, Trans
  <2>9. \A t \in DOMAIN mRwTrans : Merges(TransRsp[t], Accessed(t))
    BY <2>6, <2>7, <2>8, Zenon
  <2>10. \A t : Accessed(t)' = Accessed(t)
    BY <2>2 DEF Accessed, Trans
  <2>11. \A tr, m : Merges(tr, m)' <=> Merges(tr, m)
    BY <2>2, Zenon DEF Merges, Counted, ErrOf, Bad, Failed
  <2> QED BY <2>1, <2>2, <2>9, <2>10, <2>11, Zenon DEF MergedAll
<1>4. CASE UNCHANGED vars
  <2>1. UNCHANGED <<requestVars, mPl0TransRsp, mRwTransRsp, phase>>
    BY <1>4 DEF vars
  <2> QED BY <2>1, MergedStays
<1>5. CASE DeviceReset
  <2>1. UNCHANGED <<requestVars, mPl0TransRsp, mRwTransRsp, phase>>
    BY <1>5, Zenon DEF DeviceReset
  <2> QED BY <2>1, MergedStays
<1>6. Next => rw_get_trans_rsp \/ DeviceReset \/ phase' # "merged"
  <2>1. ASSUME NEW r \in Requests, Request(r) PROVE phase' # "merged"
    BY <2>1 DEF Request
  <2>2. Timeout => phase' # "merged"
    BY DEF Timeout
  <2>3. Receive => phase' # "merged"
    BY DEF Receive, rw_set_rsp
  <2>4. ParseStart => phase' # "merged"
    BY DEF ParseStart, Turn, Return
  <2>5. ParseEnd => phase' # "merged"
    BY DEF ParseEnd, Turn, Return
  <2>6. ParseWr => phase' # "merged"
    BY DEF ParseWr, Accept, Turn, Return
  <2>7. ParseRd => phase' # "merged"
    BY DEF ParseRd, Accept, Turn, Return
  <2>8. ParseOut => phase' # "merged"
    BY DEF ParseOut, Return
  <2> QED BY <2>1, <2>2, <2>3, <2>4, <2>5, <2>6, <2>7, <2>8, Zenon DEF Next
<1> QED BY <1>2, <1>3, <1>4, <1>5, <1>6

LEMMA TypesHold == IInv /\ MInv => TypeOK
<1> SUFFICES ASSUME IInv, MInv PROVE TypeOK
  OBVIOUS
<1>1. Types1 /\ ParseInv /\ ResultInv /\ PInv
  BY Zenon DEF IInv, MInv
<1>2. p.wi <= p.next /\ p.iTrans <= Len(mPl0Trans)
  BY <1>1, LocalsBounded, Zenon DEF PInv, PBounded
<1>3. mPl0NumTrans <= Len(mPl0Trans) /\ Len(mPl0TransRsp) = Len(mPl0Trans)
  BY <1>1, Zenon DEF Types1, Arrays
<1>4. \A i \in DOMAIN mPl0TransRsp : mPl0TransRsp[i].pl_err \in PlErr
  <2> SUFFICES ASSUME NEW i \in DOMAIN mPl0TransRsp PROVE mPl0TransRsp[i].pl_err \in PlErr
    OBVIOUS
  <2>1. mPl0TransRsp \in Seq(Result)
    BY <1>1, Zenon DEF Types1, Arrays
  <2>2. mPl0TransRsp[i] \in Result
    BY <2>1, LenProperties, ElementOfSeq
  <2> QED BY <2>2 DEF Result
<1>5. \A t \in DOMAIN mRwTransRsp :
        /\ mRwTransRsp[t].pl_err \in PlErr
        /\ tas_err # "SERVER_CON" => mRwTransRsp[t].num_bytes_ok <= mRwTrans[t].num_bytes
  <2> SUFFICES ASSUME NEW t \in DOMAIN mRwTransRsp
               PROVE  /\ mRwTransRsp[t].pl_err \in PlErr
                      /\ tas_err # "SERVER_CON" => mRwTransRsp[t].num_bytes_ok <= mRwTrans[t].num_bytes
    OBVIOUS
  <2>1. mRwTransRsp \in Seq(TransResult) /\ Len(mRwTransRsp) = Len(mRwTrans) /\ mRwTrans \in Seq(RwTrans)
    BY <1>1, Zenon DEF ResultInv
  <2>2. t \in 1..Len(mRwTrans) /\ t \in 1..Len(mRwTransRsp)
    BY <2>1, LenProperties
  <2>3. mRwTransRsp[t] \in TransResult /\ mRwTrans[t] \in RwTrans
    BY <2>1, <2>2, ElementOfSeq
  <2>4. mRwTransRsp[t].pl_err \in PlErr /\ mRwTrans[t].num_bytes \in Nat
    BY <2>3 DEF TransResult, RwTrans
  <2>5. CASE phase = "merged"
    BY <1>1, <2>2, <2>4, <2>5, Zenon DEF ResultInv
  <2>6. CASE phase # "merged"
    <3>1. mRwTransRsp[t].num_bytes_ok = 0
      BY <1>1, <2>2, <2>6, Zenon DEF ResultInv
    <3> QED BY <2>4, <3>1
  <2> QED BY <2>5, <2>6
<1>6. {mPl1CntOutstandingOldest, mPl1CntOutstandingLast} \subseteq UInt16
  <2>1. mPl1CntOutstandingOldest \in UInt16 /\ mPl1CntOutstandingLast \in UInt16
    BY <1>1, Zenon DEF Types1, Counts
  <2> QED BY <2>1
<1>7. tas_err \in {"NONE", "SERVER_CON", "DEVICE_ACCESS", "DEVICE_LOCKED", "RW_READ", "RW_WRITE"}
      /\ phase \in {"idle", "sent", "parse", "done", "merged"}
  BY <1>1, Zenon DEF Types1, Scalars, TasErrs
<1> QED BY <1>2, <1>3, <1>4, <1>5, <1>6, <1>7, Zenon DEF TypeOK

--------------------------------------------------------------------------------
(* The theorems. They hold as long as fewer packets are underway than there   *)
(* are counts: beyond that a late response has the count of a later packet.   *)

\* The inductive invariant: what rw_set_rsp() has parsed and what it has assigned to the
\* accesses fit the packets of the request, also behind late responses and resets.
THEOREM Invariance == Spec /\ []FewUnderway => []IInv
<1>1. Init => IInv
  BY InitInv
<1>2. IInv /\ FewUnderway /\ [Next]_vars => IInv'
  BY InvStep
<1> QED BY <1>1, <1>2, PTL DEF Spec

\* When rw_set_rsp() returns TAS_ERR_NONE, no access has the result of an earlier
\* request, and none has failed.
THEOREM OwnCorrect == Spec /\ []FewUnderway => []SuccessIsOwn
<1>1. IInv => SuccessIsOwn
  BY DEF IInv, DoneInv
<1> QED BY <1>1, Invariance, PTL

\* When rw_set_rsp() returns TAS_ERR_NONE and the device was not reset, all accesses were
\* answered.
THEOREM CompleteCorrect == Spec /\ []FewUnderway => []SuccessIsComplete
<1>1. IInv => SuccessIsComplete
  BY DEF IInv, DoneInv
<1> QED BY <1>1, Invariance, PTL

\* Of several failed accesses rw_set_rsp() returns the error of the first one.
THEOREM FirstErrorCorrect == Spec /\ []FewUnderway => []FirstErrorWins
<1>1. IInv => FirstErrorWins
  BY DEF IInv, DoneInv
<1> QED BY <1>1, Invariance, PTL

\* rw_set_rsp() refuses a response only for a part that is not an answer to its request.
THEOREM RefusalCorrect == Spec /\ []FewUnderway => OwnNotRefused
<1>1. IInv /\ FewUnderway /\ [Next]_vars => [NotRefusedStep]_vars
  BY RefuseStep
<1> QED BY <1>1, Invariance, PTL DEF Spec, OwnNotRefused, NotRefusedStep

\* With at most two packets, data of a late response is not copied to a buffer of an
\* earlier call: a response that reaches beyond the accesses of the request is too long.
THEOREM StrayCorrect == Spec /\ []FewUnderway => NoStrayCopy
<1>1. IInv /\ [Next]_vars => [NoStrayStep]_vars
  <2>1. IInv => Types1 /\ ParseInv
    BY Zenon DEF IInv
  <2>2. IInv => NoStrayStep
    BY <2>1, StrayStep DEF NoStrayStep
  <2> QED BY <2>2
<1> QED BY <1>1, Invariance, PTL DEF Spec, NoStrayCopy, NoStrayStep

\* The inductive invariant of the bytes: no access has more than its words, and none has more
\* than asked for when rw_set_rsp() has not refused the response.
THEOREM BytesInvariance == Spec /\ []FewUnderway => []MInv
<1>1. Init => MInv
  BY InitBytes
<1>2. IInv /\ MInv /\ [Next]_vars => MInv'
  BY BytesStep
<1> QED BY <1>1, <1>2, Invariance, PTL DEF Spec

\* No index leaves the arrays, all errors are those of answers, and no transaction has more
\* bytes than asked for when rw_set_rsp() has not refused the response.
THEOREM TypeCorrect == Spec /\ []FewUnderway => []TypeOK
<1>1. IInv /\ MInv => TypeOK
  BY TypesHold
<1> QED BY <1>1, Invariance, BytesInvariance, PTL

\* rw_get_trans_rsp() gives each transaction the first error of its own accesses and their
\* bytes until then, if its count of 16 bits has room for the bytes of a transaction.
THEOREM MergedCorrect ==
    ASSUME FewBytes
    PROVE  Spec /\ []FewUnderway => []MergedRight
<1>1. Init => MergedAll
  BY DEF Init, MergedAll
<1>2. IInv /\ MInv /\ MergedAll /\ [Next]_vars => MergedAll'
  BY MergedAllStep
<1> QED BY <1>1, <1>2, MergedRightIs, Invariance, BytesInvariance, PTL DEF Spec
================================================================================
