------------------------------ MODULE TasPktChannel ------------------------------
(***************************************************************************)
(* What the classes above the mailbox rely on: a connection is a queue of    *)
(* packets. A call takes some of them from its head, each whole and once,   *)
(* and succeeds only when it got as many as it wanted. A call that fails either  *)
(* leaves the others in the queue or the connection is lost. All this holds    *)
(* until a packet is taken that was not there as a whole: it is taken for one, *)
(* and from then on the words of the connection are no packets any more.       *)
(*                                                                          *)
(* The queue and what a call got are words, see TasPktMailbox; a packet is   *)
(* all the words of one number, from the header on.                          *)
(*                                                                          *)
(* This is the abstract specification that TasPktMailbox implements. It     *)
(* does not say which request a packet answers: see TasPktMailbox.          *)
(***************************************************************************)
EXTENDS Integers, Sequences

CONSTANT MaxWant    \* packets a call may want

VARIABLES
    up,         \* there is a connection
    unread,     \* words that were sent by the server and not taken
    want,       \* packets the running or last call wants
    taken, got, \* how many it has taken, and their words
    running, ok,    \* whether a call is running, and what the last one returned
    cut         \* a packet of this connection was taken before all of it was there

vars == <<up, unread, want, taken, got, running, ok, cut>>

IsPkt(words) ==
    /\ words # <<>>
    /\ \A k \in DOMAIN words :
        words[k].pkt = words[1].pkt /\ words[k].i = k - 1 /\ words[k].len = Len(words)

Connect ==
    /\ ~running
    /\ up' \in BOOLEAN /\ unread' = <<>> /\ cut' = FALSE
    /\ UNCHANGED <<want, taken, got, running, ok>>

ServerSends ==
    /\ up
    /\ LET words == SubSeq(unread', Len(unread) + 1, Len(unread'))
       IN  IsPkt(words) /\ unread' = unread \o words
    /\ UNCHANGED <<up, want, taken, got, running, ok, cut>>

Call ==
    /\ ~running
    /\ want' \in 0..MaxWant
    /\ taken' = 0 /\ got' = <<>>
    /\ running' = TRUE
    /\ UNCHANGED <<up, unread, ok, cut>>

Take ==
    /\ running /\ up /\ taken < want
    /\ \E n \in 1..Len(unread) :
        /\ IsPkt(SubSeq(unread, 1, n))
        /\ got' = got \o SubSeq(unread, 1, n)
        /\ unread' = SubSeq(unread, n + 1, Len(unread))
    /\ taken' = taken + 1
    /\ UNCHANGED <<up, want, running, ok, cut>>

\* What was there is taken for a packet; the packets before it are as they were.
TakeCut ==
    /\ running /\ up /\ taken < want
    /\ cut' = TRUE
    /\ \E n \in 1..Len(unread) : unread' = SubSeq(unread, n + 1, Len(unread))
    /\ SubSeq(got', 1, Len(got)) = got
    /\ taken' = taken + 1
    /\ UNCHANGED <<up, want, running, ok>>

\* After that a call may fail over a word, which is gone.
Waste ==
    /\ running /\ cut
    /\ \E n \in 1..Len(unread) : unread' = SubSeq(unread, n + 1, Len(unread))
    /\ running' = FALSE /\ ok' = FALSE
    /\ UNCHANGED <<up, want, taken, got, cut>>

Return ==
    /\ running
    /\ running' = FALSE
    /\ ok' \in BOOLEAN /\ (ok' => taken = want)
    /\ UNCHANGED <<up, unread, want, taken, got, cut>>

\* A call that finds the connection broken, or breaks it, gives it up.
Lose ==
    /\ running /\ up
    /\ up' = FALSE /\ unread' = <<>>
    /\ running' = FALSE /\ ok' = FALSE
    /\ UNCHANGED <<want, taken, got, cut>>

Init ==
    /\ up = FALSE /\ unread = <<>> /\ want = 0 /\ taken = 0 /\ got = <<>>
    /\ running = FALSE /\ ok = FALSE /\ cut = FALSE

Next == Connect \/ ServerSends \/ Call \/ Take \/ TakeCut \/ Waste \/ Return \/ Lose

Spec == Init /\ [][Next]_vars
================================================================================
