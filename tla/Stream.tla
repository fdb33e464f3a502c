------------------------------- MODULE Stream -------------------------------
(***************************************************************************)
(* What a chain of filters promises.  The bytes put in at one end are      *)
(* numbered from 1.  They come out at the other end in their order, none   *)
(* twice and none skipped, and the end of the stream comes out once, after *)
(* all of them.  When something on the way fails the stream is broken:     *)
(* from then on bytes may be missing, but never out of order and never     *)
(* behind the end.                                                         *)
(***************************************************************************)
EXTENDS Naturals, Sequences

VARIABLES
    sent,       \* how many bytes have been put in
    received,   \* the bytes that came out
    closed,     \* the end of the stream came out
    broken      \* a filter or a peer failed

streamVars == <<sent, received, closed, broken>>

StreamInit ==
    /\ sent = 0
    /\ received = <<>>
    /\ closed = FALSE
    /\ broken = FALSE

Ordered(s) == \A i \in 1..Len(s) : \A j \in 1..Len(s) : i < j => s[i] < s[j]
Complete(s) == \A i \in 1..Len(s) : s[i] = i

Put ==
    /\ ~closed
    /\ sent' \in Nat /\ sent' >= sent
    /\ UNCHANGED <<received, closed, broken>>

\* Bytes come out, some of them as they are put in, and possibly the end of the stream behind them.
Get ==
    /\ ~closed
    /\ Len(received') >= Len(received)
    /\ SubSeq(received', 1, Len(received)) = received
    /\ Ordered(received')
    /\ sent' \in Nat /\ sent' >= sent
    /\ \A i \in 1..Len(received') : received'[i] \in 1..sent'
    /\ ~broken' => Complete(received')
    /\ closed' \in BOOLEAN
    /\ closed' /\ ~broken' => Len(received') = sent'
    /\ broken' \in BOOLEAN /\ (broken => broken')

Break ==
    /\ broken' = TRUE
    /\ UNCHANGED <<sent, received, closed>>

StreamNext == Put \/ Get \/ Break

StreamSpec == StreamInit /\ [][StreamNext]_streamVars
=============================================================================
