------------------------------ MODULE Mailbox -------------------------------
(***************************************************************************)
(* What a queue between two threads promises: the n-th thing posted is     *)
(* taken once, after those posted before it.  After the mailbox is closed   *)
(* things that wait may be dropped, in order.                              *)
(***************************************************************************)
EXTENDS Naturals, Sequences

VARIABLES
    posted,    \* how many things were posted; the n-th is the number n
    waiting,   \* those not taken yet
    taken,     \* those taken, in the order they were
    closed     \* things may be dropped

Init == posted = 0 /\ waiting = <<>> /\ taken = <<>> /\ ~closed

Post ==
    /\ posted' = posted + 1
    /\ waiting' = Append(waiting, posted')
    /\ UNCHANGED <<taken, closed>>

Take ==
    /\ waiting # <<>>
    /\ waiting' = Tail(waiting)
    /\ taken' = Append(taken, Head(waiting))
    /\ UNCHANGED <<posted, closed>>

Drop ==
    /\ closed /\ waiting # <<>>
    /\ waiting' = Tail(waiting)
    /\ UNCHANGED <<posted, taken, closed>>

Close == ~closed /\ closed' /\ UNCHANGED <<posted, waiting, taken>>

Next == Post \/ Take \/ Drop \/ Close

Spec == Init /\ [][Next]_<<posted, waiting, taken, closed>>
=============================================================================
