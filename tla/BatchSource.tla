---------------------------- MODULE BatchSource ----------------------------
(***************************************************************************)
(* What an operator that reads a table promises the operators above it:    *)
(* every batch once, the batches of a segment in order, and a clean end    *)
(* only after all of them. A source that breaks says so instead.           *)
(***************************************************************************)
EXTENDS Integers

CONSTANTS Segments, \* per segment, how many batches it yields
          Before(_) \* the segments delivered before this one

VARIABLES
    taken,   \* batches of each segment handed up
    broken,  \* a segment could not be read
    stopped, \* the query was cancelled or the source closed
    outcome  \* "none" until Next says there is nothing more, then why

vars == <<taken, broken, stopped, outcome>>

Init == /\ taken = [s \in DOMAIN Segments |-> 0]
        /\ broken = FALSE /\ stopped = FALSE /\ outcome = "none"

Complete(s) == taken[s] = Segments[s]

\* Next returns a batch.
Deliver ==
    /\ outcome = "none"
    /\ \E s \in DOMAIN Segments :
          /\ ~Complete(s) /\ \A r \in Before(s) : Complete(r)
          /\ taken' = [taken EXCEPT ![s] = @ + 1]
    /\ UNCHANGED <<broken, stopped, outcome>>

Break == ~broken /\ broken' = TRUE /\ UNCHANGED <<taken, stopped, outcome>>
Stop == ~stopped /\ stopped' = TRUE /\ UNCHANGED <<taken, broken, outcome>>

\* Next returns no batch.
Answer(o) == outcome = "none" /\ outcome' = o /\ UNCHANGED <<taken, broken, stopped>>
End == ~broken /\ (\A s \in DOMAIN Segments : Complete(s)) /\ Answer("end")
Error == (broken \/ stopped) /\ Answer("error")

Next == Deliver \/ Break \/ Stop \/ End \/ Error

Spec == Init /\ [][Next]_vars
=============================================================================
