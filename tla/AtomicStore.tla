---------------------------- MODULE AtomicStore ----------------------------
(* What the engine promises the caller of Exec and Tx.Commit: a database     *)
(* whose tables change only by a transaction taking effect in all its tables *)
(* at one instant, at most once, and for good. A transaction that has not    *)
(* taken effect may be lost or fail. It can then leave rows in doubt, those  *)
(* it was to add or remove and no others: a restart may show or hide them,   *)
(* until the next transaction takes effect in their table.                   *)
CONSTANTS Tables, Rows

VARIABLES contents,   \* the rows of each table
          phase,      \* "none", or how far the one transaction is
          change,     \* per table, the rows it removes and the rows it adds
          doubt       \* per table, the rows a restart may show or hide

storeVars == <<contents, phase, change, doubt>>

Nothing == [t \in Tables |-> [gone |-> {}, new |-> {}]]

StoreInit == /\ contents = [t \in Tables |-> {}]
             /\ phase = "none"
             /\ change = Nothing
             /\ doubt = [t \in Tables |-> {}]

Touched(t) == change[t].gone \cup change[t].new

\* Only what is still to take effect puts rows in doubt.
Doubting == \A t \in Tables :
    doubt'[t] \subseteq doubt[t] \cup (IF phase = "pending" THEN Touched(t) ELSE {})

\* A transaction decides what it will do.
Begin == /\ phase = "none"
         /\ phase' = "pending"
         /\ change' \in [Tables -> [gone : SUBSET Rows, new : SUBSET Rows]]
         /\ \A t \in Tables : /\ change'[t].gone \subseteq contents[t]
                              /\ change'[t].new \cap contents[t] = {}
         /\ UNCHANGED contents

\* It goes on.
Proceed == phase = "pending" /\ UNCHANGED <<contents, phase, change>>

\* It takes effect, everywhere at once, and settles the tables it changes.
Apply == /\ phase = "pending"
         /\ phase' = "applied"
         /\ contents' = [t \in Tables |->
                           (contents[t] \ change[t].gone) \cup change[t].new]
         /\ \A t \in Tables : Touched(t) # {} => doubt'[t] = {}
         /\ UNCHANGED change

\* It is over: acknowledged or lost to a crash if it had taken effect, failed,
\* rolled back or lost to a crash if it had not.
End == /\ phase # "none"
       /\ phase' = "none"
       /\ change' = Nothing
       /\ UNCHANGED contents

\* The database is opened again, and shows or hides rows in doubt.
Restart == /\ phase = "none"
           /\ \A t \in Tables : contents'[t] \ doubt[t] = contents[t] \ doubt[t]
           /\ UNCHANGED <<phase, change>>

StoreNext == (Begin \/ Proceed \/ Apply \/ End \/ Restart) /\ Doubting

StoreSpec == StoreInit /\ [][StoreNext]_storeVars
=============================================================================
