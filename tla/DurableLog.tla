----------------------------- MODULE DurableLog -----------------------------
(***************************************************************************)
(* What a log promises the commit pipeline: the records that were          *)
(* acknowledged, in order, and whatever a restart finds is those of them   *)
(* that had to survive, with at most one record more, the last one whose   *)
(* append failed. sound turns FALSE when the storage breaks its part.      *)
(***************************************************************************)
EXTENDS Sequences

CONSTANT Records

VARIABLES
    log,    \* the records acknowledged since the log was last emptied
    kernel, \* what a restart of the process finds
    disk,   \* what a restart after a power loss may find
    sound

vars == <<log, kernel, disk, sound>>

Init == log = <<>> /\ kernel = <<>> /\ disk = {<<>>} /\ sound = TRUE

OneMore == {Append(log, r) : r \in Records}

AppendSynced == log' \in OneMore /\ kernel' = log' /\ disk' = {log'}

AppendNoSync == /\ log' \in OneMore /\ kernel' = log'
                /\ log' \in disk' /\ disk' \subseteq disk \cup {log, log'}

\* The record may be found, in place of one whose append failed before.
AppendFails == /\ log' = log /\ kernel' \in {kernel, log} \cup OneMore
               /\ disk \subseteq disk' /\ disk' \subseteq disk \cup {log} \cup OneMore

TruncateToHeader == /\ log' = <<>> /\ kernel' = <<>>
                    /\ disk \subseteq disk' /\ disk' \subseteq disk \cup {<<>>}

ProcessRestart == log' = kernel /\ UNCHANGED <<kernel, disk>>
PowerRestart == log' = kernel' /\ kernel' \in disk /\ disk' = {kernel'}

Next == AppendSynced \/ AppendNoSync \/ AppendFails
        \/ TruncateToHeader \/ ProcessRestart \/ PowerRestart

Spec == Init /\ [][(Next /\ UNCHANGED sound) \/ ~sound']_vars
=============================================================================
