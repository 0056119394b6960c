----------------------------- MODULE MCVersions -----------------------------
(* Five state machines around the versions of a table, one of them running in *)
(* a behaviour: one manifest file, the statements and transactions of a       *)
(* session, the maintenance of old versions, the segments a query opens, and  *)
(* the file of the log. They share no variable, so that a run of all costs    *)
(* the sum of them, not the product. The invariants of each hold in its       *)
(* initial states as well.                                                    *)
EXTENDS WalFile, Manifest, SegmentCache, Transactions, TimeTravel

VARIABLE level \* which of them runs

\* Strings, because a blanked entry of a manifest holds the empty path.
MCPaths == {"s1", "s2"}
MCDVPaths == {"d1", "d2"}

Ref(t, ts) == [table |-> t, asOf |-> ts]
Plan1(from) == [from |-> from, correlated |-> <<>>]
A == Ref("a", 0)
B == Ref("b", 0)
Old == Ref("a", 1)

\* The ways in which one query comes to open two snapshots: joins, subqueries,
\* correlated subqueries, AS OF.
MCTables == {"a", "b"}
MCQueries == {
    <<Plan1(<<A>>)>>, <<Plan1(<<A, B>>)>>, <<Plan1(<<A, Old>>)>>,
    <<Plan1(<<B>>), Plan1(<<A, B>>)>>,
    <<[from |-> <<A>>, correlated |-> <<B>>]>>,
    <<Plan1(<<Old>>), [from |-> <<B>>, correlated |-> <<B, A>>]>> }

ASSUME VersionsAssumptions == TravelAssumption /\ MaintenanceAssumption
ASSUME TransactionsAssumptions == KeysAssumption /\ StatementsAssumption
ASSUME CacheAssumptions == CacheAssumption /\ QueriesAssumption
ASSUME LogAssumptions == SizesAssumption

allVars == <<level, vars, travelVars, txVars, cacheVars, walVars>>

OneFile == level = "manifest" /\ UNCHANGED <<level, travelVars, txVars, cacheVars, walVars>>
Session == level = "session" /\ UNCHANGED <<level, vars, travelVars, cacheVars, walVars>>
Versions == level = "versions" /\ UNCHANGED <<level, vars, txVars, cacheVars, walVars>>
Reads == level = "cache" /\ UNCHANGED <<level, vars, travelVars, txVars, walVars>>
LogFile == level = "log" /\ UNCHANGED <<level, vars, travelVars, txVars, cacheVars>>

MCInit == /\ level \in {"manifest", "session", "versions", "cache", "log"}
          /\ Init /\ TravelInit /\ TxInit /\ CacheInit /\ WalInit
          /\ level # "cache" => limit = CHOOSE n \in CacheSizes : TRUE

MCNext ==
    \/ OneFile /\ \E adds \in SetToAllKPermutations(Paths \ LivePaths),
                      updates \in BoundedSeq([seg : LivePaths, dv : DVPaths], 2) : Commit(adds, updates)
    \/ OneFile /\ \E gone \in SUBSET LivePaths : Retire(SetToSeq(gone))
    \/ OneFile /\ Close
    \/ OneFile /\ Load
    \/ Session /\ \E keys \in SUBSET FreshKeys : Insert(keys)
    \/ Session /\ \E keys \in SUBSET Keys : Delete(keys)
    \/ Session /\ \E keys \in SUBSET Keys : Update(keys)
    \/ Session /\ BeginTx
    \/ Session /\ CommitTx
    \/ Session /\ Rollback
    \/ Session /\ ClientsDone
    \/ Versions /\ \E n \in 1 .. 2 : InsertInto(n)
    \/ Versions /\ \E rows \in SUBSET history[nextCommitTs] : DeleteFrom(rows)
    \/ Versions /\ \E ts \in 0 .. nextCommitTs : QueryAt(ts)
    \/ Versions /\ \E altered \in {{}, DOMAIN segments} : Compact(altered)
    \/ Versions /\ Vacuum
    \/ Versions /\ \E cutoff \in 1 .. nextCommitTs + 1 : VacuumRetention(cutoff)
    \/ Versions /\ Reopen
    \/ Reads /\ \E t \in Tables : InsertSegment(t)
    \/ Reads /\ \E t \in Tables : \E i \in DOMAIN snapshots[Len(snapshots)][t] : DeleteRows(t, i)
    \/ Reads /\ \E t \in Tables : \E i \in DOMAIN snapshots[Len(snapshots)][t] : RetireSegment(t, i)
    \/ Reads /\ \E n \in CacheSizes : SetCacheSize(n)
    \/ Reads /\ \E q \in Queries, ts \in 0 .. Len(snapshots) - 1 : StartQuery(q, ts)
    \/ Reads /\ BuildScan
    \/ query # <<>> /\ \E i \in DOMAIN query[at].correlated : Reads /\ BuildCorrelated(i)
    \/ Reads /\ ReadFails
    \/ Reads /\ FinishPlan
    \/ LogFile /\ OpenEmpty
    \/ LogFile /\ \E k \in 0 .. Page : OpenEmptyFails(k)
    \/ LogFile /\ OpenShort
    \/ LogFile /\ OpenRefused
    \/ LogFile /\ Replay
    \/ LogFile /\ \E n \in Sizes, sync \in BOOLEAN : AppendFrame(n, sync)
    \/ LogFile /\ \E n \in Sizes : \E k \in 0 .. Padded(n) : AppendFails(n, k)
    \/ LogFile /\ TruncateToHeader
    \/ LogFile /\ Stop
    \/ LogFile /\ \E content \in durable : PowerLoss(content)

MCSpec == MCInit /\ [][MCNext]_allVars

\* Whichever machine runs, its variables keep their shape.
LevelTypeOK == CASE level = "manifest" -> TypeOK
                 [] level = "session" -> TxTypeOK
                 [] level = "versions" -> TravelTypeOK
                 [] level = "cache" -> CacheTypeOK
                 [] level = "log" -> WalTypeOK
=============================================================================
