-------------------------- MODULE MCDirectWorkflow --------------------------
(***************************************************************************)
(* Instances of DirectWorkflow for TLC.                                    *)
(***************************************************************************)
EXTENDS DirectProperties, TLC

\* Tasks, clients and run ids are interchangeable in the safety runs in which
\* every task has the same risk and document setting.
Interchangeable ==
    Permutations(Tasks) \cup Permutations(Clients) \cup Permutations(RunIds)
\* Snapshots are only ever compared, so the states of their parts are too.
ValuesInterchangeable ==
    UNION {Permutations(S) : S \in {Clients, RunIds, Refs, Inside, Outside}}
=============================================================================
