----------------------------- MODULE MCSuiteRuns -----------------------------
(* Call sets for the model checking of SuiteRuns. *)
EXTENDS SuiteRuns, TLC

Symmetry == Permutations(Requests) \cup Permutations(Links)

LinkCalls == {AddCase(c) : c \in Cases} \cup {RemoveCase(c) : c \in Cases}
             \cup {ReplaceCases(cs) : cs \in SUBSET Cases}
             \cup {DeleteCase(c) : c \in Cases} \cup {BulkDeleteCase(c) : c \in Cases}

\* No route moves a run back to "Not Started" ...
MoveCalls == {Move(t, s) : t \in Runs, s \in Statuses \ {"Not Started"}}

\* ... but a PUT does.  It can also move the run on, take its start time away,
\* alone or with the status, and delete it.
PutCalls == {Put(t, "Not Started", cs) : t \in Runs,
                cs \in {{"status"}, {"clear"}, {"status", "clear"}, {"delete"}}}
            \cup {Put(t, "In Progress", {"status"}) : t \in Runs}

\* Every route that touches links or runs.
MixedCalls == LinkCalls \cup MoveCalls \cup PutCalls

\* The same without a PUT.
RoutedCalls == LinkCalls \cup MoveCalls
=============================================================================
