------------------------------ MODULE AtomicRows ------------------------------
(***************************************************************************)
(* What the entity services promise their clients, without sessions, row   *)
(* locks or identity maps: a call takes effect in one step, on rows it     *)
(* names, in columns it names, with the values it names.  Which of those   *)
(* columns change is left open, because a call may be refused for some     *)
(* rows and does not rewrite values it found in place.  No step undeletes  *)
(* a row or touches one that does not exist.                               *)
(***************************************************************************)
CONSTANTS Rows, Columns, NewRows, Calls

VARIABLES row, unborn

Named(call) == {call.ids[i] : i \in DOMAIN call.ids}

Overlay(old, set, cs) == [c \in Columns |-> IF c \in cs THEN set[c] ELSE old[c]]

Apply(call) ==
    /\ \E cs \in [Named(call) -> SUBSET DOMAIN call.set] :
           row' = [d \in Rows |-> IF d \in Named(call)
                                  THEN Overlay(row[d], call.set, cs[d])
                                  ELSE row[d]]
    /\ \A d \in Rows :
           /\ d \in unborn => row'[d] = row[d]
           /\ row[d]["is_deleted"] = "true" => row'[d]["is_deleted"] = "true"
    /\ UNCHANGED unborn

Insert(d, new) ==
    /\ d \in unborn
    /\ unborn' = unborn \ {d}
    /\ row' = [row EXCEPT ![d] = new]

Init == unborn = Rows /\ \E new \in NewRows : row = [d \in Rows |-> new]

Next == \/ \E call \in Calls : Apply(call)
        \/ \E d \in Rows, new \in NewRows : Insert(d, new)

Spec == Init /\ [][Next]_<<row, unborn>>
=============================================================================
