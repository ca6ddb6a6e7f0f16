---------------------------- MODULE MCFormDialogs ----------------------------
(* Two projects with an epic each; a user story; a case in it and one that is *)
(* in no epic.                                                               *)
EXTENDS FormDialogs

CONSTANTS P1, P2, E1, E2, S1, C1, C2

InStory == [project |-> P1, epic |-> E1, story |-> S1]
InProject1 == [project |-> P1, epic |-> None, story |-> None]
InEpic2 == [project |-> P2, epic |-> E2, story |-> None]
MCCaseHomes == {InStory, InProject1, InEpic2}

MCFirstTree ==
    [x \in {E1, E2, S1, C1, C2} |->
        CASE x = E1 -> P1 [] x = E2 -> P2 [] x = S1 -> E1
          [] x = C1 -> InStory [] x = C2 -> InProject1]
=============================================================================
