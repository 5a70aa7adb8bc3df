----------------------------- MODULE Conditions ------------------------------
(***************************************************************************)
(* The conditions in the status of a resource (src/src/conditions.rs): one *)
(* of each type, which says since when its status has been what it is.     *)
(* Reasons and messages are left out.                                      *)
(***************************************************************************)

\* Absent: there is no condition of this type.
Status == {"Absent", "True", "False"}

Condition(Generations, Times) ==
    [status : Status, observed : Generations, since : Times]

\* A vector of conditions that is None, or empty.
NoConditions(Types) ==
    [t \in Types |-> [status |-> "Absent", observed |-> 0, since |-> 0]]

\* upsert_bool, that is make_condition and upsert_condition: the transition time
\* stays when a condition of the type is there and its status is the same.
Upsert(conditions, type, value, observed, now) ==
    LET status == IF value THEN "True" ELSE "False"
    IN  [conditions EXCEPT ![type] =
            [status |-> status, observed |-> observed,
             since |-> IF @.status = status THEN @.since ELSE now]]
=============================================================================
