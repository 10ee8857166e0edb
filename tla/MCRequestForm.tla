---------------------------- MODULE MCRequestForm ----------------------------
(* RequestForm for TLC: a form is complete in one of two ways, or lacks the *)
(* resource type.                                                          *)
EXTENDS RequestForm
FieldValues ==
    {[type |-> Empty, text |-> "b"], [type |-> "HPC_GPU", text |-> "a"],
     [type |-> "HPC_GPU", text |-> "b"]}
==============================================================================
