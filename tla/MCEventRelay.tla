---------------------------- MODULE MCEventRelay ----------------------------
(* Instances of EventRelay: short threads whose encodings depend on state. *)
EXTENDS EventRelay
CONSTANTS p1, p2, f1

TextThenEnd == <<"text", "finish">>
=============================================================================
