-------------------------- MODULE MCThreadMessages --------------------------
(* Instances of ThreadMessages for TLC. *)
EXTENDS ThreadMessages

CONSTANTS r1, r2, s1, x1, x2, e1, e2, e3

(* A background submission, a foreground one and a message meant to steer. *)
Boundaries == [r \in Runs |-> IF r = r2 THEN "Interrupt" ELSE "NewRun"]

(* A barrier that a natural end may take, alone, and a message that waits  *)
(* for the next run.                                                       *)
Modes == [x \in Extras |->
            IF x = x1 THEN [boundary |-> "OnNaturalEnd", one |-> TRUE, barrier |-> TRUE,
                            target |-> NoRun, fallback |-> TRUE]
                      ELSE [boundary |-> "NewRun", one |-> FALSE, barrier |-> FALSE,
                            target |-> NoRun, fallback |-> TRUE]]

(* All submissions with a direct delivery, without edits; three clients     *)
(* that edit one message, while the run is steered or beside a delivery;   *)
(* one client beside two submissions.                                      *)
OnPostgres == {"postgres"} \X {{r1, r2, s1}, {r1, r2, x1}, {r1, s1, x1}, {r1, x1, x2},
                               {r1, s1, e1, e2, e3}, {r1, x1, e1, e2, e3},
                               {r1, r2, x1, e1}, {r1, s1, x1, e1}}
OnMemory == {"memory"} \X {{r1, r2, s1}}
OnBoth == OnPostgres \cup OnMemory
(* Three clients edit a message that misses its run and is queued again.   *)
EditedAndQueuedAgain == {<<"postgres", {r1, s1, x1, e1, e2, e3}>>}
SteeredPostgres == {<<"postgres", {r1, s1}>>}
=============================================================================
