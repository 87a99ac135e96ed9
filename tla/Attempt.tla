------------------------------ MODULE Attempt -------------------------------
(***************************************************************************)
(* What the steps of a deploy promise each other: a step that is asked for *)
(* something may fail, or be ended, whether or not it did what was asked,  *)
(* and may be asked again; it reports success only when what was asked for *)
(* is there.  While it is at work nobody undoes what it did.               *)
(***************************************************************************)
VARIABLES done, answer

Init == done \in BOOLEAN /\ answer = "error"

Ask == answer # "none" /\ answer' = "none" /\ done' \in BOOLEAN

Work == answer = "none" /\ done' = TRUE /\ UNCHANGED answer

Succeed == answer = "none" /\ done' = TRUE /\ answer' = "ok"

Fail == answer = "none" /\ done' \in {done, TRUE} /\ answer' = "error"

\* What was done is undone, or done by somebody else, once the answer is given.
Change == answer # "none" /\ done' \in BOOLEAN /\ UNCHANGED answer

Next == Ask \/ Work \/ Succeed \/ Fail \/ Change

Spec == Init /\ [][Next]_<<done, answer>>
=============================================================================
