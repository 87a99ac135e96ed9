------------------------------ MODULE Bucket ------------------------------
(***************************************************************************)
(* The configuration bucket (config/client.go over iaas/s3.go and          *)
(* iaas/gcp.go): every object is read and replaced as a whole, no command  *)
(* locks it, and a write can fail.                                         *)
(***************************************************************************)

CONSTANTS Iaas,     \* "AWS" or "GCP"
          Faults    \* what can go wrong beside a failing command

ASSUME IaasIsKnown == Iaas \in {"AWS", "GCP"}

\* WriteFile of a bucket object that holds old: an error can come before or
\* after the object was replaced, and the GCP writer reports only the errors of
\* Write, not those of Close, which is what sends the object.
Put(old, new) ==
  {[val |-> new, res |-> "ok"]}
    \union (IF "store" \in Faults
            THEN {[val |-> old, res |-> "error"], [val |-> new, res |-> "error"]}
            ELSE {})
    \union (IF "store" \in Faults /\ Iaas = "GCP"
            THEN {[val |-> old, res |-> "ok"]}
            ELSE {})
=============================================================================
