---------------------------- MODULE MCRetryCap ----------------------------
(***************************************************************************)
(* Delivery with a history variable: how many rounds over all clusters the *)
(* retry processor has begun for each message.                             *)
(***************************************************************************)
EXTENDS Delivery

VARIABLE rounds

CapRoutes == {<<"upstream">>}

CapInit == Init /\ rounds = [id \in MessageIds |-> 0]

CapNext ==
    /\ Next
    /\ rounds' = IF retry_pc = "routing" /\ retry_pc' = "trying"
                 THEN [rounds EXCEPT ![retry_id] = @ + 1] ELSE rounds

CapSpec == CapInit /\ [][CapNext]_<<vars, rounds>>

\* The retry processor tries a message again at most MAX_RETRIES times before it gives
\* up: "Maximum retry attempts before giving up" (retry.rs, MAX_RETRIES).
RetriesAreCapped == \A id \in MessageIds : rounds[id] <= MaxRetries
===========================================================================
