--------------------------- MODULE DurableHistory ---------------------------
(***************************************************************************)
(* What the ledger promises its users (client.go:102-104, store.go:110-134,*)
(* 161): a history grows, a save call that ends well has everything        *)
(* recorded before the call in the file, the file never goes back, and a   *)
(* process death takes the history back to the file and no further.  How a *)
(* save works, and what a record is, is left to the implementation.        *)
(***************************************************************************)
EXTENDS Integers

CONSTANTS Savers    \* goroutines that may ask for a save

VARIABLES
    recorded,   \* how many records the history has
    saved,      \* how many of them the file has
    call        \* each saver's call, and what had been recorded when it began

vars == <<recorded, saved, call>>

Idle == [state |-> "idle", at |-> 0]

Init ==
    /\ recorded = 0 /\ saved = 0
    /\ call = [s \in Savers |-> Idle]

Record ==
    /\ recorded' = recorded + 1
    /\ UNCHANGED <<saved, call>>

Becomes(s, state, at) == call' = [call EXCEPT ![s] = [state |-> state, at |-> at]]

Begin(s) ==
    /\ call[s].state = "idle"
    /\ Becomes(s, "pending", recorded)
    /\ UNCHANGED <<recorded, saved>>

(* Nothing is missing from the file: the call is done at once. *)
NothingToSave(s) ==
    /\ call[s].state = "idle"
    /\ saved = recorded
    /\ Becomes(s, "done", recorded)
    /\ UNCHANGED <<recorded, saved>>

(* Records made during the call may or may not be saved with the others. *)
Save(s) ==
    /\ call[s].state = "pending"
    /\ saved' \in call[s].at..recorded
    /\ saved' >= saved
    /\ Becomes(s, "done", call[s].at)
    /\ UNCHANGED recorded

(* The call returns: without an error when it is done, with one before. *)
Return(s) ==
    /\ call[s].state # "idle"
    /\ call' = [call EXCEPT ![s] = Idle]
    /\ UNCHANGED <<recorded, saved>>

Crash ==
    /\ recorded' = saved
    /\ call' = [s \in Savers |-> Idle]
    /\ UNCHANGED saved

Next ==
    \/ Record \/ Crash
    \/ \E s \in Savers : Begin(s) \/ NothingToSave(s) \/ Save(s) \/ Return(s)

Spec == Init /\ [][Next]_vars

=============================================================================
