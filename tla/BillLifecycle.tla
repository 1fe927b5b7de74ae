---------------------------- MODULE BillLifecycle ----------------------------
(***************************************************************************)
(* What the executor promises about one bill, in the words of its          *)
(* specification (Bill State Machine): a bill is created once, goes        *)
(* Created -> Released -> Blocked, may go back from Released to Created    *)
(* only before any of it has been redeemed, is redeemed in parts while     *)
(* Released, never beyond its face value, and becomes Blocked exactly when *)
(* the redeemed part reaches the face value.  Blocked is final.           *)
(***************************************************************************)
EXTENDS Integers

CONSTANTS Bills, Faces

VARIABLES status, redeemed, face

lifecycleVars == <<status, redeemed, face>>

Init ==
    /\ status = [b \in Bills |-> "None"]
    /\ redeemed = [b \in Bills |-> 0]
    /\ face = [b \in Bills |-> 0]

Create(b, f) ==
    /\ status[b] = "None"
    /\ status' = [status EXCEPT ![b] = "Created"]
    /\ face' = [face EXCEPT ![b] = f]
    /\ UNCHANGED redeemed

Release(b) ==
    /\ status[b] = "Created"
    /\ status' = [status EXCEPT ![b] = "Released"]
    /\ UNCHANGED <<redeemed, face>>

UnRelease(b) ==
    /\ status[b] = "Released"
    /\ redeemed[b] = 0
    /\ status' = [status EXCEPT ![b] = "Created"]
    /\ UNCHANGED <<redeemed, face>>

Redeem(b, k) ==
    /\ status[b] = "Released"
    /\ redeemed' = [redeemed EXCEPT ![b] = @ + k]
    /\ status' = [status EXCEPT ![b] =
                    IF redeemed[b] + k = face[b] THEN "Blocked" ELSE "Released"]
    /\ UNCHANGED face

Next ==
    \E b \in Bills :
        \/ \E f \in Faces : Create(b, f)
        \/ Release(b)
        \/ UnRelease(b)
        \/ \E k \in 1..(face[b] - redeemed[b]) : Redeem(b, k)

Spec == Init /\ [][Next]_lifecycleVars

=============================================================================
