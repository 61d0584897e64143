-------------------------- MODULE AdmissionContract --------------------------
(***************************************************************************)
(* What admission promises, without gateway, storage or recovery: each     *)
(* request is granted or refused once and for all; it is granted only when *)
(* every scope it needs holds its reservation; a reservation is given back *)
(* only when the request was refused, and otherwise lasts until it is      *)
(* replaced by a charge, by its full bound or by an approved release.      *)
(***************************************************************************)
CONSTANTS Requests, Scopes,
          Needs         \* [Requests -> SUBSET Scopes]

VARIABLES decision,     \* [Requests -> {"undecided", "granted", "refused"}]
          slot          \* [Scopes -> [Requests -> slot state]]

Init ==
    /\ decision = [r \in Requests |-> "undecided"]
    /\ slot = [s \in Scopes |-> [r \in Requests |-> "free"]]

Move(s, r, from, to) ==
    /\ slot[s][r] \in from
    /\ slot' = [slot EXCEPT ![s][r] = to]
    /\ UNCHANGED decision

\* A reservation is written; it may come late, after a refusal.
Hold(s, r) == s \in Needs[r] /\ Move(s, r, {"free"}, "held")

\* A held request is granted when all its scopes hold it.
Grant(r) ==
    /\ decision[r] = "undecided"
    /\ \A s \in Needs[r] : slot[s][r] = "held"
    /\ decision' = [decision EXCEPT ![r] = "granted"]
    /\ UNCHANGED slot

Refuse(r) ==
    /\ decision[r] = "undecided"
    /\ decision' = [decision EXCEPT ![r] = "refused"]
    /\ UNCHANGED slot

\* A refused request gives its reservation back and can hold none again.
Close(s, r) == decision[r] = "refused" /\ Move(s, r, {"free", "held"}, "closed")

\* Without evidence the full bound stays counted.
Cap(s, r) == decision[r] = "granted" /\ Move(s, r, {"held"}, "bounded")

\* A person waives a reservation that has no evidence.
Waive(s, r) == decision[r] = "granted" /\ Move(s, r, {"held", "bounded"}, "waived")

\* Evidence charges the request, whatever was decided without evidence.
Bill(s, r) ==
    decision[r] = "granted" /\ Move(s, r, {"held", "bounded", "waived", "charged"}, "charged")

Next ==
    \/ \E r \in Requests : Grant(r) \/ Refuse(r)
    \/ \E s \in Scopes, r \in Requests :
          Hold(s, r) \/ Close(s, r) \/ Cap(s, r) \/ Waive(s, r) \/ Bill(s, r)

Spec == Init /\ [][Next]_<<decision, slot>>
=============================================================================
