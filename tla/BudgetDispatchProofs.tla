------------------------ MODULE BudgetDispatchProofs ------------------------
(***************************************************************************)
(* Proofs about BudgetDispatch, for every set of requests, scopes and      *)
(* sweeps, every assignment of receipts and bounds, and any number of      *)
(* faults.                                                                 *)
(***************************************************************************)
EXTENDS BudgetDispatch, LedgerDomainProofs, TLAPS

\* The scopes of a request's receipts are scopes.
LEMMA ReceiptScopes ==
    ASSUME NEW r \in Requests
    PROVE  /\ \A i \in 1..Len(Receipts[r]) : Receipts[r][i] \in Scopes
           /\ Len(Receipts[r]) \in 1..2
           /\ Members(r) \subseteq Scopes
  BY ReceiptsAssumption DEF Members

LedgerTyped ==
    /\ summary \in [Scopes -> Summary]
    /\ attempt \in [Scopes -> [Requests -> Attempt]]
    /\ dispatch \in [Requests -> DispatchRow]

\* Replacing the rows of one request in one scope keeps the tables well formed.
LEMMA RowsTyped ==
    ASSUME LedgerTyped, NEW s \in Scopes, NEW r \in Requests,
           NEW x \in Summary, NEW y \in Attempt
    PROVE  /\ [summary EXCEPT ![s] = x] \in [Scopes -> Summary]
           /\ [attempt EXCEPT ![s][r] = y] \in [Scopes -> [Requests -> Attempt]]
<1>1. [attempt[s] EXCEPT ![r] = y] \in [Requests -> Attempt]
  BY DEF LedgerTyped
<1>. QED BY <1>1 DEF LedgerTyped

\* A write that reaches the table leaves well-formed rows.
LEMMA ApplyTyped ==
    ASSUME TypeOK, NEW w \in Write, Apply(w)
    PROVE  LedgerTyped'
<1> DEFINE s == w.scope
           r == w.req
<1>1. s \in Scopes /\ r \in Requests /\ summary[s] \in Summary /\ attempt[s][r] \in Attempt
  BY DEF TypeOK, Write
<1>2. LedgerTyped
  BY DEF TypeOK, LedgerTyped
<1>3. CASE w.kind = "plan"
  <2>1. Preparing \in DispatchRow BY DEF Preparing, DispatchRow
  <2>. QED BY <1>1, <1>2, <1>3, <2>1 DEF Apply, LedgerTyped
<1>4. CASE w.kind = "reserve"
  <2>1. /\ ReservedSummary(summary[s], Bound[r]) \in Summary
        /\ NewAttempt("reserved", Bound[r]) \in Attempt
    BY <1>1, ReservedTypes, AmountsAssumption DEF AttemptStates
  <2>2. /\ summary' = [summary EXCEPT ![s] = ReservedSummary(summary[s], Bound[r])]
        /\ attempt' = [attempt EXCEPT ![s][r] = NewAttempt("reserved", Bound[r])]
        /\ dispatch' = dispatch
    BY <1>4 DEF Apply
  <2>. QED BY <1>1, <1>2, <2>1, <2>2, RowsTyped DEF LedgerTyped
<1>5. CASE w.kind \in {"authorize", "cancel"}
  <2>1. \A d \in {"dispatching", "cancelled"} : [dispatch[r] EXCEPT !.state = d] \in DispatchRow
    BY <1>1, <1>2 DEF LedgerTyped, DispatchRow
  <2>. QED BY <1>1, <1>2, <1>5, <2>1 DEF Apply, LedgerTyped
<1>6. CASE w.kind = "complete"
  <2>1. CompletionTotal(r) \in Nat /\ IsRejection(r) \in BOOLEAN
    BY <1>1, AmountsAssumption DEF CompletionTotal, IsRejection
  <2>2. /\ CompletedSummary(summary[s], attempt[s][r], CompletionTotal(r)) \in Summary
        /\ CompletedAttempt(attempt[s][r], IsRejection(r), CompletionTotal(r)) \in Attempt
    BY <1>1, <2>1, CompletedTypes
  <2>3. /\ summary' = [summary EXCEPT ![s] =
                          CompletedSummary(summary[s], attempt[s][r], CompletionTotal(r))]
        /\ attempt' = [attempt EXCEPT ![s][r] =
                          CompletedAttempt(attempt[s][r], IsRejection(r), CompletionTotal(r))]
        /\ dispatch' = dispatch
    BY <1>6 DEF Apply
  <2>. QED BY <1>1, <1>2, <2>2, <2>3, RowsTyped DEF LedgerTyped
<1>. QED BY <1>3, <1>4, <1>5, <1>6 DEF Write
--------------------------------------------------------------------------
(* Type correctness. *)

ControlTyped ==
    /\ gw \in [Requests -> GatewayState]
    /\ \A r \in Requests : gw[r].idx <= Len(Receipts[r])

WireTyped ==
    /\ wire \subseteq Write
    /\ \A w \in wire : w.scope \in Members(w.req)
    /\ faults \in 0..MaxFaults

SweepTyped ==
    /\ sweep \in [Workers -> SweepState]
    /\ \A k \in Workers : sweep[k].idx <= Len(Receipts[sweep[k].req])

RestTyped == lapsed \subseteq Requests /\ registered \subseteq Requests

\* The parts of TypeOK, before and after a step.
LEMMA TypeParts ==
    /\ TypeOK <=> LedgerTyped /\ ControlTyped /\ WireTyped /\ SweepTyped /\ RestTyped
    /\ TypeOK' <=> LedgerTyped' /\ ControlTyped' /\ WireTyped' /\ SweepTyped' /\ RestTyped'
  BY DEF TypeOK, LedgerTyped, ControlTyped, WireTyped, SweepTyped, RestTyped

Pcs == {"idle", "read", "write", "check", "authorize", "cancel_read",
        "cancel_write", "denied", "forwarded", "complete", "done", "dead"}

\* The scope the gateway works on is one of the request's.
LEMMA ScopeMember ==
    ASSUME TypeOK, NEW r \in Requests
    PROVE  /\ gw[r].idx \in 1..Len(Receipts[r])
           /\ Scope(r) \in Members(r) /\ Scope(r) \in Scopes
           /\ Receipts[r][1] \in Members(r) /\ Receipts[r][1] \in Scopes
<1>0. Len(Receipts[r]) \in 1..2
  BY ReceiptScopes
<1>1. gw[r].idx \in 1..Len(Receipts[r])
  BY <1>0 DEF TypeOK, GatewayState
<1>2. 1 \in 1..Len(Receipts[r])
  BY <1>0
<1>. QED BY <1>1, <1>2, ReceiptScopes DEF Scope, Members

\* Writes are well formed.
LEMMA WriteOfType ==
    ASSUME NEW r \in Requests, NEW s \in Scopes, NEW v \in Nat,
           NEW k \in {"plan", "reserve", "authorize", "cancel", "complete"}
    PROVE  /\ WriteOf(k, r, s, v) \in Write
           /\ WriteOf(k, r, s, v).kind = k /\ WriteOf(k, r, s, v).req = r
           /\ WriteOf(k, r, s, v).scope = s /\ WriteOf(k, r, s, v).seen = v
  BY DEF WriteOf, Write

\* Moving a request to another step keeps the control states well formed.
LEMMA GotoTyped ==
    ASSUME TypeOK, NEW r \in Requests, NEW pc \in Pcs, Goto(r, pc)
    PROVE  ControlTyped'
<1> DEFINE g1 == [gw[r] EXCEPT !.pc = pc]
           g2 == [g1 EXCEPT !.seen = 0]
<1>1. g1 \in GatewayState BY DEF TypeOK, GatewayState, Pcs
<1>2. g2 \in GatewayState /\ g2.idx = gw[r].idx BY <1>1 DEF GatewayState
<1>3. gw' = [gw EXCEPT ![r] = g2] BY DEF Goto, TypeOK
<1> HIDE DEF g2
<1>. QED BY <1>2, <1>3 DEF ControlTyped, TypeOK

\* A write that times out leaves the wire and the fault count well formed.
LEMMA TimeOutTyped ==
    ASSUME TypeOK, NEW w \in Write, w.scope \in Members(w.req), TimeOut(w)
    PROVE  WireTyped' /\ LedgerTyped'
<1>1. faults' \in 0..MaxFaults
  BY BoundsAssumption DEF TimeOut, TypeOK
<1>. QED BY <1>1 DEF TypeOK, TimeOut, WireTyped, LedgerTyped, ledger

\* The next position in a list of at most two.
LEMMA NextIndex ==
    ASSUME NEW n \in 1..2, NEW i \in 1..n
    PROVE  i < n => i + 1 \in 1..2 /\ i + 1 \in 1..n /\ i + 1 <= n
  OBVIOUS

\* A new control state of one request.
LEMMA ControlUpdate ==
    ASSUME TypeOK, NEW r \in Requests, NEW g \in GatewayState, g.idx <= Len(Receipts[r]),
           gw' = [gw EXCEPT ![r] = g]
    PROVE  ControlTyped'
  BY DEF ControlTyped, TypeOK

\* Changing one field of a control state.
LEMMA FieldUpdate ==
    ASSUME NEW g \in GatewayState
    PROVE  /\ \A x \in Pcs : [g EXCEPT !.pc = x] \in GatewayState /\ [g EXCEPT !.pc = x].idx = g.idx
           /\ \A x \in 1..2 : [g EXCEPT !.idx = x] \in GatewayState /\ [g EXCEPT !.idx = x].idx = x
           /\ \A x \in 0..MaxRetries :
                 [g EXCEPT !.tries = x] \in GatewayState /\ [g EXCEPT !.tries = x].idx = g.idx
           /\ \A x \in Nat : [g EXCEPT !.seen = x] \in GatewayState /\ [g EXCEPT !.seen = x].idx = g.idx
           /\ \A x \in {"none", "usage", "rejection", "incomplete"} :
                 [g EXCEPT !.outcome = x] \in GatewayState /\ [g EXCEPT !.outcome = x].idx = g.idx
  BY DEF GatewayState, Pcs

\* The fields of a control state.
LEMMA ControlFields ==
    ASSUME TypeOK, NEW r \in Requests
    PROVE  /\ gw[r] \in GatewayState
           /\ gw[r].pc \in Pcs /\ gw[r].idx \in 1..Len(Receipts[r]) /\ gw[r].seen \in Nat
           /\ gw[r].tries \in 0..MaxRetries /\ gw[r].tries \in Int
           /\ gw[r].outcome \in {"none", "usage", "rejection", "incomplete"}
<1>1. gw[r] \in GatewayState BY DEF TypeOK
<1>2. gw[r].tries \in 0..MaxRetries BY <1>1 DEF GatewayState
<1>. QED BY <1>1, <1>2, ScopeMember, BoundsAssumption DEF GatewayState, Pcs

\* Every gateway step keeps the types.
LEMMA GatewayTyped ==
    ASSUME TypeOK, NEW r \in Requests, GatewayNext(r)
    PROVE  TypeOK'
<1> DEFINE c == gw[r]
           s == Scope(r)
<1>1. /\ s \in Scopes /\ s \in Members(r) /\ summary[s].version \in Nat
      /\ Receipts[r][1] \in Scopes /\ Receipts[r][1] \in Members(r)
      /\ c.pc \in Pcs /\ c.idx \in 1..Len(Receipts[r]) /\ c.seen \in Nat
      /\ c.tries \in 0..MaxRetries /\ c.tries \in Int
      /\ c.outcome \in {"none", "usage", "rejection", "incomplete"}
  BY ScopeMember, ControlFields DEF TypeOK, Summary
<1>2. LedgerTyped /\ ControlTyped /\ WireTyped /\ SweepTyped /\ RestTyped
  BY TypeParts
<1>3. /\ UNCHANGED <<lapsed, sweep, registered>> => SweepTyped' /\ RestTyped'
      /\ UNCHANGED ledger => LedgerTyped'
      /\ UNCHANGED <<wire, faults>> => WireTyped'
  BY <1>2 DEF SweepTyped, RestTyped, LedgerTyped, WireTyped, ledger
<1>4. \A pc \in Pcs : Goto(r, pc) => ControlTyped'
  BY GotoTyped
<1>5. Deny(r) => ControlTyped'
  BY <1>4 DEF Deny, Pcs
<1>6. \A pc \in Pcs : ReadFails(r, pc) => ControlTyped' /\ LedgerTyped' /\ WireTyped'
  <2>1. faults < MaxFaults /\ faults' = faults + 1 => faults' \in 0..MaxFaults
    BY BoundsAssumption DEF TypeOK
  <2>. QED BY <1>2, <1>4, <2>1 DEF ReadFails, LedgerTyped, WireTyped, ledger
<1>7. RetryLeft(r) => c.tries + 1 \in 0..MaxRetries
  BY <1>1, BoundsAssumption DEF RetryLeft
<1>8. \A g \in GatewayState :
         g.idx <= Len(Receipts[r]) /\ gw' = [gw EXCEPT ![r] = g] => ControlTyped'
  BY ControlUpdate
<1>9. c \in GatewayState /\ c.idx <= Len(Receipts[r])
  BY ControlFields DEF TypeOK
<1>10. /\ 0 \in 0..MaxRetries /\ 1 \in 1..Len(Receipts[r]) /\ 1 \in 1..2
       /\ 1 <= Len(Receipts[r]) /\ Len(Receipts[r]) \in 1..2
  BY BoundsAssumption, ReceiptScopes
<1>11. \A k \in {"plan", "reserve", "authorize", "cancel", "complete"}, x \in Scopes, v \in Nat :
          LET w == WriteOf(k, r, x, v)
          IN  /\ Apply(w) => LedgerTyped'
              /\ TimeOut(w) /\ x \in Members(r) => WireTyped' /\ LedgerTyped'
  BY WriteOfType, ApplyTyped, TimeOutTyped
<1>12. CASE InsertPlan(r)
  BY <1>1, <1>3, <1>4, <1>5, <1>11, <1>12, TypeParts DEF InsertPlan, Pcs
<1>13. CASE ReadSummary(r)
  <2>1. ASSUME gw' = [gw EXCEPT ![r].pc = "write", ![r].seen = summary[s].version]
        PROVE  ControlTyped'
    <3> DEFINE g1 == [c EXCEPT !.pc = "write"]
               g2 == [g1 EXCEPT !.seen = summary[s].version]
    <3>1. g1 \in GatewayState /\ g1.idx = c.idx BY <1>9, FieldUpdate DEF Pcs
    <3>2. g2 \in GatewayState /\ g2.idx = c.idx BY <1>1, <3>1, FieldUpdate
    <3>3. gw' = [gw EXCEPT ![r] = g2] BY <2>1 DEF TypeOK
    <3>. QED BY <1>8, <1>9, <3>2, <3>3
  <2>2. ASSUME RetryLeft(r), gw' = [gw EXCEPT ![r].tries = @ + 1]
        PROVE  ControlTyped'
    <3> DEFINE g1 == [c EXCEPT !.tries = @ + 1]
    <3>1. g1 \in GatewayState /\ g1.idx = c.idx BY <1>7, <1>9, <2>2, FieldUpdate
    <3>2. gw' = [gw EXCEPT ![r] = g1] BY <2>2 DEF TypeOK
    <3>. QED BY <1>8, <1>9, <3>1, <3>2
  <2>. QED BY <1>3, <1>5, <1>6, <1>13, <2>1, <2>2, TypeParts DEF ReadSummary, Pcs
<1>14. CASE WriteReservation(r)
  <2>1. c.idx < Len(Receipts[r]) => c.idx + 1 \in 1..2 /\ c.idx + 1 <= Len(Receipts[r])
    BY <1>1, <1>10, NextIndex
  <2>2. ASSUME c.idx < Len(Receipts[r]),
               gw' = [gw EXCEPT ![r].pc = "read", ![r].idx = @ + 1, ![r].tries = 0, ![r].seen = 0]
        PROVE  ControlTyped'
    <3> DEFINE g1 == [c EXCEPT !.pc = "read"]
               g2 == [g1 EXCEPT !.idx = c.idx + 1]
               g3 == [g2 EXCEPT !.tries = 0]
               g4 == [g3 EXCEPT !.seen = 0]
    <3>1. g1 \in GatewayState /\ g1.idx = c.idx BY <1>9, FieldUpdate DEF Pcs
    <3>2. g2 \in GatewayState /\ g2.idx = c.idx + 1 BY <2>1, <2>2, <3>1, FieldUpdate
    <3>3. g3 \in GatewayState /\ g3.idx = c.idx + 1 BY <1>10, <3>2, FieldUpdate
    <3>4. g4 \in GatewayState /\ g4.idx = c.idx + 1 BY <3>3, FieldUpdate
    <3>5. gw' = [gw EXCEPT ![r] = g4] BY <2>2 DEF TypeOK
    <3>. QED BY <1>8, <2>1, <2>2, <3>4, <3>5
  <2>3. ASSUME gw' = [gw EXCEPT ![r].pc = "check", ![r].tries = 0, ![r].seen = 0]
        PROVE  ControlTyped'
    <3> DEFINE g1 == [c EXCEPT !.pc = "check"]
               g2 == [g1 EXCEPT !.tries = 0]
               g3 == [g2 EXCEPT !.seen = 0]
    <3>1. g1 \in GatewayState /\ g1.idx = c.idx BY <1>9, FieldUpdate DEF Pcs
    <3>2. g2 \in GatewayState /\ g2.idx = c.idx BY <1>10, <3>1, FieldUpdate
    <3>3. g3 \in GatewayState /\ g3.idx = c.idx BY <3>2, FieldUpdate
    <3>4. gw' = [gw EXCEPT ![r] = g3] BY <2>3 DEF TypeOK
    <3>. QED BY <1>8, <1>9, <3>3, <3>4
  <2>4. ASSUME RetryLeft(r),
               gw' = [gw EXCEPT ![r].pc = "read", ![r].tries = @ + 1, ![r].seen = 0]
        PROVE  ControlTyped'
    <3> DEFINE g1 == [c EXCEPT !.pc = "read"]
               g2 == [g1 EXCEPT !.tries = c.tries + 1]
               g3 == [g2 EXCEPT !.seen = 0]
    <3>1. g1 \in GatewayState /\ g1.idx = c.idx BY <1>9, FieldUpdate DEF Pcs
    <3>2. g2 \in GatewayState /\ g2.idx = c.idx BY <1>7, <2>4, <3>1, FieldUpdate
    <3>3. g3 \in GatewayState /\ g3.idx = c.idx BY <3>2, FieldUpdate
    <3>4. gw' = [gw EXCEPT ![r] = g3] BY <2>4 DEF TypeOK
    <3>. QED BY <1>8, <1>9, <3>3, <3>4
  <2>. QED BY <1>1, <1>3, <1>5, <1>11, <1>14, <2>2, <2>3, <2>4, TypeParts DEF WriteReservation
<1>15. CASE CheckPlan(r)
  BY <1>3, <1>4, <1>5, <1>6, <1>15, TypeParts DEF CheckPlan, Pcs
<1>16. CASE Authorize(r)
  BY <1>1, <1>3, <1>4, <1>5, <1>11, <1>16, TypeParts DEF Authorize, Pcs
<1>17. CASE CancelRead(r)
  BY <1>3, <1>4, <1>6, <1>17, TypeParts DEF CancelRead, Pcs
<1>18. CASE CancelWrite(r)
  BY <1>1, <1>3, <1>4, <1>11, <1>18, TypeParts DEF CancelWrite, Pcs
<1>19. CASE Respond(r)
  <2>1. ControlTyped'
    <3>1. PICK o \in {"usage", "rejection", "incomplete"} :
             gw' = [gw EXCEPT ![r].pc = IF o = "incomplete" THEN "done" ELSE "complete",
                              ![r].idx = 1, ![r].outcome = o]
      BY <1>19 DEF Respond
    <3> DEFINE g1 == [c EXCEPT !.pc = IF o = "incomplete" THEN "done" ELSE "complete"]
               g2 == [g1 EXCEPT !.idx = 1]
               g3 == [g2 EXCEPT !.outcome = o]
    <3>2. g1 \in GatewayState /\ g1.idx = c.idx BY <1>9, FieldUpdate DEF Pcs
    <3> HIDE DEF g1
    <3>3. g2 \in GatewayState /\ g2.idx = 1 BY <1>10, <3>2, FieldUpdate
    <3>4. g3 \in GatewayState /\ g3.idx = 1 BY <3>3, FieldUpdate
    <3>5. gw' = [gw EXCEPT ![r] = g3] BY <3>1 DEF TypeOK, g1
    <3>. QED BY <1>8, <1>10, <3>4, <3>5
  <2>. QED BY <1>3, <1>19, <2>1, TypeParts DEF Respond
<1>20. CASE CompleteScope(r)
  <2>1. ControlTyped'
    <3> DEFINE g1 == [c EXCEPT !.idx = c.idx + 1]
               g2 == [c EXCEPT !.pc = "done"]
    <3>1. c.idx < Len(Receipts[r]) => c.idx + 1 \in 1..2 /\ c.idx + 1 <= Len(Receipts[r])
      BY <1>1, <1>10, NextIndex
    <3>2. c.idx < Len(Receipts[r]) => g1 \in GatewayState /\ g1.idx = c.idx + 1
      BY <1>9, <3>1, FieldUpdate
    <3>3. g2 \in GatewayState /\ g2.idx = c.idx BY <1>9, FieldUpdate DEF Pcs
    <3>4. gw' = IF c.idx < Len(Receipts[r]) THEN [gw EXCEPT ![r] = g1] ELSE [gw EXCEPT ![r] = g2]
      BY <1>20 DEF CompleteScope, TypeOK
    <3>. QED BY <1>8, <1>9, <3>1, <3>2, <3>3, <3>4
  <2>. QED BY <1>1, <1>3, <1>11, <1>20, <2>1, TypeParts DEF CompleteScope
<1>21. CASE Die(r)
  <2>1. faults' \in 0..MaxFaults
    BY <1>21, BoundsAssumption DEF Die, TypeOK
  <2>. QED BY <1>2, <1>3, <1>4, <1>21, <2>1, TypeParts DEF Die, Pcs, WireTyped
<1>22. CASE Lapse(r)
  BY <1>2, <1>3, <1>22, TypeParts DEF Lapse, RestTyped, ControlTyped, SweepTyped
<1>. QED BY <1>12, <1>13, <1>14, <1>15, <1>16, <1>17, <1>18, <1>19, <1>20, <1>21, <1>22
        DEF GatewayNext

\* Compensation of one receipt leaves well-formed rows.
LEMMA CompensateTyped ==
    ASSUME TypeOK, NEW s \in Scopes, NEW r \in Requests, CompensateReceipt(s, r),
           UNCHANGED dispatch
    PROVE  LedgerTyped'
<1> DEFINE a == attempt[s][r]
<1>1. summary[s] \in Summary /\ a \in Attempt /\ Bound[r] \in Nat
  BY AmountsAssumption DEF TypeOK
<1>2. /\ TransitionedSummary(summary[s], a, "cancelled") \in Summary
      /\ TransitionedAttempt(a, "cancelled") \in Attempt
      /\ NewAttempt("cancelled", Bound[r]) \in Attempt
  BY <1>1, TransitionedTypes, ReservedTypes DEF AttemptStates
<1>3. [summary[s] EXCEPT !.version = @ + 1] \in Summary
  BY <1>1 DEF Summary
<1>4. LedgerTyped
  BY TypeParts
<1>5. CASE a.state = "reserved"
  BY <1>2, <1>4, <1>5 DEF CompensateReceipt, LedgerTyped
<1>6. CASE a.state \in {"settled", "cancelled"}
  BY <1>4, <1>6 DEF CompensateReceipt, LedgerTyped
<1>7. CASE a.state = "none"
  BY <1>2, <1>3, <1>4, <1>7 DEF CompensateReceipt, LedgerTyped
<1>. QED BY <1>5, <1>6, <1>7 DEF CompensateReceipt

\* Every step of a sweep keeps the types.
LEMMA SweepStepTyped ==
    ASSUME TypeOK, NEW k \in Workers, SweepNext(k) \/ SweepFails(k)
    PROVE  TypeOK'
<1> DEFINE r == sweep[k].req
           i == sweep[k].idx
<1>1. /\ r \in Requests /\ i \in 1..2 /\ i <= Len(Receipts[r]) /\ Len(Receipts[r]) \in 1..2
      /\ sweep[k] \in SweepState
  BY ReceiptScopes DEF TypeOK, SweepState
<1>2. LedgerTyped /\ ControlTyped /\ WireTyped /\ SweepTyped /\ RestTyped
  BY TypeParts
<1>3. /\ UNCHANGED <<lapsed, registered>> => RestTyped'
      /\ UNCHANGED ledger => LedgerTyped'
      /\ UNCHANGED <<wire, faults>> => WireTyped'
      /\ UNCHANGED gw => ControlTyped'
  BY <1>2 DEF ControlTyped, RestTyped, LedgerTyped, WireTyped, ledger
<1>4. \A pc \in {"idle", "cancel", "compensate", "register", "finish"} :
        SweepGoto(k, pc) => SweepTyped'
  BY <1>1, <1>2 DEF SweepGoto, SweepTyped, SweepState
<1>5. ASSUME NEW q \in Requests, PickPlan(k, q)
      PROVE  TypeOK'
  <2> DEFINE x == [pc |-> IF dispatch[q].state = "dispatching" THEN "register" ELSE "cancel",
                   req |-> q, idx |-> 1]
  <2>1. 1 \in 1..2 /\ 1 <= Len(Receipts[q]) BY ReceiptScopes
  <2>2. x \in SweepState /\ x.idx <= Len(Receipts[x.req]) BY <2>1 DEF SweepState
  <2>3. sweep' = [sweep EXCEPT ![k] = x] BY <1>5 DEF PickPlan
  <2> HIDE DEF x
  <2>4. SweepTyped' BY <1>2, <2>2, <2>3 DEF SweepTyped
  <2>. QED BY <1>3, <1>5, <2>4, TypeParts DEF PickPlan
<1>6. CASE RecoverCancel(k)
  <2> DEFINE w == WriteOf("cancel", r, Receipts[r][1], 0)
  <2>1. w \in Write /\ w.scope \in Members(w.req)
    BY <1>1, ScopeMember, WriteOfType
  <2>2. /\ Apply(w) => LedgerTyped'
        /\ TimeOut(w) => WireTyped' /\ LedgerTyped'
    BY <2>1, ApplyTyped, TimeOutTyped
  <2>. QED BY <1>3, <1>4, <1>6, <2>2, TypeParts DEF RecoverCancel
<1>7. CASE Compensate(k)
  <2>1. Receipts[r][i] \in Scopes
    BY <1>1, ReceiptScopes
  <2>2. LedgerTyped'
    BY <1>1, <1>7, <2>1, CompensateTyped DEF Compensate
  <2>3. i < Len(Receipts[r]) => i + 1 \in 1..2 /\ i + 1 <= Len(Receipts[r])
    <3>1. i \in 1..Len(Receipts[r]) BY <1>1
    <3>. QED BY <1>1, <3>1, NextIndex
  <2>4. SweepTyped'
    <3>1. CASE i < Len(Receipts[r])
      <4>1. [sweep[k] EXCEPT !.idx = i + 1] \in SweepState BY <1>1, <2>3, <3>1 DEF SweepState
      <4>2. sweep' = [sweep EXCEPT ![k].idx = i + 1] BY <1>7, <3>1 DEF Compensate
      <4>. QED BY <1>1, <1>2, <2>3, <3>1, <4>1, <4>2 DEF SweepTyped, SweepState
    <3>2. CASE ~ (i < Len(Receipts[r]))
      BY <1>1, <1>2, <1>7, <3>2 DEF Compensate, SweepTyped, SweepState
    <3>. QED BY <3>1, <3>2
  <2>. QED BY <1>3, <1>7, <2>2, <2>4, TypeParts DEF Compensate
<1>8. CASE Register(k)
  BY <1>1, <1>2, <1>3, <1>4, <1>8, TypeParts DEF Register, RestTyped
<1>9. CASE Finish(k)
  <2>1. [dispatch[r] EXCEPT !.recovered = TRUE] \in DispatchRow
    BY <1>1 DEF TypeOK, DispatchRow
  <2>2. LedgerTyped'
    BY <1>1, <1>2, <1>9, <2>1 DEF Finish, LedgerTyped
  <2>. QED BY <1>3, <1>4, <1>9, <2>2, TypeParts DEF Finish
<1>10. CASE SweepFails(k)
  <2>1. faults' \in 0..MaxFaults BY <1>10, BoundsAssumption DEF SweepFails, TypeOK
  <2>2. WireTyped' BY <1>2, <1>10, <2>1 DEF SweepFails, WireTyped
  <2>. QED BY <1>3, <1>4, <1>10, <2>2, TypeParts DEF SweepFails
<1>. QED BY <1>5, <1>6, <1>7, <1>8, <1>9, <1>10 DEF SweepNext

\* Late writes, settlement and policy keep the types.
LEMMA SettlementTyped ==
    ASSUME TypeOK
    PROVE  /\ \A w \in wire : Land(w) => TypeOK'
           /\ \A s \in Scopes, r \in Requests : SettlementNext(s, r) => TypeOK'
           /\ \A s \in Scopes : WritePolicy(s) => TypeOK'
<1>1. LedgerTyped /\ ControlTyped /\ WireTyped /\ SweepTyped /\ RestTyped
  BY TypeParts
<1>2. /\ UNCHANGED ledger => LedgerTyped'
      /\ UNCHANGED <<wire, faults>> => WireTyped'
      /\ UNCHANGED <<lapsed, gw, sweep, registered>> => ControlTyped' /\ SweepTyped' /\ RestTyped'
  BY <1>1 DEF ControlTyped, RestTyped, LedgerTyped, WireTyped, SweepTyped, ledger
<1>3. ASSUME NEW w \in wire, Land(w)
      PROVE  TypeOK'
  <2>1. w \in Write BY DEF TypeOK
  <2>2. LedgerTyped' BY <1>2, <1>3, <2>1, ApplyTyped DEF Land
  <2>3. WireTyped' BY <1>1, <1>3 DEF Land, WireTyped
  <2>. QED BY <1>2, <1>3, <2>2, <2>3, TypeParts DEF Land
<1>4. ASSUME NEW s \in Scopes, NEW r \in Requests, SettlementNext(s, r)
      PROVE  TypeOK'
  <2> DEFINE a == attempt[s][r]
  <2>1. summary[s] \in Summary /\ a \in Attempt BY DEF TypeOK
  <2>2. UsageCharge(r) \in Charge
    BY AmountsAssumption DEF UsageCharge, Charge, EvidenceKeys
  <2>3. /\ SettledSummary(summary[s], a, UsageCharge(r)) \in Summary
        /\ SettledAttempt(a, UsageCharge(r)) \in Attempt
    BY <2>1, <2>2, SettledTypes
  <2>4. /\ TransitionedSummary(summary[s], a, "upper_bound") \in Summary
        /\ TransitionedAttempt(a, "upper_bound") \in Attempt
    BY <2>1, TransitionedTypes DEF AttemptStates
  <2>5. ResolvedSummary(summary[s], a) \in Summary /\ ResolvedAttempt(a) \in Attempt
    BY <2>1, ResolvedTypes
  <2>6. LedgerTyped'
    <3>1. CASE Settle(s, r) BY <1>1, <2>3, <3>1 DEF Settle, LedgerTyped
    <3>2. CASE FinalizeUncertain(s, r) BY <1>1, <2>4, <3>2 DEF FinalizeUncertain, LedgerTyped
    <3>3. CASE Resolve(s, r) BY <1>1, <2>5, <3>3 DEF Resolve, LedgerTyped
    <3>. QED BY <1>4, <3>1, <3>2, <3>3 DEF SettlementNext
  <2>. QED BY <1>2, <1>4, <2>6, TypeParts DEF SettlementNext, Settle, FinalizeUncertain, Resolve
<1>5. ASSUME NEW s \in Scopes, WritePolicy(s)
      PROVE  TypeOK'
  <2>1. PICK limit \in Limits, enforce \in BOOLEAN, enabled \in BOOLEAN :
          summary' = [summary EXCEPT ![s] =
             PolicySummary(@, @.revision + 1, limit, enforce, enabled)]
    BY <1>5 DEF WritePolicy
  <2> DEFINE s0 == summary[s]
             s1 == [s0 EXCEPT !.version = @ + 1]
             n == s0.revision + 1
             s2 == [s1 EXCEPT !.revision = n]
             s3 == [s2 EXCEPT !.limit = limit]
             s4 == [s3 EXCEPT !.enforce = enforce]
             s5 == [s4 EXCEPT !.enabled = enabled]
  <2>2. s0 \in Summary /\ s0.revision \in Nat /\ limit \in Nat
    BY AmountsAssumption DEF TypeOK, Summary
  <2>3. s1 \in Summary /\ n \in Nat BY <2>2 DEF Summary
  <2> HIDE DEF n, s1
  <2>4. s2 \in Summary BY <2>2, <2>3 DEF Summary
  <2>5. s3 \in Summary BY <2>2, <2>4 DEF Summary
  <2>6. s4 \in Summary BY <2>5 DEF Summary
  <2>7. s5 \in Summary BY <2>6 DEF Summary
  <2>8. PolicySummary(s0, s0.revision + 1, limit, enforce, enabled) \in Summary
    BY <2>2, <2>7 DEF PolicySummary, n, s1
  <2>9. LedgerTyped' BY <1>1, <1>5, <2>1, <2>8 DEF WritePolicy, LedgerTyped
  <2>. QED BY <1>2, <1>5, <2>9, TypeParts DEF WritePolicy
<1>. QED BY <1>3, <1>4, <1>5

\* The initial rows, control states and sweeps are well formed.
LEMMA InitTyped == Init => TypeOK
<1> SUFFICES ASSUME Init PROVE TypeOK
  OBVIOUS
<1>1. NoAttempt \in Attempt
  BY DEF NoAttempt, Attempt, AttemptStates, EvidenceKeys
<1>2. LedgerTyped
  BY <1>1, AmountsAssumption DEF Init, LedgerTyped, Summary, DispatchRow
<1>3. 0 \in 0..MaxRetries /\ 0 \in 0..MaxFaults /\ 1 \in 1..2
  BY BoundsAssumption
<1>4. ASSUME NEW r \in Requests PROVE 1 <= Len(Receipts[r])
  <2>1. Len(Receipts[r]) \in 1..2 BY ReceiptScopes
  <2>. QED BY <2>1
<1>5. ControlTyped
  BY <1>3, <1>4 DEF Init, ControlTyped, GatewayState
<1>6. SweepTyped
  <2>1. (CHOOSE r \in Requests : TRUE) \in Requests BY RequestsAssumption
  <2>. QED BY <1>3, <1>4, <2>1 DEF Init, SweepTyped, SweepState
<1>. QED BY <1>2, <1>3, <1>5, <1>6, TypeParts DEF Init, WireTyped, RestTyped

\* Every step of gateway, storage, sweep, settlement and policy keeps the types.
LEMMA NextTyped == TypeOK /\ [Next]_vars => TypeOK'
<1> SUFFICES ASSUME TypeOK, [Next]_vars PROVE TypeOK'
  OBVIOUS
<1>1. CASE UNCHANGED vars
  BY <1>1 DEF vars, TypeOK
<1>. QED BY <1>1, GatewayTyped, SweepStepTyped, SettlementTyped DEF Next

\* Every reachable state is well formed: the gateway and the sweep stay within
\* the receipts of their request and the retries of the policy's loop, and a
\* write on the wire addresses a scope of its request.
THEOREM TypeCorrect == Spec => []TypeOK
  BY InitTyped, NextTyped, PTL DEF Spec

--------------------------------------------------------------------------
(* The inductive invariant behind the safety properties. *)

\* The decision on a request is final and its rows agree with it.
Closed(r) ==
    \/ dispatch[r].state = "dispatching"
    \/ /\ dispatch[r].state = "cancelled"
       /\ \A s \in Members(r) : attempt[s][r].state = "cancelled"

\* The writer of an authorization has seen every reservation confirmed.
Admitted(r) ==
    \/ gw[r].pc \in {"check", "authorize"} \/ Sent(r)
    \/ dispatch[r].state = "dispatching"
    \/ \E w \in wire : w.kind = "authorize" /\ w.req = r

\* Before a plan is authorized its rows are only reserved or cancelled, and
\* only a cancelled plan has a cancelled row.
RowsFollowPlan(r) ==
    \A s \in Scopes :
        /\ dispatch[r].state # "dispatching" =>
             attempt[s][r].state \in {"none", "reserved", "cancelled"}
        /\ attempt[s][r].state = "cancelled" => dispatch[r].state = "cancelled"

ReservedBeforeAuthorized(r) ==
    /\ Admitted(r) => \A s \in Members(r) : attempt[s][r].state # "none"
    /\ gw[r].pc \in {"idle", "read", "write"} =>
         \A i \in 1..Len(Receipts[r]) :
             i < gw[r].idx => attempt[Receipts[r][i]][r].state # "none"

\* Only an authorized request is sent or completed.
AuthorizedBeforeSent(r) ==
    Sent(r) \/ (\E w \in wire : w.kind = "complete" /\ w.req = r) =>
        dispatch[r].state = "dispatching"

\* What a sweep has established about its plan.
SweepProgress(k) ==
    LET r == sweep[k].req
    IN  /\ sweep[k].pc = "cancel" => sweep[k].idx = 1
        /\ sweep[k].pc = "compensate" =>
             /\ dispatch[r].state = "cancelled"
             /\ \A i \in 1..Len(Receipts[r]) :
                   i < sweep[k].idx => attempt[Receipts[r][i]][r].state = "cancelled"
        /\ sweep[k].pc \in {"register", "finish"} => Closed(r)

RecoveredIsClosed(r) == r \in registered \/ dispatch[r].recovered => Closed(r)

RequestInv(r) ==
    RowsFollowPlan(r) /\ ReservedBeforeAuthorized(r) /\ AuthorizedBeforeSent(r) /\ RecoveredIsClosed(r)

IInv ==
    /\ TypeOK
    /\ \A r \in Requests : RequestInv(r)
    /\ \A k \in Workers : SweepProgress(k)

--------------------------------------------------------------------------
(* What a step may do to one request's plan and rows. *)

SameRows(q) == \A s \in Scopes : attempt'[s][q].state = attempt[s][q].state

RowStep(q, s) ==
    \/ attempt[s][q].state = "none" /\ attempt'[s][q].state = "reserved"
    \/ /\ dispatch[q].state = "cancelled"
       /\ attempt[s][q].state \in {"none", "reserved"} /\ attempt'[s][q].state = "cancelled"
    \/ /\ dispatch[q].state = "dispatching"
       /\ attempt[s][q].state \notin {"none", "cancelled"}
       /\ attempt'[s][q].state \notin {"none", "cancelled"}

PlanStep(q) ==
    \/ dispatch'[q] = dispatch[q]
    \/ dispatch[q].state = "none" /\ dispatch'[q] = Preparing
    \/ /\ dispatch[q] = Preparing
       /\ dispatch'[q].state = "cancelled" /\ dispatch'[q].recovered = FALSE
    \/ /\ dispatch[q] = Preparing
       /\ dispatch'[q].state = "dispatching" /\ dispatch'[q].recovered = FALSE
       /\ \A s \in Members(q) : attempt[s][q].state # "none"
    \/ dispatch'[q].state = dispatch[q].state /\ Closed(q)

Effect(q) ==
    \/ PlanStep(q) /\ SameRows(q)
    \/ /\ dispatch'[q] = dispatch[q]
       /\ \E s \in Scopes :
             /\ RowStep(q, s)
             /\ \A x \in Scopes \ {s} : attempt'[x][q].state = attempt[x][q].state

\* Reservations, cancellations and decisions are never undone.
LEMMA EffectFacts ==
    ASSUME NEW q \in Requests, RowsFollowPlan(q), Effect(q)
    PROVE  /\ RowsFollowPlan(q)'
           /\ Closed(q) => Closed(q)'
           /\ \A s \in Scopes : attempt[s][q].state # "none" => attempt'[s][q].state # "none"
           /\ \A s \in Scopes : attempt[s][q].state = "cancelled" =>
                                   attempt'[s][q].state = "cancelled"
           /\ dispatch[q].state = "dispatching" => dispatch'[q].state = "dispatching"
           /\ dispatch[q].state = "cancelled" => dispatch'[q].state = "cancelled"
           /\ dispatch'[q].state = "dispatching" /\ dispatch[q].state # "dispatching" =>
                \A s \in Members(q) : attempt[s][q].state # "none"
           /\ dispatch'[q].recovered => dispatch[q].recovered \/ Closed(q)
<1>1. Members(q) \subseteq Scopes
  BY ReceiptScopes
<1>2. Preparing.state = "preparing" /\ Preparing.recovered = FALSE
  BY DEF Preparing
<1>3. CASE PlanStep(q) /\ SameRows(q)
  <2>1. /\ \A s \in Scopes : attempt'[s][q].state = attempt[s][q].state
        /\ Closed(q) => dispatch[q].state # "preparing"
    BY <1>3 DEF SameRows, Closed
  <2>2. CASE dispatch'[q] = dispatch[q]
    BY <1>1, <2>1, <2>2 DEF RowsFollowPlan, Closed
  <2>3. CASE dispatch[q].state = "none" /\ dispatch'[q] = Preparing
    BY <1>1, <1>2, <2>1, <2>3 DEF RowsFollowPlan, Closed
  <2>4. CASE /\ dispatch[q] = Preparing
             /\ dispatch'[q].state = "cancelled" /\ dispatch'[q].recovered = FALSE
    BY <1>1, <1>2, <2>1, <2>4 DEF RowsFollowPlan, Closed
  <2>5. CASE /\ dispatch[q] = Preparing
             /\ dispatch'[q].state = "dispatching" /\ dispatch'[q].recovered = FALSE
             /\ \A s \in Members(q) : attempt[s][q].state # "none"
    BY <1>1, <1>2, <2>1, <2>5 DEF RowsFollowPlan, Closed
  <2>6. CASE dispatch'[q].state = dispatch[q].state /\ Closed(q)
    BY <1>1, <2>1, <2>6 DEF RowsFollowPlan, Closed
  <2>. QED BY <1>3, <2>2, <2>3, <2>4, <2>5, <2>6 DEF PlanStep
<1>4. ASSUME dispatch'[q] = dispatch[q], NEW s \in Scopes, RowStep(q, s),
             \A x \in Scopes \ {s} : attempt'[x][q].state = attempt[x][q].state
      PROVE  /\ RowsFollowPlan(q)'
             /\ Closed(q) => Closed(q)'
             /\ \A x \in Scopes : attempt[x][q].state # "none" => attempt'[x][q].state # "none"
             /\ \A x \in Scopes : attempt[x][q].state = "cancelled" =>
                                     attempt'[x][q].state = "cancelled"
  BY <1>1, <1>4 DEF RowStep, RowsFollowPlan, Closed
<1>. QED BY <1>3, <1>4 DEF Effect

\* What a step may do to the control state of one request.
Program(q) ==
    /\ Sent(q)' => Sent(q) \/ dispatch'[q].state = "dispatching"
    /\ gw'[q].pc \in {"check", "authorize"} =>
         \/ gw[q].pc \in {"check", "authorize"}
         \/ \A s \in Members(q) : attempt'[s][q].state # "none"
    /\ gw'[q].pc \in {"idle", "read", "write"} =>
         \/ gw[q].pc \in {"idle", "read", "write"} /\ gw'[q].idx = gw[q].idx
         \/ \A i \in 1..Len(Receipts[q]) :
               i < gw'[q].idx => attempt'[Receipts[q][i]][q].state # "none"

Control(q) ==
    /\ Program(q)
    /\ \A w \in wire' \ wire :
         w.req = q => /\ w.kind = "authorize" => Admitted(q)
                      /\ w.kind = "complete" => Sent(q)
    /\ q \in registered' => q \in registered \/ Closed(q)

\* Such a step preserves the invariant of the request.
LEMMA RequestStep ==
    ASSUME NEW q \in Requests, RequestInv(q), Effect(q), Control(q)
    PROVE  RequestInv(q)'
<1>1. Members(q) \subseteq Scopes /\ \A i \in 1..Len(Receipts[q]) : Receipts[q][i] \in Scopes
  BY ReceiptScopes
<1>2. /\ RowsFollowPlan(q) /\ ReservedBeforeAuthorized(q)
      /\ AuthorizedBeforeSent(q) /\ RecoveredIsClosed(q)
  BY DEF RequestInv
<1>3. /\ RowsFollowPlan(q)'
      /\ Closed(q) => Closed(q)'
      /\ \A s \in Scopes : attempt[s][q].state # "none" => attempt'[s][q].state # "none"
      /\ dispatch[q].state = "dispatching" => dispatch'[q].state = "dispatching"
      /\ dispatch'[q].state = "dispatching" /\ dispatch[q].state # "dispatching" =>
            \A s \in Members(q) : attempt[s][q].state # "none"
      /\ dispatch'[q].recovered => dispatch[q].recovered \/ Closed(q)
  BY <1>2, EffectFacts
<1>4. Sent(q)' => dispatch'[q].state = "dispatching"
  BY <1>2, <1>3 DEF Control, Program, AuthorizedBeforeSent
<1>5. ASSUME Admitted(q)' PROVE \A s \in Members(q) : attempt'[s][q].state # "none"
  <2>1. Admitted(q) => \A s \in Members(q) : attempt'[s][q].state # "none"
    BY <1>1, <1>2, <1>3 DEF ReservedBeforeAuthorized
  <2>2. CASE dispatch'[q].state = "dispatching"
    <3>1. dispatch[q].state = "dispatching" => Admitted(q) BY DEF Admitted
    <3>. QED BY <1>1, <1>3, <2>1, <2>2, <3>1
  <2>3. CASE gw'[q].pc \in {"check", "authorize"}
    BY <2>1, <2>3 DEF Control, Program, Admitted
  <2>4. CASE \E w \in wire' : w.kind = "authorize" /\ w.req = q
    BY <2>1, <2>4 DEF Control, Program, Admitted
  <2>. QED BY <1>4, <1>5, <2>2, <2>3, <2>4 DEF Admitted
<1>6. ReservedBeforeAuthorized(q)'
  BY <1>1, <1>2, <1>3, <1>5 DEF ReservedBeforeAuthorized, Control, Program
<1>7. AuthorizedBeforeSent(q)'
  BY <1>2, <1>3, <1>4 DEF AuthorizedBeforeSent, Control
<1>8. RecoveredIsClosed(q)'
  BY <1>2, <1>3 DEF RecoveredIsClosed, Control
<1>. QED BY <1>3, <1>6, <1>7, <1>8 DEF RequestInv

\* A sweep that does not move keeps what it has established.
LEMMA SweepStays ==
    ASSUME TypeOK, NEW k \in Workers, SweepProgress(k), sweep'[k] = sweep[k],
           RequestInv(sweep[k].req), Effect(sweep[k].req)
    PROVE  SweepProgress(k)'
<1> DEFINE q == sweep[k].req
<1>1. q \in Requests BY DEF TypeOK, SweepState
<1>2. \A i \in 1..Len(Receipts[q]) : Receipts[q][i] \in Scopes BY <1>1, ReceiptScopes
<1>3. /\ Closed(q) => Closed(q)'
      /\ \A s \in Scopes : attempt[s][q].state = "cancelled" => attempt'[s][q].state = "cancelled"
      /\ dispatch[q].state = "cancelled" => dispatch'[q].state = "cancelled"
  BY <1>1, EffectFacts DEF RequestInv
<1>4. (sweep[k].pc \in {"register", "finish"} => Closed(sweep[k].req))'
  BY <1>3 DEF SweepProgress, Closed
<1>. QED BY <1>2, <1>3, <1>4 DEF SweepProgress

--------------------------------------------------------------------------
(* Every action has such an effect. *)

\* Rows and plans that a step leaves alone.
LEMMA Untouched ==
    ASSUME NEW q \in Requests, dispatch'[q] = dispatch[q],
           \A s \in Scopes : attempt'[s][q] = attempt[s][q]
    PROVE  Effect(q)
  BY DEF Effect, PlanStep, SameRows

\* The effect of a write on the ledger.
LEMMA ApplyEffect ==
    ASSUME TypeOK, \A q \in Requests : RequestInv(q),
           NEW w \in Write, w.scope \in Members(w.req), Matches(w), Apply(w),
           w.kind = "authorize" => Admitted(w.req),
           w.kind = "complete" => dispatch[w.req].state = "dispatching"
    PROVE  \A q \in Requests : Effect(q)
<1> DEFINE s == w.scope
           r == w.req
<1>1. s \in Scopes /\ r \in Requests /\ s \in Members(r)
  BY ReceiptScopes DEF Write
<1>2. /\ dispatch \in [Requests -> DispatchRow]
      /\ attempt \in [Scopes -> [Requests -> Attempt]]
      /\ attempt[s][r] \in Attempt /\ dispatch[r] \in DispatchRow
  BY <1>1 DEF TypeOK
<1> SUFFICES ASSUME NEW q \in Requests PROVE Effect(q)
  OBVIOUS
<1>3. CASE q # r
  <2>1. CASE w.kind \in {"plan", "authorize", "cancel"}
    <3>1. attempt' = attempt /\ dispatch'[q] = dispatch[q]
      BY <1>1, <1>2, <1>3, <2>1 DEF Apply
    <3>. QED BY <3>1, Untouched
  <2>2. CASE w.kind \in {"reserve", "complete"}
    <3>1. dispatch' = dispatch /\ \E a : attempt' = [attempt EXCEPT ![s][r] = a]
      BY <2>2 DEF Apply
    <3>2. \A x \in Scopes : attempt'[x][q] = attempt[x][q]
      BY <1>1, <1>2, <1>3, <3>1
    <3>. QED BY <3>1, <3>2, Untouched
  <2>. QED BY <2>1, <2>2 DEF Write
<1>4. CASE q = r /\ w.kind = "plan"
  BY <1>1, <1>2, <1>4 DEF Apply, Matches, Effect, PlanStep, SameRows
<1>5. CASE q = r /\ w.kind = "reserve"
  <2>1. NewAttempt("reserved", Bound[r]).state = "reserved"
    BY DEF NewAttempt, NoAttempt
  <2>2. /\ dispatch' = dispatch /\ attempt[s][r].state = "none"
        /\ attempt' = [attempt EXCEPT ![s][r] = NewAttempt("reserved", Bound[r])]
    BY <1>5 DEF Apply, Matches, ReserveMatches
  <2>3. RowStep(r, s)
    BY <1>1, <1>2, <2>1, <2>2 DEF RowStep
  <2>4. \A x \in Scopes \ {s} : attempt'[x][r] = attempt[x][r]
    BY <1>1, <1>2, <2>2
  <2>. QED BY <1>1, <1>5, <2>2, <2>3, <2>4 DEF Effect
<1>6. CASE q = r /\ w.kind = "authorize"
  <2>1. \A x \in Members(r) : attempt[x][r].state # "none"
    BY <1>1, <1>6 DEF RequestInv, ReservedBeforeAuthorized
  <2>2. /\ dispatch[r] = Preparing /\ attempt' = attempt
        /\ dispatch' = [dispatch EXCEPT ![r].state = "dispatching"]
    BY <1>6 DEF Apply, Matches, PlanUnchanged
  <2>3. dispatch'[r].state = "dispatching" /\ dispatch'[r].recovered = FALSE
    BY <1>1, <1>2, <2>2 DEF Preparing, DispatchRow
  <2>. QED BY <1>6, <2>1, <2>2, <2>3 DEF Effect, PlanStep, SameRows
<1>7. CASE q = r /\ w.kind = "cancel"
  <2>1. /\ dispatch[r] = Preparing /\ attempt' = attempt
        /\ dispatch' = [dispatch EXCEPT ![r].state = "cancelled"]
    BY <1>7 DEF Apply, Matches, PlanUnchanged
  <2>2. dispatch'[r].state = "cancelled" /\ dispatch'[r].recovered = FALSE
    BY <1>1, <1>2, <2>1 DEF Preparing, DispatchRow
  <2>. QED BY <1>7, <2>1, <2>2 DEF Effect, PlanStep, SameRows
<1>8. CASE q = r /\ w.kind = "complete"
  <2> DEFINE a == CompletedAttempt(attempt[s][r], IsRejection(r), CompletionTotal(r))
  <2>1. a.state = "settled"
    BY <1>2 DEF CompletedAttempt, Attempt
  <2>2. attempt[s][r].state \notin {"none", "cancelled"}
    BY <1>1, <1>8 DEF RequestInv, ReservedBeforeAuthorized, RowsFollowPlan, Admitted
  <2>3. dispatch' = dispatch /\ attempt' = [attempt EXCEPT ![s][r] = a]
    BY <1>8 DEF Apply
  <2> HIDE DEF a
  <2>4. RowStep(r, s)
    BY <1>1, <1>2, <1>8, <2>1, <2>2, <2>3 DEF RowStep
  <2>5. \A x \in Scopes \ {s} : attempt'[x][r] = attempt[x][r]
    BY <1>1, <1>2, <2>3
  <2>. QED BY <1>1, <1>8, <2>3, <2>4, <2>5 DEF Effect
<1>. QED BY <1>3, <1>4, <1>5, <1>6, <1>7, <1>8 DEF Write

\* A row of a dispatched request moves on to another decided or held state.
LEMMA MoveEffect ==
    ASSUME TypeOK, NEW r \in Requests, NEW s \in Scopes, NEW a,
           attempt' = [attempt EXCEPT ![s][r] = a], dispatch' = dispatch,
           \/ /\ dispatch[r].state = "dispatching"
              /\ attempt[s][r].state \notin {"none", "cancelled"}
              /\ a.state \notin {"none", "cancelled"}
           \/ /\ dispatch[r].state = "cancelled"
              /\ attempt[s][r].state \in {"none", "reserved"} /\ a.state = "cancelled"
    PROVE  \A q \in Requests : Effect(q)
<1>1. attempt \in [Scopes -> [Requests -> Attempt]]
  BY DEF TypeOK
<1>2. attempt'[s][r] = a /\ \A x \in Scopes \ {s} : attempt'[x][r] = attempt[x][r]
  BY <1>1
<1>3. Effect(r)
  BY <1>2 DEF Effect, RowStep
<1>4. ASSUME NEW q \in Requests, q # r PROVE Effect(q)
  <2>1. \A x \in Scopes : attempt'[x][q] = attempt[x][q] BY <1>1, <1>4
  <2>. QED BY <2>1, Untouched
<1>. QED BY <1>3, <1>4

\* A step of one request's gateway does not concern the others.
LEMMA GatewayControl ==
    ASSUME TypeOK, NEW r \in Requests, NEW w,
           w.req = r, w.kind = "authorize" => Admitted(r), w.kind = "complete" => Sent(r),
           \A x \in wire' : x \in wire \/ x = w,
           registered' = registered,
           \A q \in Requests \ {r} : gw'[q] = gw[q],
           Program(r)
    PROVE  \A q \in Requests : Control(q)
<1> SUFFICES ASSUME NEW q \in Requests PROVE Control(q)
  OBVIOUS
<1>1. CASE q = r
  BY <1>1 DEF Control
<1>2. CASE q # r
  <2>1. Program(q) BY <1>2 DEF Program, Sent
  <2>. QED BY <1>2, <2>1 DEF Control
<1>. QED BY <1>1, <1>2

\* Moving a request to another step changes nothing but its step.
LEMMA GotoFacts ==
    ASSUME TypeOK, NEW r \in Requests, NEW pc, Goto(r, pc)
    PROVE  /\ gw'[r].pc = pc /\ gw'[r].idx = gw[r].idx
           /\ \A q \in Requests \ {r} : gw'[q] = gw[q]
<1>1. gw \in [Requests -> GatewayState] /\ gw[r] \in GatewayState
  BY DEF TypeOK
<1>. QED BY <1>1 DEF Goto, GatewayState

\* A gateway step preserves the invariant of every request.
LEMMA GatewayPreserves ==
    ASSUME TypeOK, \A q \in Requests : RequestInv(q), NEW r \in Requests, GatewayNext(r)
    PROVE  /\ \A q \in Requests : Effect(q) /\ Control(q)
           /\ sweep' = sweep
<1> DEFINE c == gw[r]
<1>1. /\ Scope(r) \in Scopes /\ Scope(r) \in Members(r) /\ summary[Scope(r)].version \in Nat
      /\ Receipts[r][1] \in Scopes /\ Receipts[r][1] \in Members(r) /\ c.seen \in Nat
      /\ c.idx \in 1..Len(Receipts[r]) /\ gw \in [Requests -> GatewayState]
      /\ c \in GatewayState
  BY ScopeMember, ControlFields DEF TypeOK, Summary
<1>2. UNCHANGED ledger => \A q \in Requests : Effect(q)
  BY Untouched DEF ledger
<1>3. \A pc : Goto(r, pc) => /\ gw'[r].pc = pc /\ gw'[r].idx = gw[r].idx
                             /\ \A q \in Requests \ {r} : gw'[q] = gw[q]
  BY GotoFacts
<1>4. \A pc \in {"cancel_read", "cancel_write", "denied", "dead"} : Goto(r, pc) => Program(r)
  BY <1>3 DEF Program, Sent
<1>5. \A k \in {"plan", "reserve", "authorize", "cancel", "complete"}, x \in Members(r), v \in Nat :
          LET w == WriteOf(k, r, x, v)
          IN  /\ w \in Write /\ w.kind = k /\ w.req = r /\ w.scope = x
              /\ (/\ Matches(w) /\ Apply(w) /\ (k = "authorize" => Admitted(r))
                  /\ (k = "complete" => dispatch[r].state = "dispatching"))
                    => \A q \in Requests : Effect(q)
              /\ TimeOut(w) => /\ \A q \in Requests : Effect(q)
                               /\ \A y \in wire' : y \in wire \/ y = w
  BY <1>2, ReceiptScopes, WriteOfType, ApplyEffect DEF TimeOut
<1>6. ASSUME registered' = registered, \A q \in Requests \ {r} : gw'[q] = gw[q], Program(r),
             NEW k \in {"plan", "reserve", "authorize", "cancel", "complete"},
             NEW x \in Members(r), NEW v \in Nat,
             \A y \in wire' : y \in wire \/ y = WriteOf(k, r, x, v),
             k = "authorize" => Admitted(r), k = "complete" => Sent(r)
      PROVE  \A q \in Requests : Control(q)
  BY <1>5, <1>6, GatewayControl
<1>7. ASSUME registered' = registered, \A q \in Requests \ {r} : gw'[q] = gw[q], Program(r), wire' = wire
      PROVE  \A q \in Requests : Control(q)
  BY <1>1, <1>6, <1>7
<1>8. ASSUME UNCHANGED <<lapsed, sweep, registered>>, UNCHANGED <<ledger, wire, faults>>, Deny(r)
      PROVE  \A q \in Requests : Effect(q) /\ Control(q)
  BY <1>2, <1>3, <1>4, <1>7, <1>8 DEF Deny
<1>9. ASSUME UNCHANGED <<lapsed, sweep, registered>>,
             NEW pc \in {"cancel_read", "denied"}, ReadFails(r, pc)
      PROVE  \A q \in Requests : Effect(q) /\ Control(q)
  BY <1>2, <1>3, <1>4, <1>7, <1>9 DEF ReadFails
<1>10. CASE InsertPlan(r)
  <2> DEFINE w == WriteOf("plan", r, Scope(r), 0)
  <2>1. CASE Matches(w) /\ Apply(w) /\ Goto(r, "read") /\ UNCHANGED <<wire, faults>>
    <3>1. Program(r) BY <1>3, <1>10, <2>1 DEF InsertPlan, Program, Sent
    <3>. QED BY <1>1, <1>3, <1>5, <1>7, <1>10, <2>1, <3>1 DEF InsertPlan
  <2>2. CASE TimeOut(w) /\ Deny(r)
    <3>1. \A q \in Requests : Effect(q) BY <1>1, <1>5, <2>2
    <3>2. \A y \in wire' : y \in wire \/ y = w BY <1>1, <1>5, <2>2
    <3>3. \A q \in Requests : Control(q)
      BY <1>1, <1>3, <1>4, <1>6, <1>10, <2>2, <3>2 DEF InsertPlan, Deny
    <3>. QED BY <1>10, <3>1, <3>3 DEF InsertPlan
  <2>. QED BY <1>10, <2>1, <2>2 DEF InsertPlan
<1>11. CASE ReadSummary(r)
  <2>1. ASSUME UNCHANGED <<ledger, wire, faults>>,
               \/ gw' = [gw EXCEPT ![r].pc = "write", ![r].seen = summary[Scope(r)].version]
               \/ gw' = [gw EXCEPT ![r].tries = @ + 1]
        PROVE  \A q \in Requests : Effect(q) /\ Control(q)
    <3>1. gw'[r].pc \in {"read", "write"} /\ gw'[r].idx = c.idx
      <4>1. c.pc = "read" BY <1>11 DEF ReadSummary
      <4>2. CASE gw' = [gw EXCEPT ![r].tries = @ + 1] BY <1>1, <4>1, <4>2 DEF GatewayState
      <4>3. CASE gw' = [gw EXCEPT ![r].pc = "write", ![r].seen = summary[Scope(r)].version]
        BY <1>1, <4>3 DEF GatewayState
      <4>. QED BY <2>1, <4>2, <4>3
    <3>2. \A q \in Requests \ {r} : gw'[q] = gw[q]
      BY <1>1, <2>1
    <3>3. Program(r)
      BY <1>11, <3>1 DEF ReadSummary, Program, Sent
    <3>. QED BY <1>2, <1>7, <1>11, <2>1, <3>2, <3>3 DEF ReadSummary
  <2>. QED BY <1>8, <1>9, <1>11, <2>1 DEF ReadSummary
<1>12. CASE WriteReservation(r)
  <2> DEFINE w == WriteOf("reserve", r, Scope(r), c.seen)
  <2>1. CASE /\ Matches(w) /\ Apply(w) /\ UNCHANGED <<wire, faults>>
             /\ gw' = IF c.idx < Len(Receipts[r])
                        THEN [gw EXCEPT ![r].pc = "read", ![r].idx = @ + 1,
                                        ![r].tries = 0, ![r].seen = 0]
                        ELSE [gw EXCEPT ![r].pc = "check", ![r].tries = 0, ![r].seen = 0]
    <3>1. \A q \in Requests : Effect(q) BY <1>1, <1>5, <2>1
    <3>2. \A q \in Requests \ {r} : gw'[q] = gw[q] BY <1>1, <2>1
    <3>3. attempt'[Scope(r)][r].state # "none"
      <4>1. attempt' = [attempt EXCEPT ![Scope(r)][r] = NewAttempt("reserved", Bound[r])]
        BY <2>1 DEF Apply, WriteOf
      <4>2. NewAttempt("reserved", Bound[r]).state = "reserved" BY DEF NewAttempt, NoAttempt
      <4>. QED BY <1>1, <4>1, <4>2 DEF TypeOK
    <3>4. \A i \in 1..Len(Receipts[r]) : i < c.idx => attempt[Receipts[r][i]][r].state # "none"
      BY <1>12 DEF WriteReservation, RequestInv, ReservedBeforeAuthorized
    <3>5. \A s \in Scopes : attempt[s][r].state # "none" => attempt'[s][r].state # "none"
      BY <3>1, EffectFacts DEF RequestInv
    <3>6. \A i \in 1..Len(Receipts[r]) : i <= c.idx => attempt'[Receipts[r][i]][r].state # "none"
      <4> SUFFICES ASSUME NEW i \in 1..Len(Receipts[r]), i <= c.idx
                   PROVE  attempt'[Receipts[r][i]][r].state # "none"
        OBVIOUS
      <4>1. CASE i = c.idx BY <3>3, <4>1 DEF Scope
      <4>2. CASE i # c.idx
        <5>1. i < c.idx BY <1>1, <4>2
        <5>. QED BY <3>4, <3>5, <5>1, ReceiptScopes
      <4>. QED BY <4>1, <4>2
    <3>7. Program(r)
      <4>1. CASE c.idx < Len(Receipts[r])
        <5>1. gw'[r].pc = "read" /\ gw'[r].idx = c.idx + 1
          BY <1>1, <2>1, <4>1 DEF GatewayState
        <5>2. \A i \in 1..Len(Receipts[r]) : i < c.idx + 1 => i <= c.idx
          BY <1>1
        <5>. QED BY <3>6, <5>1, <5>2 DEF Program, Sent
      <4>2. CASE ~ (c.idx < Len(Receipts[r]))
        <5>1. gw'[r].pc = "check"
          BY <1>1, <2>1, <4>2 DEF GatewayState
        <5>2. \A i \in 1..Len(Receipts[r]) : i <= c.idx
          BY <1>1, <4>2
        <5>3. \A s \in Members(r) : attempt'[s][r].state # "none"
          BY <3>6, <5>2 DEF Members
        <5>. QED BY <5>1, <5>3 DEF Program, Sent
      <4>. QED BY <4>1, <4>2
    <3>. QED BY <1>7, <1>12, <2>1, <3>1, <3>2, <3>7 DEF WriteReservation
  <2>2. CASE /\ UNCHANGED <<ledger, wire, faults>>
             /\ gw' = [gw EXCEPT ![r].pc = "read", ![r].tries = @ + 1, ![r].seen = 0]
    <3>1. gw'[r].pc = "read" /\ gw'[r].idx = c.idx BY <1>1, <2>2 DEF GatewayState
    <3>2. \A q \in Requests \ {r} : gw'[q] = gw[q] BY <1>1, <2>2
    <3>3. Program(r) BY <1>12, <3>1 DEF WriteReservation, Program, Sent
    <3>. QED BY <1>2, <1>7, <1>12, <2>2, <3>2, <3>3 DEF WriteReservation
  <2>3. CASE UNCHANGED <<ledger, wire, faults>> /\ Deny(r)
    BY <1>8, <1>12, <2>3 DEF WriteReservation
  <2>4. CASE TimeOut(w) /\ Deny(r)
    <3>1. \A q \in Requests : Effect(q) BY <1>1, <1>5, <2>4
    <3>2. \A y \in wire' : y \in wire \/ y = w BY <1>1, <1>5, <2>4
    <3>3. \A q \in Requests : Control(q)
      BY <1>1, <1>3, <1>4, <1>6, <1>12, <2>4, <3>2 DEF WriteReservation, Deny
    <3>. QED BY <1>12, <3>1, <3>3 DEF WriteReservation
  <2>. QED BY <1>12, <2>1, <2>2, <2>3, <2>4 DEF WriteReservation
<1>13. CASE CheckPlan(r)
  <2>1. CASE UNCHANGED <<ledger, wire, faults>> /\ Goto(r, "authorize")
    <3>1. Program(r) BY <1>3, <1>13, <2>1 DEF CheckPlan, Program, Sent
    <3>. QED BY <1>2, <1>3, <1>7, <1>13, <2>1, <3>1 DEF CheckPlan
  <2>. QED BY <1>8, <1>9, <1>13, <2>1 DEF CheckPlan
<1>14. CASE Authorize(r)
  <2> DEFINE w == WriteOf("authorize", r, Receipts[r][1], 0)
  <2>1. Admitted(r) BY <1>14 DEF Authorize, Admitted
  <2>2. CASE Matches(w) /\ Apply(w) /\ Goto(r, "forwarded") /\ UNCHANGED <<wire, faults>>
    <3>1. dispatch' = [dispatch EXCEPT ![r].state = "dispatching"]
      BY <2>2 DEF Apply, WriteOf
    <3>2. dispatch'[r].state = "dispatching" BY <3>1 DEF TypeOK, DispatchRow
    <3>3. Program(r) BY <1>3, <2>2, <3>2 DEF Program, Sent
    <3>. QED BY <1>1, <1>3, <1>5, <1>7, <1>14, <2>1, <2>2, <3>3 DEF Authorize
  <2>3. CASE UNCHANGED <<ledger, wire, faults>> /\ Deny(r)
    BY <1>8, <1>14, <2>3 DEF Authorize
  <2>4. CASE TimeOut(w) /\ Deny(r)
    <3>1. \A q \in Requests : Effect(q) BY <1>1, <1>5, <2>4
    <3>2. \A y \in wire' : y \in wire \/ y = w BY <1>1, <1>5, <2>4
    <3>3. \A q \in Requests : Control(q)
      BY <1>1, <1>3, <1>4, <1>6, <1>14, <2>1, <2>4, <3>2 DEF Authorize, Deny
    <3>. QED BY <1>14, <3>1, <3>3 DEF Authorize
  <2>. QED BY <1>14, <2>2, <2>3, <2>4 DEF Authorize
<1>15. CASE CancelRead(r)
  BY <1>2, <1>3, <1>4, <1>7, <1>9, <1>15 DEF CancelRead
<1>16. CASE CancelWrite(r)
  <2> DEFINE w == WriteOf("cancel", r, Receipts[r][1], 0)
  <2>1. \A q \in Requests : Effect(q)
    BY <1>1, <1>2, <1>5, <1>16 DEF CancelWrite
  <2>2. \A y \in wire' : y \in wire \/ y = w
    BY <1>1, <1>5, <1>16 DEF CancelWrite
  <2>3. Goto(r, "denied") /\ registered' = registered /\ sweep' = sweep
    BY <1>16 DEF CancelWrite
  <2>. QED BY <1>1, <1>3, <1>4, <1>6, <2>1, <2>2, <2>3
<1>17. CASE Respond(r)
  <2>1. gw'[r].pc \in {"done", "complete"} /\ \A q \in Requests \ {r} : gw'[q] = gw[q]
    BY <1>1, <1>17 DEF Respond, GatewayState
  <2>2. Program(r) BY <1>17, <2>1 DEF Respond, Program, Sent
  <2>. QED BY <1>2, <1>7, <1>17, <2>1, <2>2 DEF Respond
<1>18. CASE CompleteScope(r)
  <2> DEFINE w == WriteOf("complete", r, Scope(r), summary[Scope(r)].version)
  <2>1. Sent(r) /\ dispatch[r].state = "dispatching"
    BY <1>18 DEF CompleteScope, Sent, RequestInv, AuthorizedBeforeSent
  <2>2. Matches(w) BY DEF Matches, WriteOf
  <2>3. \A q \in Requests : Effect(q)
    BY <1>1, <1>2, <1>5, <1>18, <2>1, <2>2 DEF CompleteScope
  <2>4. \A y \in wire' : y \in wire \/ y = w
    BY <1>1, <1>5, <1>18 DEF CompleteScope
  <2>5. gw'[r].pc \in {"complete", "done"} /\ \A q \in Requests \ {r} : gw'[q] = gw[q]
    BY <1>1, <1>18 DEF CompleteScope, GatewayState
  <2>6. Program(r) BY <2>1, <2>5 DEF Program, Sent
  <2>7. registered' = registered /\ sweep' = sweep BY <1>18 DEF CompleteScope
  <2>. QED BY <1>1, <1>6, <2>1, <2>3, <2>4, <2>5, <2>6, <2>7
<1>19. CASE Die(r)
  BY <1>2, <1>3, <1>4, <1>7, <1>19 DEF Die
<1>20. CASE Lapse(r)
  <2>1. Program(r) BY <1>20 DEF Lapse, Program, Sent
  <2>. QED BY <1>2, <1>7, <1>20, <2>1 DEF Lapse
<1>. QED BY <1>10, <1>11, <1>12, <1>13, <1>14, <1>15, <1>16, <1>17, <1>18, <1>19, <1>20
        DEF GatewayNext

\* Steps that leave gateway, wire and registrations alone.
LEMMA ControlStays ==
    ASSUME gw' = gw, \A w \in wire' : w \in wire,
           \A q \in Requests : q \in registered' => q \in registered \/ Closed(q)
    PROVE  \A q \in Requests : Control(q)
  BY DEF Control, Program, Sent

\* A late write preserves the invariant: it lands only where its conditions
\* still hold.
LEMMA LandPreserves ==
    ASSUME TypeOK, \A q \in Requests : RequestInv(q), NEW w \in wire, Land(w)
    PROVE  /\ \A q \in Requests : Effect(q) /\ Control(q)
           /\ sweep' = sweep
<1>1. w \in Write /\ w.req \in Requests /\ w.scope \in Members(w.req)
  BY DEF TypeOK, Write
<1>2. w.kind = "authorize" => Admitted(w.req)
  BY DEF Admitted
<1>3. w.kind = "complete" => dispatch[w.req].state = "dispatching"
  BY <1>1 DEF RequestInv, AuthorizedBeforeSent
<1>4. UNCHANGED ledger => \A q \in Requests : Effect(q)
  BY Untouched DEF ledger
<1>5. \A q \in Requests : Effect(q)
  BY <1>1, <1>2, <1>3, <1>4, ApplyEffect DEF Land
<1>. QED BY <1>5, ControlStays DEF Land

\* Settlement touches only rows of authorized plans that are reserved.
LEMMA SettlementOfSent ==
    ASSUME TypeOK, \A q \in Requests : RequestInv(q),
           NEW s \in Scopes, NEW r \in Requests, SettlementNext(s, r)
    PROVE  /\ s \in Members(r)
           /\ attempt[s][r].state \notin {"none", "cancelled"}
           /\ dispatch[r].state = "dispatching"
<1> DEFINE a == attempt[s][r]
<1>1. a \in Attempt /\ RequestInv(r) BY DEF TypeOK
<1>2. s \in Members(r)
  BY DEF SettlementNext, Settle, FinalizeUncertain, Finalizable, Resolve
<1>3. CASE Settle(s, r)
  <2>1. dispatch[r].state = "dispatching"
    BY <1>1, <1>3 DEF Settle, RequestInv, AuthorizedBeforeSent
  <2>. QED BY <1>1, <1>2, <2>1
         DEF RequestInv, ReservedBeforeAuthorized, RowsFollowPlan, Admitted
<1>4. CASE r \in registered /\ a.state \notin {"none", "cancelled"}
  <2>1. Closed(r) BY <1>1, <1>4 DEF RequestInv, RecoveredIsClosed
  <2>. QED BY <1>2, <1>4, <2>1 DEF Closed
<1>5. FinalizeUncertain(s, r) => r \in registered /\ a.state \notin {"none", "cancelled"}
  BY DEF FinalizeUncertain, Finalizable, TransitionAllowed, HeldStates
<1>6. Resolve(s, r) => r \in registered /\ a.state \notin {"none", "cancelled"}
  BY DEF Resolve, ResolveOutcome, HeldStates
<1>. QED BY <1>3, <1>4, <1>5, <1>6 DEF SettlementNext

\* Settlement and policy preserve the invariant of every request.
LEMMA SettlementPreserves ==
    ASSUME TypeOK, \A q \in Requests : RequestInv(q), NEW s \in Scopes,
           (\E r \in Requests : SettlementNext(s, r)) \/ WritePolicy(s)
    PROVE  /\ \A q \in Requests : Effect(q) /\ Control(q)
           /\ sweep' = sweep
<1>1. ASSUME NEW r \in Requests, SettlementNext(s, r)
      PROVE  (\A q \in Requests : Effect(q) /\ Control(q)) /\ sweep' = sweep
  <2> DEFINE a == attempt[s][r]
  <2>1. a \in Attempt /\ RequestInv(r) BY DEF TypeOK
  <2>2. s \in Members(r) /\ dispatch' = dispatch
    BY <1>1 DEF SettlementNext, Settle, FinalizeUncertain, Finalizable, Resolve
  <2>3. a.state \notin {"none", "cancelled"} /\ dispatch[r].state = "dispatching"
    BY <1>1, SettlementOfSent
  <2>4. /\ SettledAttempt(a, UsageCharge(r)).state = "settled"
        /\ TransitionedAttempt(a, "upper_bound").state = "upper_bound"
        /\ ResolvedAttempt(a).state = "released"
    BY <2>1 DEF SettledAttempt, UsageCharge, TransitionedAttempt, ResolvedAttempt, Attempt
  <2>5. PICK b : attempt' = [attempt EXCEPT ![s][r] = b] /\ b.state \in {"settled", "upper_bound", "released"}
    BY <1>1, <2>4 DEF SettlementNext, Settle, FinalizeUncertain, Resolve
  <2>6. \A q \in Requests : Effect(q)
    BY <2>2, <2>3, <2>5, MoveEffect
  <2>. QED BY <1>1, <2>6, ControlStays DEF SettlementNext, Settle, FinalizeUncertain, Resolve
<1>2. CASE WritePolicy(s)
  BY <1>2, Untouched, ControlStays DEF WritePolicy
<1>. QED BY <1>1, <1>2

\* A step of a sweep preserves the invariants of the requests and its own.
LEMMA SweepPreserves ==
    ASSUME TypeOK, \A q \in Requests : RequestInv(q), NEW k \in Workers, SweepProgress(k),
           SweepNext(k) \/ SweepFails(k)
    PROVE  /\ \A q \in Requests : Effect(q) /\ Control(q)
           /\ \A j \in Workers \ {k} : sweep'[j] = sweep[j]
           /\ SweepProgress(k)'
<1> DEFINE r == sweep[k].req
           i == sweep[k].idx
<1>1. /\ r \in Requests /\ i \in 1..Len(Receipts[r]) /\ sweep \in [Workers -> SweepState]
      /\ RequestInv(r) /\ sweep[k] \in SweepState
  <2>1. r \in Requests /\ i \in 1..2 /\ i <= Len(Receipts[r]) BY DEF TypeOK, SweepState
  <2>. QED BY <2>1, ReceiptScopes DEF TypeOK
<1>2. UNCHANGED ledger => \A q \in Requests : Effect(q)
  BY Untouched DEF ledger
<1>3. gw' = gw /\ \A j \in Workers \ {k} : sweep'[j] = sweep[j]
  BY <1>1 DEF SweepNext, SweepFails, PickPlan, RecoverCancel, Compensate, Register, Finish, SweepGoto
<1>4. \A pc : SweepGoto(k, pc) => /\ sweep'[k].pc = pc /\ sweep'[k].req = r /\ sweep'[k].idx = i
  BY <1>1 DEF SweepGoto, SweepState
<1>5. sweep'[k].pc = "idle" \/ (sweep'[k].pc = "cancel" /\ sweep'[k].idx = 1) => SweepProgress(k)'
  BY DEF SweepProgress
<1>6. ASSUME NEW q \in Requests, PickPlan(k, q)
      PROVE  (\A p \in Requests : Effect(p) /\ Control(p)) /\ SweepProgress(k)'
  <2>1. UNCHANGED <<ledger, wire, registered>> BY <1>6 DEF PickPlan
  <2>2. sweep'[k] = [pc |-> IF dispatch[q].state = "dispatching" THEN "register" ELSE "cancel",
                     req |-> q, idx |-> 1]
    BY <1>1, <1>6 DEF PickPlan
  <2>3. CASE dispatch[q].state = "dispatching"
    <3>1. Closed(q)' BY <2>1, <2>3 DEF Closed, ledger
    <3>2. sweep'[k].pc = "register" /\ sweep'[k].req = q BY <2>2, <2>3
    <3>3. SweepProgress(k)' BY <3>1, <3>2 DEF SweepProgress, Closed
    <3>. QED BY <1>2, <1>3, <2>1, <3>3, ControlStays
  <2>4. CASE dispatch[q].state # "dispatching"
    <3>1. sweep'[k].pc = "cancel" /\ sweep'[k].idx = 1 BY <2>2, <2>4
    <3>. QED BY <1>2, <1>3, <1>5, <2>1, <3>1, ControlStays
  <2>. QED BY <2>3, <2>4
<1>7. CASE RecoverCancel(k)
  <2> DEFINE w == WriteOf("cancel", r, Receipts[r][1], 0)
  <2>1. /\ w \in Write /\ w.scope \in Members(w.req) /\ w.kind = "cancel" /\ w.req = r
    BY <1>1, ScopeMember, WriteOfType
  <2>2. Matches(w) /\ Apply(w) => /\ \A q \in Requests : Effect(q)
                                 /\ dispatch'[r].state = "cancelled"
    <3>1. Apply(w) => dispatch' = [dispatch EXCEPT ![r].state = "cancelled"]
      BY DEF Apply, WriteOf
    <3>2. Apply(w) => dispatch'[r].state = "cancelled"
      BY <1>1, <3>1 DEF TypeOK, DispatchRow
    <3>. QED BY <2>1, <3>2, ApplyEffect
  <2>3. \A q \in Requests : Effect(q)
    BY <1>2, <1>7, <2>2 DEF RecoverCancel, TimeOut
  <2>4. \A q \in Requests : Control(q)
    <3>1. \A x \in wire' : x \in wire \/ x = w BY <1>7 DEF RecoverCancel, TimeOut
    <3>2. registered' = registered BY <1>7 DEF RecoverCancel
    <3>. QED BY <1>3, <2>1, <3>1, <3>2 DEF Control, Program, Sent
  <2>5. SweepProgress(k)'
    <3>1. CASE SweepGoto(k, "idle") BY <1>4, <1>5, <3>1
    <3>2. CASE SweepGoto(k, "compensate") /\ dispatch'[r].state = "cancelled"
      <4>1. i = 1 BY <1>7 DEF RecoverCancel, SweepProgress
      <4>2. \A n \in 1..Len(Receipts[r]) : ~ (n < i) BY <4>1
      <4>. QED BY <1>4, <3>2, <4>2 DEF SweepProgress
    <3>3. dispatch[r].state = "cancelled" /\ UNCHANGED ledger => dispatch'[r].state = "cancelled"
      BY DEF ledger
    <3>. QED BY <1>7, <2>2, <3>1, <3>2, <3>3 DEF RecoverCancel
  <2>. QED BY <1>3, <2>3, <2>4, <2>5
<1>8. CASE Compensate(k)
  <2> DEFINE s == Receipts[r][i]
  <2>1. s \in Scopes /\ s \in Members(r) BY <1>1, ReceiptScopes DEF Members
  <2>2. /\ dispatch[r].state = "cancelled" /\ dispatch' = dispatch
        /\ attempt[s][r].state \in {"none", "reserved", "cancelled"}
        /\ attempt \in [Scopes -> [Requests -> Attempt]] /\ attempt[s][r] \in Attempt
    BY <1>1, <1>8, <2>1 DEF Compensate, RequestInv, RowsFollowPlan, TypeOK
  <2>3. (\A q \in Requests : Effect(q)) /\ attempt'[s][r].state = "cancelled"
    <3>1. /\ TransitionedAttempt(attempt[s][r], "cancelled").state = "cancelled"
          /\ NewAttempt("cancelled", Bound[r]).state = "cancelled"
      BY <2>2 DEF TransitionedAttempt, NewAttempt, NoAttempt, Attempt
    <3>2. CASE attempt' = attempt /\ attempt[s][r].state = "cancelled"
      BY <2>2, <3>2, Untouched
    <3>3. ASSUME attempt[s][r].state \in {"none", "reserved"}, NEW b, b.state = "cancelled",
                 attempt' = [attempt EXCEPT ![s][r] = b]
          PROVE  (\A q \in Requests : Effect(q)) /\ attempt'[s][r].state = "cancelled"
      <4>1. attempt'[s][r] = b BY <1>1, <2>1, <2>2, <3>3
      <4>. QED BY <1>1, <2>1, <2>2, <3>3, <4>1, MoveEffect
    <3>. QED BY <1>8, <2>2, <3>1, <3>2, <3>3 DEF Compensate, CompensateReceipt
  <2>4. \A q \in Requests : Control(q)
    BY <1>3, <1>8, ControlStays DEF Compensate
  <2>5. \A n \in 1..Len(Receipts[r]) : n <= i => attempt'[Receipts[r][n]][r].state = "cancelled"
    <3> SUFFICES ASSUME NEW n \in 1..Len(Receipts[r]), n <= i
                 PROVE  attempt'[Receipts[r][n]][r].state = "cancelled"
      OBVIOUS
    <3>1. CASE n = i BY <2>3, <3>1
    <3>2. CASE n # i
      <4>1. n < i BY <1>1, <3>2
      <4>2. attempt[Receipts[r][n]][r].state = "cancelled"
        BY <1>8, <4>1 DEF Compensate, SweepProgress
      <4>. QED BY <1>1, <2>3, <4>2, ReceiptScopes, EffectFacts DEF RequestInv
    <3>. QED BY <3>1, <3>2
  <2>6. SweepProgress(k)'
    <3>1. CASE i < Len(Receipts[r])
      <4>1. sweep'[k].pc = "compensate" /\ sweep'[k].req = r /\ sweep'[k].idx = i + 1
        BY <1>1, <1>8, <3>1 DEF Compensate, SweepState
      <4>2. \A n \in 1..Len(Receipts[r]) : n < i + 1 => n <= i BY <1>1
      <4>. QED BY <2>2, <2>5, <4>1, <4>2 DEF SweepProgress
    <3>2. CASE ~ (i < Len(Receipts[r]))
      <4>1. sweep'[k].pc = "register" /\ sweep'[k].req = r
        BY <1>1, <1>8, <3>2 DEF Compensate, SweepState
      <4>2. \A n \in 1..Len(Receipts[r]) : n <= i BY <1>1, <3>2
      <4>3. \A x \in Members(r) : attempt'[x][r].state = "cancelled"
        BY <2>5, <4>2 DEF Members
      <4>. QED BY <2>2, <4>1, <4>3 DEF SweepProgress, Closed
    <3>. QED BY <3>1, <3>2
  <2>. QED BY <1>3, <2>3, <2>4, <2>6
<1>9. CASE Register(k)
  <2>1. Closed(r) /\ UNCHANGED ledger BY <1>9 DEF Register, SweepProgress
  <2>2. \A q \in Requests : Control(q)
    BY <1>3, <1>9, <2>1, ControlStays DEF Register
  <2>3. sweep'[k].pc = "finish" /\ sweep'[k].req = r BY <1>4, <1>9 DEF Register
  <2>4. SweepProgress(k)' BY <2>1, <2>3 DEF SweepProgress, Closed, ledger
  <2>. QED BY <1>2, <1>3, <2>1, <2>2, <2>4
<1>10. CASE Finish(k)
  <2>1. Closed(r) BY <1>10 DEF Finish, SweepProgress
  <2>2. /\ attempt' = attempt /\ dispatch \in [Requests -> DispatchRow]
        /\ dispatch' = [dispatch EXCEPT ![r].recovered = TRUE]
    BY <1>10 DEF Finish, TypeOK
  <2>3. dispatch'[r].state = dispatch[r].state
    BY <1>1, <2>2 DEF DispatchRow
  <2>4. \A q \in Requests : Effect(q)
    <3>1. Effect(r) BY <2>1, <2>2, <2>3 DEF Effect, PlanStep, SameRows
    <3>2. \A q \in Requests \ {r} : dispatch'[q] = dispatch[q] BY <1>1, <2>2
    <3>. QED BY <2>2, <3>1, <3>2, Untouched
  <2>5. sweep'[k].pc = "idle" BY <1>4, <1>10 DEF Finish
  <2>6. \A q \in Requests : Control(q) BY <1>3, <1>10, ControlStays DEF Finish
  <2>. QED BY <1>3, <1>5, <2>4, <2>5, <2>6
<1>11. CASE SweepFails(k)
  <2>1. sweep'[k].pc = "idle" BY <1>4, <1>11 DEF SweepFails
  <2>2. \A q \in Requests : Control(q) BY <1>3, <1>11, ControlStays DEF SweepFails
  <2>. QED BY <1>2, <1>3, <1>5, <1>11, <2>1, <2>2 DEF SweepFails
<1>. QED BY <1>3, <1>6, <1>7, <1>8, <1>9, <1>10, <1>11 DEF SweepNext

--------------------------------------------------------------------------
(* The theorems. *)

\* Nothing is planned, reserved or swept at first, so the invariant holds.
LEMMA InitInv == Init => IInv
<1> SUFFICES ASSUME Init PROVE IInv
  OBVIOUS
<1>1. TypeOK BY InitTyped
<1>2. ASSUME NEW r \in Requests PROVE RequestInv(r)
  <2>1. /\ dispatch[r].state = "none" /\ dispatch[r].recovered = FALSE /\ gw[r].pc = "idle"
        /\ gw[r].idx = 1 /\ wire = {} /\ registered = {}
        /\ \A s \in Scopes : attempt[s][r].state = "none"
    BY DEF Init, NoAttempt
  <2>2. \A i \in 1..Len(Receipts[r]) : ~ (i < gw[r].idx) BY <2>1
  <2>. QED BY <2>1, <2>2 DEF RequestInv, RowsFollowPlan, ReservedBeforeAuthorized, Admitted, Sent,
                            AuthorizedBeforeSent, RecoveredIsClosed
<1>3. ASSUME NEW k \in Workers PROVE SweepProgress(k)
  BY DEF Init, SweepProgress
<1>. QED BY <1>1, <1>2, <1>3 DEF IInv

\* Every step preserves the invariant, by the lemma of the actor that takes it.
LEMMA NextInv == IInv /\ [Next]_vars => IInv'
<1> SUFFICES ASSUME IInv, [Next]_vars PROVE IInv'
  OBVIOUS
<1>1. /\ TypeOK /\ \A q \in Requests : RequestInv(q)
      /\ \A k \in Workers : SweepProgress(k)
  BY DEF IInv
<1>2. TypeOK'
  BY <1>1, NextTyped
<1>3. ASSUME \A q \in Requests : Effect(q) /\ Control(q) PROVE \A q \in Requests : RequestInv(q)'
  BY <1>1, <1>3, RequestStep
<1>4. ASSUME \A q \in Requests : Effect(q), NEW k \in Workers, sweep'[k] = sweep[k]
      PROVE  SweepProgress(k)'
  <2>1. sweep[k].req \in Requests BY <1>1 DEF TypeOK, SweepState
  <2>. QED BY <1>1, <1>4, <2>1, SweepStays
<1>5. CASE UNCHANGED vars
  BY <1>2, <1>5 DEF vars, IInv, RequestInv, RowsFollowPlan, ReservedBeforeAuthorized, Admitted, Sent,
                    AuthorizedBeforeSent, RecoveredIsClosed, Closed, SweepProgress
<1>6. CASE \/ \E r \in Requests : GatewayNext(r)
           \/ \E w \in wire : Land(w)
           \/ \E s \in Scopes, r \in Requests : SettlementNext(s, r)
           \/ \E s \in Scopes : WritePolicy(s)
  <2>1. (\A q \in Requests : Effect(q) /\ Control(q)) /\ sweep' = sweep
    BY <1>1, <1>6, GatewayPreserves, LandPreserves, SettlementPreserves
  <2>. QED BY <1>2, <1>3, <1>4, <2>1 DEF IInv
<1>7. ASSUME NEW k \in Workers, SweepNext(k) \/ SweepFails(k) PROVE IInv'
  <2>1. /\ \A q \in Requests : Effect(q) /\ Control(q)
        /\ \A j \in Workers \ {k} : sweep'[j] = sweep[j]
        /\ SweepProgress(k)'
    BY <1>1, <1>7, SweepPreserves
  <2>2. \A j \in Workers : SweepProgress(j)' BY <1>4, <2>1
  <2>. QED BY <1>2, <1>3, <2>1, <2>2 DEF IInv
<1>. QED BY <1>5, <1>6, <1>7 DEF Next

\* Whatever gateway, storage, sweeps and settlement do, and however late a
\* write lands, rows follow their plan: reserved before it is authorized,
\* authorized before the request is sent, closed before the sweep lets go.
THEOREM Invariance == Spec => []IInv
  BY InitInv, NextInv, PTL DEF Spec

\* Whatever the gateway forwards is backed by a durable authorization and by
\* a reservation in every scope that nobody has cancelled.
THEOREM ForwardedBacked == Spec => []ForwardedIsBacked
<1>1. IInv => ForwardedIsBacked
  <2> SUFFICES ASSUME IInv, NEW r \in Requests, Sent(r)
               PROVE  /\ dispatch[r].state = "dispatching"
                      /\ \A s \in Members(r) : attempt[s][r].state \notin {"none", "cancelled"}
    BY DEF ForwardedIsBacked
  <2>1. dispatch[r].state = "dispatching" BY DEF IInv, RequestInv, AuthorizedBeforeSent
  <2>2. Members(r) \subseteq Scopes BY ReceiptScopes
  <2>. QED BY <2>1, <2>2 DEF IInv, RequestInv, ReservedBeforeAuthorized, Admitted, RowsFollowPlan
<1>. QED BY <1>1, Invariance, PTL

\* A cancelled plan that left the recovery pages has a cancelled row in every
\* scope: no reservation of it survives or arrives later.
THEOREM RecoveredReleased == Spec => []RecoveredIsReleased
<1>1. IInv => RecoveredIsReleased
  BY DEF IInv, RequestInv, RecoveredIsClosed, Closed, RecoveredIsReleased
<1>. QED BY <1>1, Invariance, PTL

--------------------------------------------------------------------------
(* One step of the protocol is one move of the ledger: of one plan, or of   *)
(* one row together with its summary.                                       *)

Admits(s, r) == AdmissionError(summary[s], Bound[r]) = ""

PlanMoves(r, to) ==
    LET from == dispatch[r].state
    IN  \/ from = "none" /\ to = "preparing"
        \/ from = to
        \/ from = "preparing" /\ to = "cancelled"
        \/ /\ from = "preparing" /\ to = "dispatching"
           /\ \A s \in Members(r) : attempt[s][r].state = "reserved"

PlanMove(r) ==
    /\ UNCHANGED <<summary, attempt>>
    /\ \E d \in DispatchRow :
          dispatch' = [dispatch EXCEPT ![r] = d] /\ PlanMoves(r, d.state)

RowMoves(s, r, to) ==
    LET from == attempt[s][r].state
    IN  \/ from = "none" /\ to = "reserved" /\ s \in Members(r)
        \/ dispatch[r].state = "cancelled" /\ from \in {"none", "reserved"} /\ to = "cancelled"
        \/ /\ dispatch[r].state = "dispatching"
           /\ \/ from \in HeldStates /\ to = "upper_bound"
              \/ from \in HeldStates \union {"upper_bound"} /\ to = "released"
              \/ from \notin {"none", "cancelled"} /\ to = "settled"

RowMove(s, r) ==
    /\ dispatch' = dispatch
    /\ \E x \in Summary, a \in Attempt :
          /\ summary' = [summary EXCEPT ![s] = x]
          /\ Books(summary[s], x, attempt[s][r], a)
          /\ attempt' = [attempt EXCEPT ![s][r] = a]
          /\ RowMoves(s, r, a.state)
          /\ a.state = "reserved" =>
                Admits(s, r) /\ x = ReservedSummary(summary[s], Bound[r])

KeepsBalances(m, n) == n.active = m.active /\ n.upper = m.upper /\ n.confirmed = m.confirmed

PolicyMove(s) ==
    /\ UNCHANGED <<attempt, dispatch>>
    /\ \E x \in Summary : /\ summary' = [summary EXCEPT ![s] = x]
                          /\ x = summary[s] \/ x.version > summary[s].version
                          /\ KeepsBalances(summary[s], x)

LedgerMove ==
    \/ UNCHANGED ledger
    \/ \E r \in Requests : PlanMove(r)
    \/ \E s \in Scopes, r \in Requests : RowMove(s, r)
    \/ \E s \in Scopes : PolicyMove(s)

\* A reservation of r decided on version v of summary m: while the summary is
\* still that version, it admits the request.
FreshOn(m, r, v) ==
    /\ v <= m.version
    /\ v = m.version => AdmissionError(m, Bound[r]) = ""

Fresh(s, r, v) == FreshOn(summary[s], r, v)

\* Every reservation about to be written, or on the wire, was decided so.
Decided ==
    /\ \A r \in Requests : gw[r].pc = "write" => Fresh(Scope(r), r, gw[r].seen)
    /\ \A w \in wire : w.kind = "reserve" => Fresh(w.scope, w.req, w.seen)

\* A conditional write that matches is one move.
LEMMA ApplyMove ==
    ASSUME TypeOK, \A q \in Requests : RequestInv(q),
           NEW w \in Write, w.scope \in Members(w.req), Matches(w), Apply(w),
           w.kind = "authorize" => Admitted(w.req),
           w.kind = "complete" => dispatch[w.req].state = "dispatching",
           w.kind = "reserve" => Fresh(w.scope, w.req, w.seen)
    PROVE  LedgerMove
<1> DEFINE s == w.scope
           r == w.req
<1>1. s \in Scopes /\ r \in Requests /\ s \in Members(r) /\ Members(r) \subseteq Scopes
  BY ReceiptScopes DEF Write
<1>2. /\ summary[s] \in Summary /\ attempt[s][r] \in Attempt /\ dispatch[r] \in DispatchRow
      /\ dispatch \in [Requests -> DispatchRow] /\ RequestInv(r)
  BY <1>1 DEF TypeOK
<1>3. CASE w.kind = "plan"
  <2>1. /\ dispatch[r].state = "none" /\ dispatch' = [dispatch EXCEPT ![r] = Preparing]
        /\ UNCHANGED <<summary, attempt>>
    BY <1>3 DEF Matches, Apply
  <2>2. Preparing \in DispatchRow /\ Preparing.state = "preparing"
    BY DEF Preparing, DispatchRow
  <2>3. PlanMove(r) BY <2>1, <2>2 DEF PlanMove, PlanMoves
  <2>. QED BY <1>1, <2>3 DEF LedgerMove
<1>4. CASE w.kind \in {"authorize", "cancel"}
  <2>1. PICK to \in {"dispatching", "cancelled"} :
           /\ dispatch' = [dispatch EXCEPT ![r].state = to]
           /\ to = "dispatching" => w.kind = "authorize"
    BY <1>4 DEF Apply
  <2>2. dispatch[r].state = "preparing" /\ UNCHANGED <<summary, attempt>>
    <3>1. PlanUnchanged(r) BY <1>4 DEF Matches
    <3>2. UNCHANGED <<summary, attempt>> BY <1>4 DEF Apply
    <3>. QED BY <3>1, <3>2 DEF PlanUnchanged, Preparing
  <2> DEFINE d == [dispatch[r] EXCEPT !.state = to]
  <2>3. d \in DispatchRow /\ d.state = to
    BY <1>2 DEF DispatchRow
  <2>4. to = "dispatching" => \A x \in Members(r) : attempt[x][r].state = "reserved"
    BY <1>1, <1>2, <2>1, <2>2 DEF RequestInv, ReservedBeforeAuthorized, RowsFollowPlan
  <2>5. dispatch' = [dispatch EXCEPT ![r] = d]
    BY <2>1
  <2> HIDE DEF d
  <2>6. PlanMove(r) BY <2>2, <2>3, <2>4, <2>5 DEF PlanMove, PlanMoves
  <2>. QED BY <1>1, <2>6 DEF LedgerMove
<1>5. CASE w.kind = "reserve"
  <2> DEFINE x == ReservedSummary(summary[s], Bound[r])
             a == NewAttempt("reserved", Bound[r])
  <2>1. /\ summary[s].version = w.seen /\ attempt[s][r].state = "none"
        /\ summary' = [summary EXCEPT ![s] = x]
        /\ attempt' = [attempt EXCEPT ![s][r] = a]
        /\ dispatch' = dispatch
    BY <1>5 DEF Matches, ReserveMatches, Apply
  <2>2. x \in Summary /\ a \in Attempt /\ a.state = "reserved"
    <3>1. Bound[r] \in Nat BY <1>1, AmountsAssumption
    <3>2. x \in Summary /\ a \in Attempt BY <1>2, <3>1, ReservedTypes DEF AttemptStates
    <3>3. a.state = "reserved" BY DEF NewAttempt, NoAttempt
    <3>. QED BY <3>2, <3>3
  <2>3. Books(summary[s], x, attempt[s][r], a)
    <3>1. Bound[r] \in Nat BY <1>1, AmountsAssumption
    <3>. QED BY <1>2, <2>1, <3>1, ReservedBooks
  <2>4. Admits(s, r) BY <1>5, <2>1, Zenon DEF Fresh, FreshOn, Admits
  <2>5. RowMoves(s, r, "reserved") BY <1>1, <2>1 DEF RowMoves
  <2> HIDE DEF x, a
  <2>6. RowMove(s, r) BY <2>1, <2>2, <2>3, <2>4, <2>5 DEF RowMove, x
  <2>. QED BY <1>1, <2>6 DEF LedgerMove
<1>6. CASE w.kind = "complete"
  <2> DEFINE n == CompletionTotal(r)
             t == IsRejection(r)
             x == CompletedSummary(summary[s], attempt[s][r], n)
             a == CompletedAttempt(attempt[s][r], t, n)
  <2>1. n \in Nat /\ t \in BOOLEAN
    BY <1>1, AmountsAssumption DEF CompletionTotal, IsRejection
  <2>2. /\ x \in Summary /\ a \in Attempt
    BY <1>2, <2>1, CompletedTypes
  <2>3. a.state = "settled" BY <1>2 DEF CompletedAttempt, Attempt
  <2>4. Books(summary[s], x, attempt[s][r], a)
    BY <1>2, <2>1, CompletedBooks
  <2>5. /\ summary' = [summary EXCEPT ![s] = x]
        /\ attempt' = [attempt EXCEPT ![s][r] = a]
        /\ dispatch' = dispatch
    BY <1>6 DEF Apply
  <2>6. attempt[s][r].state \notin {"none", "cancelled"} /\ dispatch[r].state = "dispatching"
    BY <1>1, <1>2, <1>6 DEF RequestInv, ReservedBeforeAuthorized, RowsFollowPlan, Admitted
  <2>7. RowMoves(s, r, "settled") BY <2>6 DEF RowMoves
  <2> HIDE DEF x, a
  <2>8. RowMove(s, r) BY <2>2, <2>3, <2>4, <2>5, <2>7 DEF RowMove
  <2>. QED BY <1>1, <2>8 DEF LedgerMove
<1>. QED BY <1>3, <1>4, <1>5, <1>6 DEF Write

\* Reading a summary writes nothing, and goes on to write only what the
\* summary admits.
LEMMA SummaryRead ==
    ASSUME NEW r \in Requests, ReadSummary(r)
    PROVE  /\ UNCHANGED <<summary, attempt, dispatch, wire>>
           /\ \/ Deny(r)
              \/ gw' = [gw EXCEPT ![r].tries = @ + 1]
              \/ /\ gw' = [gw EXCEPT ![r].pc = "write", ![r].seen = summary[Scope(r)].version]
                 /\ Admits(Scope(r), r)
<1> DEFINE s == Scope(r)
           error == AdmissionError(summary[s], Bound[r])
           pick == [gw EXCEPT ![r].pc = "write", ![r].seen = summary[s].version]
           again == [gw EXCEPT ![r].tries = @ + 1]
<1>1. UNCHANGED <<ledger, wire>>
      /\ (Deny(r) \/ gw' = again \/ (gw' = pick /\ error = ""))
  <2>1. \/ error = "" /\ gw' = pick /\ UNCHANGED <<ledger, wire, faults>>
        \/ (IF RetryLeft(r) THEN gw' = again ELSE Deny(r)) /\ UNCHANGED <<ledger, wire, faults>>
        \/ Deny(r) /\ UNCHANGED <<ledger, wire, faults>>
        \/ ReadFails(r, "cancel_read")
    BY Zenon DEF ReadSummary
  <2>2. ReadFails(r, "cancel_read") => Deny(r) /\ UNCHANGED <<ledger, wire>>
    BY DEF ReadFails, Deny
  <2>3. UNCHANGED <<ledger, wire, faults>> => UNCHANGED <<ledger, wire>>
    OBVIOUS
  <2> HIDE DEF error, pick, again
  <2>. QED BY <2>1, <2>2, <2>3, Zenon
<1>2. UNCHANGED <<ledger, wire>> => UNCHANGED <<summary, attempt, dispatch, wire>>
  BY DEF ledger
<1>. QED BY <1>1, <1>2, Zenon DEF Admits

\* A gateway step is at most one move.
LEMMA GatewayMove ==
    ASSUME TypeOK, \A q \in Requests : RequestInv(q), Decided,
           NEW r \in Requests, GatewayNext(r)
    PROVE  LedgerMove
<1> USE DEF LedgerMove
<1>1. /\ Scope(r) \in Scopes /\ Scope(r) \in Members(r) /\ summary[Scope(r)].version \in Nat
      /\ Receipts[r][1] \in Scopes /\ Receipts[r][1] \in Members(r) /\ gw[r].seen \in Nat
      /\ RequestInv(r)
  BY ScopeMember, ControlFields DEF TypeOK, Summary
<1>2. \A k \in {"plan", "reserve", "authorize", "cancel", "complete"}, s \in Members(r), v \in Nat :
         LET w == WriteOf(k, r, s, v)
         IN  /\ w \in Write /\ w.kind = k /\ w.req = r /\ w.scope = s /\ w.seen = v
             /\ TimeOut(w) => UNCHANGED ledger
  BY ReceiptScopes, WriteOfType DEF TimeOut
<1>3. ASSUME InsertPlan(r) \/ Authorize(r) \/ CancelWrite(r) PROVE LedgerMove
  <2>1. PICK k \in {"plan", "authorize", "cancel"}, s \in Members(r) :
           LET w == WriteOf(k, r, s, 0)
           IN  /\ UNCHANGED ledger \/ TimeOut(w) \/ (Matches(w) /\ Apply(w))
               /\ k = "authorize" => gw[r].pc = "authorize"
    BY <1>1, <1>3 DEF InsertPlan, Authorize, CancelWrite
  <2>2. k = "authorize" => Admitted(r) BY <2>1 DEF Admitted
  <2> DEFINE w == WriteOf(k, r, s, 0)
  <2>3. w \in Write /\ w.kind = k /\ w.req = r /\ w.scope = s /\ (TimeOut(w) => UNCHANGED ledger)
    BY <1>2
  <2> HIDE DEF w
  <2>4. Matches(w) /\ Apply(w) => LedgerMove BY <2>2, <2>3, ApplyMove
  <2>. QED BY <2>1, <2>3, <2>4 DEF w
<1>4. CASE WriteReservation(r)
  <2> DEFINE w == WriteOf("reserve", r, Scope(r), gw[r].seen)
  <2>1. UNCHANGED ledger \/ TimeOut(w) \/ (Matches(w) /\ Apply(w))
    BY <1>4 DEF WriteReservation
  <2>2. /\ w \in Write /\ w.kind = "reserve" /\ w.req = r /\ w.scope = Scope(r)
        /\ w.seen = gw[r].seen /\ (TimeOut(w) => UNCHANGED ledger)
    BY <1>1, <1>2
  <2>3. Fresh(w.scope, w.req, w.seen) BY <1>4, <2>2 DEF WriteReservation, Decided
  <2> HIDE DEF w
  <2>4. Matches(w) /\ Apply(w) => LedgerMove BY <1>1, <2>2, <2>3, ApplyMove
  <2>. QED BY <2>1, <2>2, <2>4
<1>5. CASE CompleteScope(r)
  <2> DEFINE w == WriteOf("complete", r, Scope(r), summary[Scope(r)].version)
  <2>1. UNCHANGED ledger \/ TimeOut(w) \/ Apply(w)
    BY <1>5 DEF CompleteScope
  <2>2. /\ w \in Write /\ w.kind = "complete" /\ w.req = r /\ w.scope = Scope(r)
        /\ w.seen = summary[Scope(r)].version /\ (TimeOut(w) => UNCHANGED ledger)
    BY <1>1, <1>2
  <2>3. dispatch[r].state = "dispatching"
    BY <1>1, <1>5 DEF CompleteScope, RequestInv, AuthorizedBeforeSent, Sent
  <2> HIDE DEF w
  <2>4. Matches(w) BY <2>2 DEF Matches
  <2>5. Apply(w) => LedgerMove BY <1>1, <2>2, <2>3, <2>4, ApplyMove
  <2>. QED BY <2>1, <2>2, <2>5
<1>6. ASSUME \/ ReadSummary(r) \/ CheckPlan(r) \/ CancelRead(r) \/ Respond(r) \/ Die(r) \/ Lapse(r)
      PROVE  UNCHANGED ledger
  <2>1. ReadSummary(r) => UNCHANGED ledger BY SummaryRead DEF ledger
  <2>2. CheckPlan(r) => UNCHANGED ledger BY DEF CheckPlan, ReadFails
  <2>3. CancelRead(r) => UNCHANGED ledger BY DEF CancelRead, ReadFails
  <2>4. Respond(r) \/ Die(r) \/ Lapse(r) => UNCHANGED ledger BY DEF Respond, Die, Lapse
  <2>. QED BY <1>6, <2>1, <2>2, <2>3, <2>4
<1>. QED BY <1>3, <1>4, <1>5, <1>6 DEF GatewayNext

\* A late write is one move, or none.
LEMMA LandMove ==
    ASSUME TypeOK, \A q \in Requests : RequestInv(q), Decided, NEW w \in wire, Land(w)
    PROVE  LedgerMove
<1>1. w \in Write /\ w.req \in Requests /\ w.scope \in Members(w.req)
  BY DEF TypeOK, Write
<1>2. /\ w.kind = "authorize" => Admitted(w.req)
      /\ w.kind = "complete" => dispatch[w.req].state = "dispatching"
      /\ w.kind = "reserve" => Fresh(w.scope, w.req, w.seen)
  BY <1>1 DEF Admitted, RequestInv, AuthorizedBeforeSent, Decided
<1>3. Matches(w) /\ Apply(w) => LedgerMove
  BY <1>1, <1>2, ApplyMove
<1>. QED BY <1>3 DEF Land, LedgerMove

\* What compensation does to one scope of a cancelled plan.
LEMMA CompensateMove ==
    ASSUME TypeOK, NEW s \in Scopes, NEW r \in Requests, CompensateReceipt(s, r)
    PROVE  \/ UNCHANGED <<summary, attempt>>
           \/ \E x \in Summary, a \in Attempt :
                 /\ summary' = [summary EXCEPT ![s] = x]
                 /\ Books(summary[s], x, attempt[s][r], a)
                 /\ attempt' = [attempt EXCEPT ![s][r] = a]
                 /\ attempt[s][r].state \in {"none", "reserved"} /\ a.state = "cancelled"
<1> DEFINE m == summary[s]
           o == attempt[s][r]
<1>1. m \in Summary /\ o \in Attempt /\ Bound[r] \in Nat
  BY AmountsAssumption DEF TypeOK
<1>2. CASE o.state = "reserved"
  <2> DEFINE x == TransitionedSummary(m, o, "cancelled")
             a == TransitionedAttempt(o, "cancelled")
  <2>1. x \in Summary /\ a \in Attempt
    BY <1>1, TransitionedTypes DEF AttemptStates
  <2>2. Books(m, x, o, a)
    BY <1>1, <1>2, TransitionedBooks DEF TransitionAllowed
  <2>3. a.state = "cancelled" BY <1>1 DEF TransitionedAttempt, Attempt
  <2>4. summary' = [summary EXCEPT ![s] = x] /\ attempt' = [attempt EXCEPT ![s][r] = a]
    BY <1>2 DEF CompensateReceipt
  <2> HIDE DEF x, a
  <2>. QED BY <1>2, <2>1, <2>2, <2>3, <2>4
<1>3. CASE o.state = "none"
  <2> DEFINE x == [m EXCEPT !.version = @ + 1]
             a == NewAttempt("cancelled", Bound[r])
  <2>1. x \in Summary
    <3> HIDE DEF m
    <3>. QED BY <1>1 DEF Summary
  <2>2. Books(m, x, o, a) BY <1>1, <1>3, TombstoneBooks
  <2>3. a \in Attempt BY <1>1, ReservedTypes DEF AttemptStates
  <2>4. a.state = "cancelled" BY DEF NewAttempt, NoAttempt
  <2>5. summary' = [summary EXCEPT ![s] = x] /\ attempt' = [attempt EXCEPT ![s][r] = a]
    BY <1>3 DEF CompensateReceipt
  <2> HIDE DEF x, a
  <2>. QED BY <1>3, <2>1, <2>2, <2>3, <2>4, <2>5
<1>4. CASE o.state \notin {"none", "reserved"}
  BY <1>4 DEF CompensateReceipt
<1>. QED BY <1>2, <1>3, <1>4

\* A step of a sweep is at most one move.
LEMMA SweepMove ==
    ASSUME TypeOK, \A q \in Requests : RequestInv(q), NEW k \in Workers, SweepProgress(k),
           SweepNext(k) \/ SweepFails(k)
    PROVE  LedgerMove
<1> USE DEF LedgerMove
<1> DEFINE r == sweep[k].req
           i == sweep[k].idx
<1>1. /\ r \in Requests /\ i \in 1..Len(Receipts[r]) /\ RequestInv(r)
      /\ dispatch[r] \in DispatchRow
  <2>1. r \in Requests /\ i \in 1..2 /\ i <= Len(Receipts[r]) BY DEF TypeOK, SweepState
  <2>. QED BY <2>1, ReceiptScopes DEF TypeOK
<1>2. ASSUME \/ \E q \in Requests : PickPlan(k, q)
             \/ Register(k) \/ SweepFails(k)
      PROVE  UNCHANGED ledger
  BY <1>2 DEF PickPlan, Register, SweepFails
<1>3. CASE RecoverCancel(k)
  <2> DEFINE w == WriteOf("cancel", r, Receipts[r][1], 0)
  <2>1. UNCHANGED ledger \/ TimeOut(w) \/ (Matches(w) /\ Apply(w))
    BY <1>3 DEF RecoverCancel
  <2>2. w \in Write /\ w.scope \in Members(w.req) /\ w.kind = "cancel"
    BY <1>1, ScopeMember, WriteOfType
  <2> HIDE DEF w
  <2>3. Matches(w) /\ Apply(w) => LedgerMove BY <2>2, ApplyMove
  <2>. QED BY <2>1, <2>3 DEF TimeOut
<1>4. CASE Compensate(k)
  <2> DEFINE s == Receipts[r][i]
  <2>1. s \in Scopes BY <1>1, ReceiptScopes
  <2>3. dispatch[r].state = "cancelled" /\ dispatch' = dispatch /\ CompensateReceipt(s, r)
    BY <1>4 DEF Compensate
  <2> HIDE DEF s, r
  <2>4. UNCHANGED <<summary, attempt>>
        \/ \E x \in Summary, a \in Attempt :
              /\ summary' = [summary EXCEPT ![s] = x]
              /\ Books(summary[s], x, attempt[s][r], a)
              /\ attempt' = [attempt EXCEPT ![s][r] = a]
              /\ attempt[s][r].state \in {"none", "reserved"} /\ a.state = "cancelled"
    BY <1>1, <2>1, <2>3, CompensateMove
  <2>5. UNCHANGED <<summary, attempt>> => UNCHANGED ledger BY <2>3 DEF ledger
  <2>6. (\E x \in Summary, a \in Attempt :
              /\ summary' = [summary EXCEPT ![s] = x]
              /\ Books(summary[s], x, attempt[s][r], a)
              /\ attempt' = [attempt EXCEPT ![s][r] = a]
              /\ attempt[s][r].state \in {"none", "reserved"} /\ a.state = "cancelled")
        => RowMove(s, r)
    BY <2>3 DEF RowMove, RowMoves
  <2>. QED BY <1>1, <2>1, <2>4, <2>5, <2>6
<1>5. CASE Finish(k)
  <2> DEFINE d == [dispatch[r] EXCEPT !.recovered = TRUE]
  <2>1. d \in DispatchRow /\ d.state = dispatch[r].state BY <1>1 DEF DispatchRow
  <2>2. dispatch' = [dispatch EXCEPT ![r] = d] /\ UNCHANGED <<summary, attempt>>
    BY <1>5 DEF Finish
  <2> HIDE DEF d
  <2>3. PlanMove(r) BY <2>1, <2>2 DEF PlanMove, PlanMoves
  <2>. QED BY <1>1, <2>3
<1>. QED BY <1>2, <1>3, <1>4, <1>5 DEF SweepNext

\* Settlement moves one row of an authorized plan; policy moves none.
LEMMA SettlementMove ==
    ASSUME TypeOK, \A q \in Requests : RequestInv(q), NEW s \in Scopes,
           (\E r \in Requests : SettlementNext(s, r)) \/ WritePolicy(s)
    PROVE  LedgerMove
<1>0. summary[s] \in Summary
  BY DEF TypeOK
<1>1. ASSUME NEW r \in Requests, SettlementNext(s, r) PROVE RowMove(s, r)
  <2> DEFINE a == attempt[s][r]
             c == UsageCharge(r)
  <2>1. a \in Attempt /\ c \in Charge /\ c.key # "resolution"
    BY AmountsAssumption DEF TypeOK, UsageCharge, Charge, EvidenceKeys
  <2>2. dispatch' = dispatch /\ dispatch[r].state = "dispatching" /\ a.state \notin {"none", "cancelled"}
    BY <1>1, SettlementOfSent DEF SettlementNext, Settle, FinalizeUncertain, Resolve
  <2>3. CASE Settle(s, r)
    <3> DEFINE x == SettledSummary(summary[s], a, c)
               b == SettledAttempt(a, c)
    <3>1. x \in Summary /\ b \in Attempt /\ Books(summary[s], x, a, b)
      BY <1>0, <2>1, <2>3, SettledTypes, SettledBooks DEF Settle
    <3>2. b.state = "settled" BY <2>1 DEF SettledAttempt, Attempt
    <3>3. summary' = [summary EXCEPT ![s] = x] /\ attempt' = [attempt EXCEPT ![s][r] = b]
      BY <2>3 DEF Settle
    <3> HIDE DEF x, b
    <3>. QED BY <2>2, <3>1, <3>2, <3>3 DEF RowMove, RowMoves
  <2>4. CASE FinalizeUncertain(s, r)
    <3> DEFINE x == TransitionedSummary(summary[s], a, "upper_bound")
               b == TransitionedAttempt(a, "upper_bound")
    <3>1. x \in Summary /\ b \in Attempt /\ Books(summary[s], x, a, b)
      <4>1. TransitionAllowed(a.state, "upper_bound") BY <2>4 DEF FinalizeUncertain, Finalizable
      <4>. QED BY <1>0, <2>1, <4>1, TransitionedTypes, TransitionedBooks DEF AttemptStates
    <3>2. b.state = "upper_bound" BY <2>1 DEF TransitionedAttempt, Attempt
    <3>3. summary' = [summary EXCEPT ![s] = x] /\ attempt' = [attempt EXCEPT ![s][r] = b]
      BY <2>4 DEF FinalizeUncertain
    <3>4. a.state \in HeldStates
      BY <2>4 DEF FinalizeUncertain, Finalizable, TransitionAllowed
    <3> HIDE DEF x, b
    <3>. QED BY <2>2, <3>1, <3>2, <3>3, <3>4 DEF RowMove, RowMoves
  <2>5. CASE Resolve(s, r)
    <3> DEFINE x == ResolvedSummary(summary[s], a)
               b == ResolvedAttempt(a)
    <3>0. a.state \in HeldStates \union {"upper_bound"}
      BY <2>5 DEF Resolve, ResolveOutcome
    <3>1. x \in Summary /\ b \in Attempt /\ Books(summary[s], x, a, b)
      BY <1>0, <2>1, <3>0, ResolvedTypes, ResolvedBooks
    <3>2. b.state = "released" BY <2>1 DEF ResolvedAttempt, Attempt
    <3>3. summary' = [summary EXCEPT ![s] = x] /\ attempt' = [attempt EXCEPT ![s][r] = b]
      BY <2>5 DEF Resolve
    <3> HIDE DEF x, b
    <3>. QED BY <2>2, <3>0, <3>1, <3>2, <3>3 DEF RowMove, RowMoves
  <2>. QED BY <1>1, <2>3, <2>4, <2>5 DEF SettlementNext
<1>2. CASE WritePolicy(s)
  <2>1. PICK limit \in Limits, enforce \in BOOLEAN, enabled \in BOOLEAN :
           summary' = [summary EXCEPT ![s] =
              PolicySummary(summary[s], summary[s].revision + 1, limit, enforce, enabled)]
    BY <1>2 DEF WritePolicy
  <2> DEFINE x == PolicySummary(summary[s], summary[s].revision + 1, limit, enforce, enabled)
  <2>2. limit \in Nat /\ summary[s].revision + 1 \in Nat
    BY <1>0, AmountsAssumption DEF Summary
  <2>3. x \in Summary BY <1>0, <2>2, PolicyFields
  <2>4. x = summary[s] \/ x.version > summary[s].version
    BY <1>0, <2>2, PolicyFields
  <2>5. KeepsBalances(summary[s], x) BY <1>0, <2>2, PolicyBalances DEF KeepsBalances
  <2>6. UNCHANGED <<attempt, dispatch>> BY <1>2 DEF WritePolicy
  <2>7. summary' = [summary EXCEPT ![s] = x] BY <2>1
  <2> HIDE DEF x
  <2>8. PolicyMove(s) BY <2>3, <2>4, <2>5, <2>6, <2>7 DEF PolicyMove
  <2>. QED BY <2>8 DEF LedgerMove
<1>. QED BY <1>1, <1>2 DEF LedgerMove

\* What is known of every reachable state, decisions included.
DInv == IInv /\ Decided

LEMMA OneMove == DInv /\ [Next]_vars => LedgerMove
<1> SUFFICES ASSUME DInv, [Next]_vars PROVE LedgerMove
  OBVIOUS
<1>1. /\ TypeOK /\ Decided /\ \A q \in Requests : RequestInv(q)
      /\ \A k \in Workers : SweepProgress(k)
  BY DEF DInv, IInv
<1>2. CASE UNCHANGED vars
  BY <1>2 DEF vars, ledger, LedgerMove
<1>. QED BY <1>1, <1>2, GatewayMove, LandMove, SweepMove, SettlementMove DEF Next

\* A move leaves a summary as it is or gives it a new version.
LEMMA SummaryMoves ==
    ASSUME TypeOK, LedgerMove, NEW s \in Scopes
    PROVE  summary'[s] = summary[s] \/ summary'[s].version > summary[s].version
<1>1. summary \in [Scopes -> Summary]
  BY DEF TypeOK
<1>2. ASSUME NEW z \in Scopes, NEW x \in Summary, summary' = [summary EXCEPT ![z] = x],
             x = summary[z] \/ x.version > summary[z].version
      PROVE  summary'[s] = summary[s] \/ summary'[s].version > summary[s].version
  BY <1>1, <1>2
<1>3. CASE UNCHANGED summary
  BY <1>3
<1>4. \/ UNCHANGED summary
      \/ \E z \in Scopes, x \in Summary :
            /\ summary' = [summary EXCEPT ![z] = x]
            /\ x = summary[z] \/ x.version > summary[z].version
  <2>1. ASSUME NEW z \in Scopes, NEW r \in Requests, RowMove(z, r)
        PROVE  \E x \in Summary : /\ summary' = [summary EXCEPT ![z] = x]
                                  /\ x.version > summary[z].version
    BY <2>1, Zenon DEF RowMove, Books
  <2>2. ASSUME NEW z \in Scopes, PolicyMove(z)
        PROVE  \E x \in Summary : /\ summary' = [summary EXCEPT ![z] = x]
                                  /\ x = summary[z] \/ x.version > summary[z].version
    BY <2>2, Zenon DEF PolicyMove
  <2>3. ASSUME NEW r \in Requests, PlanMove(r) PROVE UNCHANGED summary
    BY <2>3 DEF PlanMove
  <2>4. UNCHANGED ledger => UNCHANGED summary
    BY DEF ledger
  <2>. QED BY <2>1, <2>2, <2>3, <2>4, Zenon DEF LedgerMove
<1>. QED BY <1>2, <1>3, <1>4

\* A decision stays fresh until the summary it was taken on is replaced.
LEMMA FreshStays ==
    ASSUME TypeOK, LedgerMove, NEW s \in Scopes, NEW r, NEW v \in Nat,
           FreshOn(summary[s], r, v), summary'[s].version \in Nat
    PROVE  FreshOn(summary'[s], r, v)
<1>1. summary[s].version \in Nat /\ v <= summary[s].version
  <2>1. v <= summary[s].version BY Zenon DEF FreshOn
  <2>. QED BY <2>1 DEF TypeOK, Summary
<1>2. CASE summary'[s] = summary[s]
  BY <1>2
<1>3. CASE summary'[s].version > summary[s].version
  <2>1. v <= summary'[s].version /\ v # summary'[s].version
    BY <1>1, <1>3
  <2>. QED BY <2>1, Zenon DEF FreshOn
<1>. QED BY <1>2, <1>3, SummaryMoves

\* What a step may do to the decisions not yet written.
DecisionsKept ==
    /\ \A q \in Requests : gw'[q].pc = "write" =>
          \/ gw'[q] = gw[q]
          \/ /\ UNCHANGED summary
             /\ gw'[q].seen = summary[Receipts[q][gw'[q].idx]].version
             /\ Admits(Receipts[q][gw'[q].idx], q)
    /\ \A w \in wire' \ wire : w.kind = "reserve" =>
          /\ w.req \in Requests /\ gw[w.req].pc = "write"
          /\ w.scope = Scope(w.req) /\ w.seen = gw[w.req].seen

LEMMA GatewayChooses ==
    ASSUME TypeOK, NEW r \in Requests, GatewayNext(r)
    PROVE  DecisionsKept
<1>1. gw \in [Requests -> GatewayState] /\ gw[r] \in GatewayState
  BY DEF TypeOK
<1>2. \A pc : Goto(r, pc) => /\ gw'[r].pc = pc
                             /\ \A q \in Requests \ {r} : gw'[q] = gw[q]
  BY GotoFacts
<1>3. ASSUME \A q \in Requests \ {r} : gw'[q] = gw[q],
             gw'[r].pc # "write",
             \A x \in wire' \ wire : x.kind # "reserve"
      PROVE  DecisionsKept
  BY <1>3 DEF DecisionsKept
<1>4. \A k, s, v : LET w == WriteOf(k, r, s, v)
                   IN  /\ w.kind = k /\ w.req = r /\ w.scope = s /\ w.seen = v
                       /\ TimeOut(w) => wire' = wire \union {w}
  BY DEF WriteOf, TimeOut
<1>5. \A pc : ReadFails(r, pc) => Goto(r, pc) /\ wire' = wire
  BY DEF ReadFails
<1>6. CASE InsertPlan(r)
  <2> DEFINE w == WriteOf("plan", r, Scope(r), 0)
  <2>1. /\ wire' = wire \/ wire' = wire \union {w}
        /\ Goto(r, "read") \/ Goto(r, "cancel_read")
    BY <1>4, <1>6 DEF InsertPlan, Deny
  <2>2. w.kind = "plan" BY <1>4
  <2> HIDE DEF w
  <2>. QED BY <1>2, <1>3, <2>1, <2>2
<1>7. CASE ReadSummary(r)
  <2>1. UNCHANGED <<summary, wire>> BY <1>7, SummaryRead
  <2>2. CASE Deny(r) BY <1>2, <1>3, <2>1, <2>2 DEF Deny
  <2>3. CASE gw' = [gw EXCEPT ![r].tries = @ + 1]
    <3>1. \A q \in Requests \ {r} : gw'[q] = gw[q] BY <1>1, <2>3
    <3>2. gw'[r].pc = gw[r].pc BY <1>1, <2>3 DEF GatewayState
    <3>3. gw[r].pc = "read" BY <1>7, Zenon DEF ReadSummary
    <3>. QED BY <1>3, <2>1, <3>1, <3>2, <3>3
  <2>4. CASE /\ gw' = [gw EXCEPT ![r].pc = "write", ![r].seen = summary[Scope(r)].version]
             /\ Admits(Scope(r), r)
    <3>1. \A q \in Requests \ {r} : gw'[q] = gw[q] BY <1>1, <2>4
    <3>2. gw'[r].idx = gw[r].idx /\ gw'[r].seen = summary[Scope(r)].version
      BY <1>1, <2>4 DEF GatewayState
    <3>3. Receipts[r][gw'[r].idx] = Scope(r) BY <3>2 DEF Scope
    <3>. QED BY <2>1, <2>4, <3>1, <3>2, <3>3 DEF DecisionsKept
  <2>. QED BY <1>7, <2>2, <2>3, <2>4, SummaryRead
<1>8. CASE WriteReservation(r)
  <2> DEFINE w == WriteOf("reserve", r, Scope(r), gw[r].seen)
  <2>1. \A q \in Requests \ {r} : gw'[q] = gw[q]
    <3>1. \/ Deny(r)
          \/ \E g : gw' = [gw EXCEPT ![r] = g]
      BY <1>8 DEF WriteReservation
    <3>. QED BY <1>1, <1>2, <3>1 DEF Deny
  <2>2. gw'[r].pc # "write"
    <3>1. CASE Deny(r) BY <1>2, <3>1 DEF Deny
    <3>2. CASE gw' = [gw EXCEPT ![r].pc = "read", ![r].idx = @ + 1, ![r].tries = 0, ![r].seen = 0]
      BY <1>1, <3>2 DEF GatewayState
    <3>3. CASE gw' = [gw EXCEPT ![r].pc = "check", ![r].tries = 0, ![r].seen = 0]
      BY <1>1, <3>3 DEF GatewayState
    <3>4. CASE gw' = [gw EXCEPT ![r].pc = "read", ![r].tries = @ + 1, ![r].seen = 0]
      BY <1>1, <3>4 DEF GatewayState
    <3>. QED BY <1>8, <3>1, <3>2, <3>3, <3>4 DEF WriteReservation
  <2>3. wire' = wire \/ wire' = wire \union {w}
    BY <1>4, <1>8 DEF WriteReservation
  <2>4. /\ gw[r].pc = "write" /\ w.req = r /\ w.scope = Scope(r) /\ w.seen = gw[r].seen
    BY <1>4, <1>8 DEF WriteReservation
  <2> HIDE DEF w
  <2>. QED BY <2>1, <2>2, <2>3, <2>4 DEF DecisionsKept
<1>9. CASE CheckPlan(r)
  BY <1>2, <1>3, <1>5, <1>9 DEF CheckPlan, Deny
<1>10. CASE Authorize(r)
  <2> DEFINE w == WriteOf("authorize", r, Receipts[r][1], 0)
  <2>1. /\ wire' = wire \/ wire' = wire \union {w}
        /\ Goto(r, "forwarded") \/ Goto(r, "cancel_read")
    BY <1>4, <1>10 DEF Authorize, Deny
  <2>2. w.kind = "authorize" BY <1>4
  <2> HIDE DEF w
  <2>. QED BY <1>2, <1>3, <2>1, <2>2
<1>11. CASE CancelRead(r)
  BY <1>2, <1>3, <1>5, <1>11 DEF CancelRead
<1>12. CASE CancelWrite(r)
  <2> DEFINE w == WriteOf("cancel", r, Receipts[r][1], 0)
  <2>1. (wire' = wire \/ wire' = wire \union {w}) /\ Goto(r, "denied")
    BY <1>4, <1>12 DEF CancelWrite
  <2>2. w.kind = "cancel" BY <1>4
  <2> HIDE DEF w
  <2>. QED BY <1>2, <1>3, <2>1, <2>2
<1>13. CASE Respond(r)
  <2>1. PICK o \in {"usage", "rejection", "incomplete"} :
           gw' = [gw EXCEPT ![r].pc = IF o = "incomplete" THEN "done" ELSE "complete",
                            ![r].idx = 1, ![r].outcome = o]
    BY <1>13 DEF Respond
  <2>2. gw'[r].pc # "write" /\ \A q \in Requests \ {r} : gw'[q] = gw[q]
    BY <1>1, <2>1 DEF GatewayState
  <2>. QED BY <1>3, <1>13, <2>2 DEF Respond
<1>14. CASE CompleteScope(r)
  <2> DEFINE w == WriteOf("complete", r, Scope(r), summary[Scope(r)].version)
  <2>1. wire' = wire \/ wire' = wire \union {w}
    BY <1>4, <1>14 DEF CompleteScope
  <2>2. /\ gw[r].pc = "complete"
        /\ \/ gw' = [gw EXCEPT ![r].idx = @ + 1]
           \/ gw' = [gw EXCEPT ![r].pc = "done"]
    BY <1>14 DEF CompleteScope
  <2>3. gw'[r].pc # "write" /\ \A q \in Requests \ {r} : gw'[q] = gw[q]
    BY <1>1, <2>2 DEF GatewayState
  <2>4. w.kind = "complete" BY <1>4
  <2> HIDE DEF w
  <2>. QED BY <1>3, <2>1, <2>3, <2>4
<1>15. CASE Die(r)
  BY <1>2, <1>3, <1>15 DEF Die
<1>16. CASE Lapse(r)
  BY <1>16 DEF Lapse, DecisionsKept
<1>. QED BY <1>6, <1>7, <1>8, <1>9, <1>10, <1>11, <1>12, <1>13, <1>14, <1>15, <1>16 DEF GatewayNext

\* Nobody else decides on reservations.
LEMMA StepChooses ==
    ASSUME TypeOK, [Next]_vars
    PROVE  DecisionsKept
<1>1. ASSUME gw' = gw, \A w \in wire' \ wire : w.kind # "reserve" PROVE DecisionsKept
  BY <1>1 DEF DecisionsKept
<1>2. CASE UNCHANGED vars
  BY <1>1, <1>2 DEF vars
<1>3. ASSUME NEW w \in wire, Land(w) PROVE DecisionsKept
  BY <1>1, <1>3 DEF Land
<1>4. ASSUME NEW k \in Workers, SweepNext(k) \/ SweepFails(k) PROVE DecisionsKept
  <2>1. gw' = gw
    BY <1>4 DEF SweepNext, SweepFails, PickPlan, RecoverCancel, Compensate, Register, Finish
  <2>2. wire' = wire \/ wire' = wire \union {WriteOf("cancel", sweep[k].req, Receipts[sweep[k].req][1], 0)}
    BY <1>4 DEF SweepNext, SweepFails, PickPlan, RecoverCancel, TimeOut, Compensate, Register, Finish
  <2>3. WriteOf("cancel", sweep[k].req, Receipts[sweep[k].req][1], 0).kind = "cancel"
    BY DEF WriteOf
  <2>. QED BY <1>1, <2>1, <2>2, <2>3
<1>5. ASSUME NEW s \in Scopes, (\E r \in Requests : SettlementNext(s, r)) \/ WritePolicy(s)
      PROVE  DecisionsKept
  BY <1>1, <1>5 DEF SettlementNext, Settle, FinalizeUncertain, Resolve, WritePolicy
<1>. QED BY <1>2, <1>3, <1>4, <1>5, GatewayChooses DEF Next

\* Initially nothing is decided.
LEMMA InitDecided == Init => DInv
<1> SUFFICES ASSUME Init PROVE Decided
  BY InitInv DEF DInv
<1>1. wire = {} /\ \A r \in Requests : gw[r].pc = "idle"
  BY DEF Init
<1>. QED BY <1>1 DEF Decided

\* Whoever waited, retried or timed out in between.
LEMMA NextDecided == DInv /\ [Next]_vars => DInv'
<1> SUFFICES ASSUME DInv, [Next]_vars PROVE Decided'
  BY NextInv DEF DInv
<1>1. TypeOK /\ TypeOK' /\ Decided /\ DecisionsKept /\ LedgerMove
  BY NextTyped, StepChooses, OneMove DEF DInv, IInv
<1>2. \A s \in Scopes : summary'[s].version \in Nat
  BY <1>1 DEF TypeOK, Summary
<1>3. \A s \in Scopes, r \in Requests, v \in Nat :
         FreshOn(summary[s], r, v) => FreshOn(summary'[s], r, v)
  BY <1>1, <1>2, FreshStays
<1>4. ASSUME NEW q \in Requests, gw'[q].pc = "write"
      PROVE  FreshOn(summary'[Receipts[q][gw'[q].idx]], q, gw'[q].seen)
  <2> DEFINE s == Receipts[q][gw'[q].idx]
             v == gw'[q].seen
  <2>1. s \in Scopes /\ v \in Nat /\ summary[s].version \in Nat
    <3>1. gw'[q].idx \in 1..2 /\ gw'[q].idx <= Len(Receipts[q]) /\ v \in Nat
      BY <1>1 DEF TypeOK, GatewayState
    <3>2. s \in Scopes BY <3>1, ReceiptScopes
    <3>. QED BY <1>1, <3>1, <3>2 DEF TypeOK, Summary
  <2>2. FreshOn(summary[s], q, v)
    <3>1. CASE gw'[q] = gw[q]
      BY <1>1, <1>4, <3>1 DEF Decided, Fresh, Scope
    <3>2. CASE v = summary[s].version /\ Admits(s, q)
      <4>1. v <= summary[s].version BY <2>1, <3>2
      <4>. QED BY <3>2, <4>1, Zenon DEF FreshOn, Admits
    <3>. QED BY <1>1, <1>4, <3>1, <3>2 DEF DecisionsKept
  <2>. QED BY <1>3, <2>1, <2>2
<1>5. ASSUME NEW w \in wire', w.kind = "reserve"
      PROVE  FreshOn(summary'[w.scope], w.req, w.seen)
  <2>1. w \in Write /\ w.scope \in Scopes /\ w.req \in Requests /\ w.seen \in Nat
    BY <1>1 DEF TypeOK, Write
  <2>2. FreshOn(summary[w.scope], w.req, w.seen)
    BY <1>1, <1>5 DEF Decided, DecisionsKept, Fresh
  <2>. QED BY <1>3, <2>1, <2>2
<1>. QED BY <1>4, <1>5 DEF Decided, Scope, Fresh

\* A reservation decided on a stale summary never lands: every reservation
\* that reaches the table, however late, was admitted by that very version.
THEOREM DecisionsAreFresh == Spec => []DInv
  BY InitDecided, NextDecided, PTL DEF Spec

\* A step that reserves in an enforced scope leaves it within its limit,
\* whatever was read, retried, timed out or changed by policy before it.
THEOREM NeverOverAdmits == Spec => NoOverAdmission
<1> DEFINE Within ==
      \A s \in Scopes, r \in Requests :
          attempt[s][r].state = "none" /\ attempt'[s][r].state = "reserved" =>
              /\ summary'[s].enabled
              /\ summary'[s].enforce => Available(summary'[s]) >= 0
<1>1. DInv /\ [Next]_vars => Within
  <2> SUFFICES ASSUME DInv, [Next]_vars, NEW s \in Scopes, NEW r \in Requests,
                      attempt[s][r].state = "none", attempt'[s][r].state = "reserved"
               PROVE  /\ summary'[s].enabled
                      /\ summary'[s].enforce => Available(summary'[s]) >= 0
    OBVIOUS
  <2>1. /\ summary \in [Scopes -> Summary] /\ attempt \in [Scopes -> [Requests -> Attempt]]
        /\ Bound[r] \in Nat
    BY AmountsAssumption DEF DInv, IInv, TypeOK
  <2>2. PICK z \in Scopes, q \in Requests : RowMove(z, q)
    <3>1. attempt' # attempt OBVIOUS
    <3>2. UNCHANGED ledger \/ (\E q \in Requests : PlanMove(q)) \/ (\E z \in Scopes : PolicyMove(z))
            => attempt' = attempt
      BY DEF ledger, PlanMove, PolicyMove
    <3>. QED BY <3>1, <3>2, OneMove, Zenon DEF LedgerMove
  <2>3. PICK x \in Summary, a \in Attempt :
           /\ summary' = [summary EXCEPT ![z] = x]
           /\ attempt' = [attempt EXCEPT ![z][q] = a]
           /\ a.state = "reserved" =>
                 Admits(z, q) /\ x = ReservedSummary(summary[z], Bound[q])
    BY <2>2, Zenon DEF RowMove
  <2>4. s = z /\ r = q /\ attempt'[s][r] = a /\ summary'[s] = x
    BY <2>1, <2>3
  <2>5. Admits(s, r) /\ summary'[s] = ReservedSummary(summary[s], Bound[r])
    BY <2>3, <2>4
  <2>6. summary[s] \in Summary BY <2>1
  <2>7. LET n == ReservedSummary(summary[s], Bound[r])
        IN  Admits(s, r) => n.enabled /\ (n.enforce => Available(n) >= 0)
    BY <2>1, <2>6, AdmittedFits, Zenon DEF Admits
  <2>. QED BY <2>5, <2>7, Zenon
<1>2. Within => [\A s \in Scopes, r \in Requests :
          attempt[s][r].state = "none" /\ attempt'[s][r].state = "reserved" =>
              /\ summary'[s].enabled
              /\ summary'[s].enforce => Available(summary'[s]) >= 0]_vars
  OBVIOUS
<1>. QED BY <1>1, <1>2, DecisionsAreFresh, PTL DEF Spec, NoOverAdmission

--------------------------------------------------------------------------
(* The protocol implements the contract: every move of the ledger is a step *)
(* of AdmissionContract, or changes neither a decision nor a slot.          *)

DecisionMap == [r \in Requests |-> Decision(r)]
SlotMap == [s \in Scopes |-> [r \in Requests |-> Slot(s, r)]]

ContractStep == Contract!Next \/ UNCHANGED <<DecisionMap, SlotMap>>

\* How a row's state appears in the contract.
SlotOf(state) == CASE state = "none" -> "free"
                   [] state = "cancelled" -> "closed"
                   [] state = "settled" -> "charged"
                   [] state = "released" -> "waived"
                   [] state = "upper_bound" -> "bounded"
                   [] state \in HeldStates -> "held"

LEMMA SlotIs ==
    ASSUME NEW s, NEW r
    PROVE  Slot(s, r) = SlotOf(attempt[s][r].state)
  BY DEF Slot, SlotOf

\* The slot of each state, and the states of each slot.
LEMMA SlotValues ==
    ASSUME NEW state \in AttemptStates
    PROVE  /\ state = "none" <=> SlotOf(state) = "free"
           /\ state = "cancelled" <=> SlotOf(state) = "closed"
           /\ state = "settled" <=> SlotOf(state) = "charged"
           /\ state = "released" <=> SlotOf(state) = "waived"
           /\ state = "upper_bound" <=> SlotOf(state) = "bounded"
           /\ state \in HeldStates <=> SlotOf(state) = "held"
           /\ SlotOf(state) \in {"free", "closed", "charged", "waived", "bounded", "held"}
  BY DEF SlotOf, AttemptStates, HeldStates

\* A plan that moves is granted, refused, or still undecided.
LEMMA PlanContract ==
    ASSUME TypeOK, NEW r \in Requests, PlanMove(r)
    PROVE  ContractStep
<1>1. PICK d \in DispatchRow : dispatch' = [dispatch EXCEPT ![r] = d] /\ PlanMoves(r, d.state)
  BY DEF PlanMove
<1>2. dispatch \in [Requests -> DispatchRow] /\ attempt' = attempt
  BY DEF TypeOK, PlanMove
<1>3. dispatch'[r] = d /\ \A q \in Requests \ {r} : dispatch'[q] = dispatch[q]
  BY <1>1, <1>2
<1>4. SlotMap' = SlotMap
  BY <1>2 DEF SlotMap, Slot
<1>5. \A q \in Requests \ {r} : Decision(q)' = Decision(q)
  BY <1>3 DEF Decision
<1>6. Decision(r)' = (CASE d.state = "dispatching" -> "granted"
                        [] d.state = "cancelled" -> "refused"
                        [] OTHER -> "undecided")
  BY <1>3 DEF Decision
<1>7. CASE Decision(r)' = Decision(r)
  <2>1. DecisionMap' = DecisionMap BY <1>5, <1>7 DEF DecisionMap
  <2>. QED BY <1>4, <2>1 DEF ContractStep
<1>8. ASSUME NEW to, Decision(r)' = to PROVE DecisionMap' = [DecisionMap EXCEPT ![r] = to]
  BY <1>5, <1>8 DEF DecisionMap
<1>9. CASE dispatch[r].state = "preparing" /\ d.state = "cancelled"
  <2>1. Decision(r) = "undecided" /\ Decision(r)' = "refused"
    BY <1>6, <1>9 DEF Decision
  <2>2. DecisionMap[r] = "undecided" /\ DecisionMap' = [DecisionMap EXCEPT ![r] = "refused"]
    BY <1>8, <2>1 DEF DecisionMap
  <2>3. Contract!Refuse(r) BY <1>4, <2>2 DEF Contract!Refuse, DecisionMap, SlotMap
  <2>. QED BY <2>3 DEF ContractStep, Contract!Next
<1>10. CASE /\ dispatch[r].state = "preparing" /\ d.state = "dispatching"
            /\ \A s \in Members(r) : attempt[s][r].state = "reserved"
  <2>1. Decision(r) = "undecided" /\ Decision(r)' = "granted"
    BY <1>6, <1>10 DEF Decision
  <2>2. DecisionMap[r] = "undecided" /\ DecisionMap' = [DecisionMap EXCEPT ![r] = "granted"]
    BY <1>8, <2>1 DEF DecisionMap
  <2>3. \A s \in Members(r) : SlotMap[s][r] = "held"
    BY <1>10, ReceiptScopes DEF SlotMap, Slot, HeldStates
  <2>4. Contract!Grant(r) BY <1>4, <2>2, <2>3 DEF Contract!Grant, DecisionMap, SlotMap
  <2>. QED BY <2>4 DEF ContractStep, Contract!Next
<1>11. CASE \/ dispatch[r].state = d.state
            \/ dispatch[r].state = "none" /\ d.state = "preparing"
  <2>1. Decision(r)' = Decision(r) BY <1>6, <1>11 DEF Decision
  <2>. QED BY <1>7, <2>1
<1>. QED BY <1>1, <1>9, <1>10, <1>11 DEF PlanMoves

\* A row that moves is held, closed, capped, waived or billed.
LEMMA RowContract ==
    ASSUME TypeOK, NEW s \in Scopes, NEW r \in Requests, RowMove(s, r)
    PROVE  ContractStep
<1>1. PICK a \in Attempt : attempt' = [attempt EXCEPT ![s][r] = a] /\ RowMoves(s, r, a.state)
  BY Zenon DEF RowMove
<1>2. /\ attempt \in [Scopes -> [Requests -> Attempt]] /\ attempt[s][r] \in Attempt
      /\ dispatch' = dispatch
  BY DEF TypeOK, RowMove
<1>3. DecisionMap' = DecisionMap
  BY <1>2 DEF DecisionMap, Decision
<1> DEFINE from == attempt[s][r].state
           to == a.state
<1>4. from \in AttemptStates /\ to \in AttemptStates
  BY <1>2 DEF Attempt
<1>5. SlotMap' = [SlotMap EXCEPT ![s][r] = SlotOf(to)]
  <2>1. attempt'[s][r] = a BY <1>1, <1>2
  <2>2. \A z \in Scopes, q \in Requests : z # s \/ q # r => attempt'[z][q] = attempt[z][q]
    BY <1>1, <1>2
  <2>3. \A z \in Scopes, q \in Requests : Slot(z, q)' = SlotOf(attempt'[z][q].state)
    BY DEF Slot, SlotOf
  <2>4. \A z \in Scopes, q \in Requests : Slot(z, q) = SlotOf(attempt[z][q].state)
    BY DEF Slot, SlotOf
  <2>5. \A z \in Scopes, q \in Requests :
           Slot(z, q)' = IF z = s /\ q = r THEN SlotOf(to) ELSE Slot(z, q)
    BY <2>1, <2>2, <2>3, <2>4
  <2>. QED BY <2>5 DEF SlotMap
<1>6. SlotMap[s][r] = SlotOf(from) /\ DecisionMap[r] = Decision(r)
  BY SlotIs DEF SlotMap, DecisionMap
<1>7. \A source, target : SlotOf(from) \in source /\ SlotOf(to) = target
                            => Contract!Move(s, r, source, target)
  BY <1>3, <1>5, <1>6 DEF Contract!Move, SlotMap, DecisionMap
<1>8. /\ dispatch[r].state = "cancelled" => DecisionMap[r] = "refused"
      /\ dispatch[r].state = "dispatching" => DecisionMap[r] = "granted"
  BY <1>6 DEF Decision
<1>9. CASE from = "none" /\ to = "reserved" /\ s \in Members(r)
  <2>1. SlotOf(from) = "free" /\ SlotOf(to) = "held"
    BY <1>4, <1>9, SlotValues DEF HeldStates
  <2>2. Contract!Hold(s, r) BY <1>7, <1>9, <2>1 DEF Contract!Hold
  <2>. QED BY <2>2 DEF ContractStep, Contract!Next
<1>10. CASE dispatch[r].state = "cancelled" /\ from \in {"none", "reserved"} /\ to = "cancelled"
  <2>1. SlotOf(from) \in {"free", "held"} /\ SlotOf(to) = "closed"
    BY <1>4, <1>10, SlotValues DEF HeldStates
  <2>2. Contract!Close(s, r) BY <1>7, <1>8, <1>10, <2>1 DEF Contract!Close, DecisionMap
  <2>. QED BY <2>2 DEF ContractStep, Contract!Next
<1>11. CASE dispatch[r].state = "dispatching" /\ from \in HeldStates /\ to = "upper_bound"
  <2>1. SlotOf(from) \in {"held"} /\ SlotOf(to) = "bounded"
    BY <1>4, <1>11, SlotValues
  <2>2. Contract!Cap(s, r) BY <1>7, <1>8, <1>11, <2>1 DEF Contract!Cap, DecisionMap
  <2>. QED BY <2>2 DEF ContractStep, Contract!Next
<1>12. CASE /\ dispatch[r].state = "dispatching"
            /\ from \in HeldStates \union {"upper_bound"} /\ to = "released"
  <2>1. SlotOf(from) \in {"held", "bounded"} /\ SlotOf(to) = "waived"
    BY <1>4, <1>12, SlotValues
  <2>2. Contract!Waive(s, r) BY <1>7, <1>8, <1>12, <2>1 DEF Contract!Waive, DecisionMap
  <2>. QED BY <2>2 DEF ContractStep, Contract!Next
<1>13. CASE /\ dispatch[r].state = "dispatching"
            /\ from \notin {"none", "cancelled"} /\ to = "settled"
  <2>1. SlotOf(from) \in {"held", "bounded", "waived", "charged"} /\ SlotOf(to) = "charged"
    BY <1>4, <1>13, SlotValues
  <2>2. Contract!Bill(s, r) BY <1>7, <1>8, <1>13, <2>1 DEF Contract!Bill, DecisionMap
  <2>. QED BY <2>2 DEF ContractStep, Contract!Next
<1>. QED BY <1>1, <1>9, <1>10, <1>11, <1>12, <1>13 DEF RowMoves

\* A request is granted or refused once and for all, granted only when every
\* scope it needs holds its reservation, and a reservation is given back only
\* after a refusal, an approved release or a charge: gateway, table, late
\* writes, sweeps and settlement together implement the contract.
THEOREM Implements == Spec => ImplementsContract
<1>1. Init => Contract!Init
  <2> SUFFICES ASSUME Init PROVE Contract!Init
    OBVIOUS
  <2>1. /\ \A r \in Requests : dispatch[r].state = "none"
        /\ \A s \in Scopes, r \in Requests : attempt[s][r].state = "none"
    BY DEF Init, NoAttempt
  <2>2. \A r \in Requests : Decision(r) = "undecided"
    BY <2>1 DEF Decision
  <2>3. \A s \in Scopes, r \in Requests : Slot(s, r) = "free"
    BY <2>1, SlotIs, SlotValues DEF AttemptStates
  <2>. QED BY <2>2, <2>3 DEF Contract!Init
<1>2. DInv /\ [Next]_vars => ContractStep
  <2> SUFFICES ASSUME DInv, [Next]_vars PROVE ContractStep
    OBVIOUS
  <2>1. TypeOK /\ LedgerMove BY OneMove DEF DInv, IInv
  <2>2. ASSUME UNCHANGED <<attempt, dispatch>> PROVE ContractStep
    BY <2>2 DEF ContractStep, DecisionMap, SlotMap, Decision, Slot
  <2>3. UNCHANGED ledger \/ (\E s \in Scopes : PolicyMove(s)) => UNCHANGED <<attempt, dispatch>>
    BY DEF ledger, PolicyMove
  <2>. QED BY <2>1, <2>2, <2>3, PlanContract, RowContract DEF LedgerMove
<1>3. ContractStep => [Contract!Next]_<<[r \in Requests |-> Decision(r)],
                                       [s \in Scopes |-> [r \in Requests |-> Slot(s, r)]]>>
  BY DEF ContractStep, DecisionMap, SlotMap
<1>. QED BY <1>1, <1>2, <1>3, DecisionsAreFresh, PTL DEF Spec, ImplementsContract, Contract!Spec

--------------------------------------------------------------------------
(* The balances.  What a settlement takes off for an attempt that is not    *)
(* settled is its actual charge, which has to be zero.                      *)

AllPlain == \A s \in Scopes, r \in Requests : Plain(attempt[s][r])
AllTally == \A s \in Scopes : Tallies(summary[s], attempt[s], Requests)

LEMMA InitBooks ==
    ASSUME IsFiniteSet(Requests), Init
    PROVE  AllPlain /\ AllTally
<1>1. \A s \in Scopes, r \in Requests : attempt[s][r] = NoAttempt
  BY DEF Init
<1>2. \A s \in Scopes :
         summary[s].active = 0 /\ summary[s].upper = 0 /\ summary[s].confirmed = 0
  BY DEF Init
<1>3. /\ Plain(NoAttempt) /\ ActiveShare(NoAttempt) = 0 /\ UpperShare(NoAttempt) = 0
      /\ ConfirmedShare(NoAttempt) = 0
  BY DEF Plain, NoAttempt, ActiveShare, UpperShare, ConfirmedShare, HeldStates
<1>4. AllPlain BY <1>1, <1>3 DEF AllPlain
<1>5. AllTally
  <2> SUFFICES ASSUME NEW s \in Scopes PROVE Tallies(summary[s], attempt[s], Requests)
    BY DEF AllTally
  <2> DEFINE row == attempt[s]
  <2>1. \A r \in Requests : /\ ActiveShare(row[r]) = 0 /\ UpperShare(row[r]) = 0
                            /\ ConfirmedShare(row[r]) = 0
    BY <1>1, <1>3
  <2> HIDE DEF row
  <2>2. ActiveSum(row, Requests) = 0 /\ UpperSum(row, Requests) = 0
        /\ ConfirmedSum(row, Requests) = 0
    BY <2>1, SumsOfNone
  <2>. QED BY <1>2, <2>2 DEF Tallies, row
<1>. QED BY <1>4, <1>5

\* A move keeps the books.
LEMMA MoveBooks ==
    ASSUME IsFiniteSet(Requests), TypeOK, LedgerMove, AllPlain, AllTally
    PROVE  AllPlain' /\ AllTally'
<1>1. /\ summary \in [Scopes -> Summary] /\ attempt \in [Scopes -> [Requests -> Attempt]]
  BY DEF TypeOK
<1>2. ASSUME UNCHANGED <<summary, attempt>> PROVE AllPlain' /\ AllTally'
  BY <1>2 DEF AllPlain, AllTally, Tallies
<1>3. ASSUME NEW s \in Scopes, PolicyMove(s) PROVE AllPlain' /\ AllTally'
  <2>1. PICK x \in Summary : /\ summary' = [summary EXCEPT ![s] = x] /\ attempt' = attempt
                             /\ KeepsBalances(summary[s], x)
    BY <1>3, Zenon DEF PolicyMove
  <2>2. \A z \in Scopes : KeepsBalances(summary[z], summary'[z])
    BY <1>1, <2>1 DEF KeepsBalances
  <2>3. AllPlain' BY <2>1 DEF AllPlain
  <2>4. AllTally' BY <2>1, <2>2 DEF AllTally, Tallies, KeepsBalances
  <2>. QED BY <2>3, <2>4
<1>4. ASSUME NEW s \in Scopes, NEW r \in Requests, RowMove(s, r)
      PROVE  AllPlain' /\ AllTally'
  <2>1. PICK x \in Summary, a \in Attempt :
           /\ summary' = [summary EXCEPT ![s] = x]
           /\ Books(summary[s], x, attempt[s][r], a)
           /\ attempt' = [attempt EXCEPT ![s][r] = a]
    BY <1>4, Zenon DEF RowMove
  <2>2. Plain(attempt[s][r]) /\ Tallies(summary[s], attempt[s], Requests)
    BY DEF AllPlain, AllTally
  <2>3. Plain(a) /\ Shifted(summary[s], x, attempt[s][r], a)
    BY <2>1, <2>2 DEF Books
  <2> DEFINE next == [attempt[s] EXCEPT ![r] = a]
  <2>4. summary[s] \in Summary /\ attempt[s] \in [Requests -> Attempt]
    BY <1>1
  <2>5. Tallies(x, next, Requests)
    BY <2>2, <2>3, <2>4, TalliesMove
  <2>6. /\ attempt'[s] = next /\ summary'[s] = x
        /\ \A z \in Scopes : z # s => attempt'[z] = attempt[z] /\ summary'[z] = summary[z]
    BY <1>1, <2>1
  <2>7. \A q \in Requests : next[q] = IF q = r THEN a ELSE attempt[s][q]
    BY <2>4
  <2> HIDE DEF next
  <2>8. AllPlain'
    <3> SUFFICES ASSUME NEW z \in Scopes, NEW q \in Requests PROVE Plain(attempt'[z][q])
      BY DEF AllPlain
    <3>1. attempt'[z][q] = a \/ attempt'[z][q] = attempt[z][q] BY <2>6, <2>7
    <3>. QED BY <2>3, <3>1 DEF AllPlain
  <2>9. AllTally'
    <3> SUFFICES ASSUME NEW z \in Scopes PROVE Tallies(summary'[z], attempt'[z], Requests)
      BY DEF AllTally
    <3>. QED BY <2>5, <2>6 DEF AllTally
  <2>. QED BY <2>8, <2>9
<1>5. ASSUME NEW r \in Requests, PlanMove(r) PROVE UNCHANGED <<summary, attempt>>
  BY <1>5 DEF PlanMove
<1>6. UNCHANGED ledger => UNCHANGED <<summary, attempt>>
  BY DEF ledger
<1>. QED BY <1>2, <1>3, <1>4, <1>5, <1>6 DEF LedgerMove

\* The balances of each scope are the sums of its attempts' shares, whatever
\* reserved, compensated, settled and completed at once and whichever writes
\* came late: for any finite set of requests.
THEOREM AlwaysBalanced == IsFiniteSet(Requests) => (Spec => []Balanced)
<1> SUFFICES ASSUME IsFiniteSet(Requests) PROVE Spec => []Balanced
  OBVIOUS
<1> DEFINE BInv == DInv /\ AllPlain /\ AllTally
<1>1. Init => BInv
  BY InitDecided, InitBooks
<1>2. BInv /\ [Next]_vars => BInv'
  <2> SUFFICES ASSUME BInv, [Next]_vars PROVE BInv'
    OBVIOUS
  <2>1. DInv' BY NextDecided
  <2>2. TypeOK /\ LedgerMove BY OneMove DEF DInv, IInv
  <2>. QED BY <2>1, <2>2, MoveBooks
<1>3. BInv => Balanced
  BY DEF AllTally, Tallies, Balanced, ActiveSum, UpperSum, ConfirmedSum
<1>. QED BY <1>1, <1>2, <1>3, PTL DEF Spec
=============================================================================
