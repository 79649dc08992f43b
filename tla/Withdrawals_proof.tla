-------------------------- MODULE Withdrawals_proof --------------------------
(***************************************************************************)
(* Theorems about Withdrawals: any number of withdrawals, users and worker  *)
(* processes, any amounts, fees, thresholds and bound on faults.  The       *)
(* second half shows that Withdrawals implements Escrow - the money of a    *)
(* withdrawal is held first, then paid or given back, and both only behind  *)
(* a race window: to the invariant of the first half it adds what the       *)
(* ledger holds under the four idempotency keys of a row.  Adding the keys  *)
(* up, no balance is overdrawn and no money is made.                        *)
(***************************************************************************)
EXTENDS Withdrawals, Ledger_proof

\* postTransaction keeps the journal a journal, and stores its key.
LEMMA PostType ==
  ASSUME NEW key \in Keys, journal \in [Keys -> Nat]
  PROVE  /\ Post(journal, key) \in [Keys -> Nat]
         /\ Post(journal, key)[key] > 0
         /\ \A k \in Keys \ {key} : Post(journal, key)[k] = journal[k]
  BY DEF Post

\* A row keeps its type whatever status of Status it is given.
LEMMA WithStatusType ==
  ASSUME NEW row \in Row, NEW status \in Status
  PROVE  /\ WithStatus(row, status) \in Row
         /\ WithStatus(row, status).status = status
         /\ WithStatus(row, status).tx = row.tx
         /\ WithStatus(row, status).prov = row.prov
         /\ WithStatus(row, status).admin = row.admin
  BY DEF WithStatus, Row

LEMMA TracedType ==
  ASSUME NEW row \in Row, NEW hash \in BOOLEAN
  PROVE  /\ Traced(row, hash) \in Row
         /\ Traced(row, hash).status = row.status
         /\ Traced(row, hash).admin = row.admin
         /\ hash => Traced(row, hash).tx
  BY DEF Traced, Row

\* failAndRelease changes one row and one key.
LEMMA FailAndReleaseType ==
  ASSUME TypeOK, NEW w \in Withdrawals, FailAndRelease(w)
  PROVE  /\ wd' \in [Withdrawals -> Row]
         /\ journal' \in [Keys -> Nat]
<1>1. <<"release", w>> \in Keys
  BY DEF Keys
<1>2. "FAILED" \in Status
  BY DEF Status, Terminal, Refunded
<1>3. WithStatus(wd[w], "FAILED") \in Row
  BY <1>2, WithStatusType DEF TypeOK
<1> QED
  BY <1>1, <1>3, PostType DEF FailAndRelease, TypeOK, db

\* The worker's record keeps its type through a loop.
LEMMA AtType ==
  ASSUME NEW phase \in {"idle"} \cup Phases
  PROVE  At(phase) \in WorkerState
  BY DEF At, WorkerState, CustodyState

LEMMA ContinueType ==
  ASSUME TypeOK, NEW p \in Workers, NEW w \in Withdrawals,
         worker[p].phase \in Phases, Continue(p, w)
  PROVE  worker' \in [Workers -> WorkerState]
<1>1. NextPhase[worker[p].phase] \in {"idle"} \cup Phases
  BY DEF NextPhase, Phases
<1>2. At(NextPhase[worker[p].phase]) \in WorkerState
  BY <1>1, AtType
<1>3. worker[p] \in WorkerState
  BY DEF TypeOK
<1>4. [worker[p] EXCEPT !.step = "loop", !.todo = worker[p].todo \ {w},
                        !.cur = None, !.got = "none"] \in WorkerState
  BY <1>3 DEF WorkerState, CustodyState
<1> QED
  BY <1>2, <1>4 DEF Continue, TypeOK

\* Every endpoint call keeps the types.
LEMMA EndpointType ==
  ASSUME TypeOK, NEW w \in Withdrawals, Endpoint(w)
  PROVE  TypeOK'
<1> USE DEF TypeOK, vars, db, provider
<1>k. \A op \in {"reserve", "release", "settle", "internal"} : <<op, w>> \in Keys
  BY DEF Keys
<1>s. {"PENDING_APPROVAL", "APPROVED", "REJECTED", "CANCELLED", "CONFIRMED"} \subseteq Status
  BY DEF Status, Terminal, Refunded
<1>r. \A status \in Status : WithStatus(wd[w], status) \in Row
  BY WithStatusType
<1>1. CASE CheckRequest(w)
  BY <1>1 DEF CheckRequest, Call, Calls
<1>2. CASE CreateWithdrawal(w)
  <2>1. InitialStatus(w) \in Status
    BY <1>s DEF InitialStatus
  <2>2. wd' \in [Withdrawals -> Row]
    BY <1>2, <2>1 DEF CreateWithdrawal, Row
  <2>3. journal' \in [Keys -> Nat]
    BY <1>2, <1>k, PostType DEF CreateWithdrawal
  <2> QED
    BY <1>2, <2>2, <2>3 DEF CreateWithdrawal
<1>3. CASE CreateInternalTransfer(w)
  <2>1. wd' \in [Withdrawals -> Row]
    BY <1>3, <1>s DEF CreateInternalTransfer, Row
  <2>2. journal' \in [Keys -> Nat]
    BY <1>3, <1>k, PostType DEF CreateInternalTransfer
  <2> QED
    BY <1>3, <2>1, <2>2 DEF CreateInternalTransfer
<1>4. CASE RefuseRequest(w)
  BY <1>4 DEF RefuseRequest
<1>5. ASSUME NEW op \in Decisions, ReadForDecision(op, w)
      PROVE  TypeOK'
  BY <1>5, WithdrawalsAssumption DEF ReadForDecision, Call, Calls
<1>6. ASSUME NEW op, Decided(op, w)
      PROVE  /\ calls' \subseteq Calls
             /\ race' \in [Withdrawals -> SUBSET {"stale", "unresolved", "rival"}]
             /\ UNCHANGED <<worker, threshold, custody, inflight, emitted, processed, faults>>
  BY <1>6 DEF Decided
<1>7. CASE Approve(w)
  <2>1. wd' \in [Withdrawals -> Row]
    <3>1. WithStatus(wd[w], "APPROVED") \in Row
      BY <1>r, <1>s
    <3>2. [WithStatus(wd[w], "APPROVED") EXCEPT !.admin = TRUE] \in Row
      BY <3>1 DEF Row
    <3> QED
      BY <1>7, <3>2 DEF Approve
  <2> QED
    BY <1>6, <1>7, <2>1 DEF Approve
<1>8. CASE Reject(w)
  <2>1. wd' \in [Withdrawals -> Row] /\ journal' \in [Keys -> Nat]
    BY <1>8, <1>k, <1>r, <1>s, PostType DEF Reject
  <2> QED
    BY <1>6, <1>8, <2>1 DEF Reject
<1>9. CASE Cancel(w)
  <2>1. wd' \in [Withdrawals -> Row] /\ journal' \in [Keys -> Nat]
    BY <1>9, <1>k, <1>r, <1>s, PostType DEF Cancel
  <2> QED
    BY <1>6, <1>9, <2>1 DEF Cancel
<1> QED
  BY <1>1, <1>2, <1>3, <1>4, <1>5, <1>7, <1>8, <1>9 DEF Endpoint

\* A worker's failure of a row, followed by the next row.
LEMMA FailType ==
  ASSUME TypeOK, NEW p \in Workers, NEW w \in Withdrawals, NEW label,
         label \in {"stale", "unresolved", "rival"},
         worker[p].phase \in Phases, FailAndRelease(w), race' = Marked(w, label),
         Continue(p, w),
         UNCHANGED <<calls, threshold, provider, processed, faults>>
  PROVE  TypeOK'
<1>1. wd' \in [Withdrawals -> Row] /\ journal' \in [Keys -> Nat]
  BY FailAndReleaseType
<1>2. worker' \in [Workers -> WorkerState]
  BY ContinueType
<1>3. race' \in [Withdrawals -> SUBSET {"stale", "unresolved", "rival"}]
  BY DEF Marked, TypeOK
<1> QED
  BY <1>1, <1>2, <1>3 DEF TypeOK, provider

\* Every worker step keeps the types.
LEMMA WorkerStepType ==
  ASSUME TypeOK, NEW p \in Workers, WorkerStep(p)
  PROVE  TypeOK'
<1> USE DEF vars, db, provider
<1>p. worker[p] \in WorkerState /\ worker[p].todo \subseteq Withdrawals
  BY DEF TypeOK, WorkerState
<1>q. Phases = {"interrupted", "approved", "broadcasting", "broadcasted"}
  BY DEF Phases
<1>s. {"APPROVED", "BROADCASTING", "BROADCASTED", "CONFIRMED"} \subseteq Status
  BY DEF Status, Terminal, Refunded
<1>1. CASE StartPass(p)
  <2>1. At("interrupted") \in WorkerState
    BY AtType, <1>q
  <2>2. \A w \in Withdrawals : WithStatus(wd[w], "APPROVED") \in Row
    BY <1>s, WithStatusType DEF TypeOK
  <2> QED
    BY <1>1, <2>1, <2>2 DEF StartPass, TypeOK
<1>2. CASE Find(p)
  <2>1. worker[p].phase \in Phases
    BY <1>2, <1>p DEF Find, WorkerState
  <2>2. NextPhase[worker[p].phase] \in {"idle"} \cup Phases
    BY <2>1 DEF NextPhase, Phases
  <2>3. At(NextPhase[worker[p].phase]) \in WorkerState
    BY <2>2, AtType
  <2>4. PICK b \in Batches(Rows(worker[p].phase)) :
          worker' = [worker EXCEPT ![p] = IF b = {} THEN At(NextPhase[worker[p].phase])
                        ELSE [worker[p] EXCEPT !.step = "loop", !.todo = b]]
    BY <1>2 DEF Find
  <2>5. b \subseteq Withdrawals
    BY <2>4 DEF Batches, Rows
  <2>6. [worker[p] EXCEPT !.step = "loop", !.todo = b] \in WorkerState
    BY <1>p, <2>5 DEF WorkerState
  <2> QED
    BY <1>2, <2>3, <2>4, <2>6 DEF Find, TypeOK
<1>3. ASSUME NEW w \in Withdrawals, FailInterrupted(p, w)
      PROVE  TypeOK'
  BY <1>3, <1>q, FailType DEF FailInterrupted, Looping
<1>4. ASSUME NEW w \in Withdrawals, Defer(p, w)
      PROVE  TypeOK'
  BY <1>4, <1>q, ContinueType DEF Defer, Looping, TypeOK
<1>5. ASSUME NEW w \in Withdrawals, FailUnderfunded(p, w)
      PROVE  TypeOK'
  BY <1>5, <1>q, FailType DEF FailUnderfunded, Looping
<1>h. ASSUME NEW w \in Withdrawals, NEW step \in {"prepare", "sending"}, Hold(p, step, w)
      PROVE  worker' \in [Workers -> WorkerState]
  BY <1>h, <1>p DEF Hold, TypeOK, WorkerState
<1>6. ASSUME NEW w \in Withdrawals, Claim(p, w)
      PROVE  TypeOK'
  <2>1. worker' \in [Workers -> WorkerState]
    BY <1>6, <1>q, <1>h, ContinueType DEF Claim, Looping
  <2> QED
    BY <1>6, <2>1 DEF Claim, TypeOK
<1>7. ASSUME NEW w \in Withdrawals, PrepareFails(p, w)
      PROVE  TypeOK'
  BY <1>7, <1>q, FailType DEF PrepareFails, Handling
<1>8. ASSUME NEW w \in Withdrawals, Send(p, w)
      PROVE  TypeOK'
  <2>1. worker' \in [Workers -> WorkerState]
    BY <1>8, <1>q, <1>h, ContinueType DEF Send, Handling
  <2>2. WithStatus(wd[w], "BROADCASTING") \in Row
    BY <1>s, WithStatusType DEF TypeOK
  <2>3. wd' \in [Withdrawals -> Row]
    BY <1>8, <2>2 DEF Send, TypeOK
  <2> QED
    BY <1>8, <2>1, <2>3 DEF Send, TypeOK
<1>9. ASSUME NEW w \in Withdrawals, SendReturns(p, w)
      PROVE  TypeOK'
  <2>1. At("broadcasting") \in WorkerState
    BY AtType, <1>q
  <2>2. WithStatus(wd[w], "BROADCASTED") \in Row
    BY <1>s, WithStatusType DEF TypeOK
  <2>3. Traced(WithStatus(wd[w], "BROADCASTED"), TRUE) \in Row
    BY <2>2, TracedType
  <2> QED
    BY <1>9, <2>1, <2>3 DEF SendReturns, TypeOK
<1>10. ASSUME NEW w \in Withdrawals, SendFails(p, w)
       PROVE  TypeOK'
  BY <1>10, <1>q, FailType DEF SendFails, Handling
<1>11. ASSUME NEW w \in Withdrawals, AskProvider(p, w)
       PROVE  TypeOK'
  <2>1. custody[w] \in CustodyState
    BY DEF TypeOK
  <2>2. [worker[p] EXCEPT !.step = "apply", !.cur = w, !.got = custody[w]] \in WorkerState
    BY <1>p, <2>1 DEF WorkerState
  <2>3. worker' = [worker EXCEPT ![p] =
                     [worker[p] EXCEPT !.step = "apply", !.cur = w, !.got = custody[w]]]
    BY <1>11 DEF AskProvider, TypeOK
  <2> QED
    BY <1>11, <2>2, <2>3 DEF AskProvider, TypeOK
<1>12. ASSUME NEW w \in Withdrawals, ApplyProvider(p, w)
       PROVE  TypeOK'
  <2>1. worker' \in [Workers -> WorkerState]
    BY <1>12, <1>q, ContinueType DEF ApplyProvider, Handling
  <2>2. WithStatus(wd[w], "BROADCASTED") \in Row
    BY <1>s, WithStatusType DEF TypeOK
  <2>3. Traced(WithStatus(wd[w], "BROADCASTED"), TRUE) \in Row
    BY <2>2, TracedType
  <2>4. wd' \in [Withdrawals -> Row] /\ journal' \in [Keys -> Nat]
    BY <1>12, <2>3, FailAndReleaseType DEF ApplyProvider, TypeOK
  <2> QED
    BY <1>12, <2>1, <2>4 DEF ApplyProvider, TypeOK
<1>13. ASSUME NEW w \in Withdrawals, Confirm(p, w)
       PROVE  TypeOK'
  <2>1. worker' \in [Workers -> WorkerState]
    BY <1>13, <1>q, ContinueType DEF Confirm, Looping
  <2>2. WithStatus(wd[w], "CONFIRMED") \in Row
    BY <1>s, WithStatusType DEF TypeOK
  <2>3. <<"settle", w>> \in Keys
    BY DEF Keys
  <2>4. Outcome(w) \in {"settle", "refund", "wait"}
    BY DEF Outcome
  <2>5. wd' \in [Withdrawals -> Row] /\ journal' \in [Keys -> Nat]
    BY <1>13, <2>2, <2>3, <2>4, FailAndReleaseType, PostType DEF Confirm, TypeOK
  <2> QED
    BY <1>13, <2>1, <2>5 DEF Confirm, TypeOK
<1> QED
  BY <1>1, <1>2, <1>3, <1>4, <1>5, <1>6, <1>7, <1>8, <1>9, <1>10, <1>11, <1>12, <1>13
     DEF WorkerStep

\* Faults, the passing of time, the provider and its webhook keep the types.
LEMMA FaultType ==
  ASSUME TypeOK, NEW p \in Workers, Fault(p)
  PROVE  TypeOK'
<1>0. faults < MaxFaults => faults + 1 \in 0..MaxFaults
  BY WithdrawalsAssumption DEF TypeOK
<1>1. At("idle") \in WorkerState
  BY AtType
<1>2. ASSUME NEW w \in Withdrawals, SkipRow(p, w)
      PROVE  TypeOK'
  <2>1. worker[p].phase \in Phases
    BY <1>2 DEF SkipRow, Looping, Handling, Phases
  <2> QED
    BY <1>0, <1>2, <2>1, ContinueType DEF SkipRow, TypeOK, db, provider
<1>3. CASE AbortPass(p)
  BY <1>0, <1>1, <1>3 DEF AbortPass, TypeOK, db, provider
<1>4. CASE Crash(p)
  <2>1. calls' \subseteq Calls /\ threshold' \in Thresholds
    BY <1>4 DEF Crash, TypeOK
  <2> QED
    BY <1>0, <1>1, <1>4, <2>1 DEF Crash, TypeOK, db, provider
<1> QED
  BY <1>2, <1>3, <1>4 DEF Fault

LEMMA EnvironmentType ==
  ASSUME TypeOK, NEW w \in Withdrawals, GraceElapses(w) \/ Custody(w) \/ Webhook(w)
  PROVE  TypeOK'
<1> USE DEF vars, db, provider
<1>1. CASE GraceElapses(w)
  BY <1>1 DEF GraceElapses, TypeOK, Row
<1>2. CASE Custody(w)
  BY <1>2 DEF Custody, Accept, Drop, Announce, Broadcast, Mine, Revert, GiveUp,
              Provide, TypeOK, CustodyState, EventTypes
<1>3. ASSUME NEW event \in EventTypes, Deliver(w, event)
      PROVE  TypeOK'
  <2>1. wd[w] \in Row /\ EventStatus(w, event) \in Status
    BY DEF EventStatus, TypeOK, Row, Status, Terminal, Refunded
  <2>2. WithStatus(wd[w], EventStatus(w, event)) \in Row
    BY <2>1, WithStatusType
  <2>3. Traced(WithStatus(wd[w], EventStatus(w, event)), event \in Hashed) \in Row
    <3>1. (event \in Hashed) \in BOOLEAN
      OBVIOUS
    <3> QED
      BY <2>2, <3>1, TracedType, Zenon
  <2>4. wd' \in [Withdrawals -> Row]
    <3> DEFINE new == Traced(WithStatus(wd[w], EventStatus(w, event)), event \in Hashed)
    <3>1. wd' = [wd EXCEPT ![w] = new]
      BY <1>3, Zenon DEF Deliver
    <3>2. new \in Row
      BY <2>3
    <3> HIDE DEF new
    <3> QED
      BY <3>1, <3>2 DEF TypeOK
  <2>5. journal' \in [Keys -> Nat]
    <3>1. <<"release", w>> \in Keys
      BY DEF Keys
    <3> QED
      BY <1>3, <3>1, PostType DEF Deliver, TypeOK
  <2> QED
    BY <1>3, <2>4, <2>5 DEF Deliver, TypeOK
<1> QED
  BY <1>1, <1>2, <1>3 DEF Webhook

\* Type correctness of the withdrawal service: no sequence of calls, worker
\* steps, faults and provider events leaves a row in a status it does not have.
THEOREM TypeCorrect == Spec => []TypeOK
<1>1. Init => TypeOK
  BY AtType, WithdrawalsAssumption
     DEF Init, TypeOK, Absent, Row, Status, Terminal, Refunded, CustodyState, EventTypes
<1>2. TypeOK /\ [Next]_vars => TypeOK'
  <2> SUFFICES ASSUME TypeOK, [Next]_vars
               PROVE  TypeOK'
    OBVIOUS
  <2>1. CASE UNCHANGED vars
    BY <2>1 DEF TypeOK, vars
  <2>2. CASE Next
    BY <2>2, EndpointType, WorkerStepType, FaultType, EnvironmentType DEF Next
  <2> QED
    BY <2>1, <2>2
<1> QED
  BY <1>1, <1>2, PTL DEF Spec

-----------------------------------------------------------------------------
(* The inductive invariant behind the refund properties, one row at a time.  *)

Decisive == {"approve", "reject", "cancel"}

\* No worker or administrator's approval has touched the row yet.
Untouched(w) == wd[w].status \in {"ABSENT", "PENDING_APPROVAL"}

Held(w) == \E p \in Workers : w \in worker[p].todo \/ worker[p].cur = w

\* A row that is not approved has not been refunded, sent or taken by a worker.
UntouchedInv(w) ==
  Untouched(w) => ~Posted("release", w) /\ ~Sent(w) /\ ~Held(w)

\* A request under way has no row yet; a decision under way has one.
CallsInv(w) ==
  /\ Call("request", w) \in calls => wd[w].status = "ABSENT"
  /\ wd[w].status = "ABSENT" => \A op \in Decisive : Call(op, w) \notin calls

\* Events and answers tell what happened, and a lost transfer stays lost.
NewsInv(w) ==
  /\ emitted[w] # {} => custody[w] # "none"
  /\ "failed" \in emitted[w] => custody[w] = "failed"
  /\ "execution_reverted" \in emitted[w] => custody[w] = "reverted"
  /\ \A p \in Workers :
       worker[p].step = "apply" /\ worker[p].cur = w
         /\ worker[p].got \in {"reverted", "failed"} => custody[w] = worker[p].got

\* Refunds: every refunded status has one, one behind an APPROVED row comes from
\* a stale decision, and one behind a live transfer from some race window.
RefundInv(w) ==
  /\ wd[w].status \in Refunded => Posted("release", w)
  /\ wd[w].status = "APPROVED" /\ Posted("release", w) => "stale" \in race[w]
  /\ Posted("release", w) /\ Unresolved(w) => race[w] # {}

\* Without an administrator a large withdrawal gets no further than the queue.
AdminInv(w) ==
  Large(w) /\ ~wd[w].admin =>
    /\ wd[w].status \in {"ABSENT", "PENDING_APPROVAL"} \cup Terminal
    /\ ~Sent(w) /\ ~Held(w)

RowInv(w) ==
  UntouchedInv(w) /\ CallsInv(w) /\ NewsInv(w) /\ RefundInv(w) /\ AdminInv(w)

IInv == TypeOK /\ \A w \in Withdrawals : RowInv(w)

\* What a step may leave alone of a row: everything but its place in a pass.
Same(v) ==
  /\ wd'[v] = wd[v]
  /\ journal'[<<"release", v>>] = journal[<<"release", v>>]
  /\ race'[v] = race[v]
  /\ custody'[v] = custody[v]
  /\ emitted'[v] = emitted[v]
  /\ v \in inflight' <=> v \in inflight
  /\ \A op \in Decisive \cup {"request"} : Call(op, v) \in calls' => Call(op, v) \in calls

\* No worker takes v up, and no worker learns anything new about it.
NotTaken(v) ==
  \A p \in Workers :
    /\ v \in worker'[p].todo => v \in worker[p].todo
    /\ worker'[p].cur = v => worker[p].cur = v \/ v \in worker[p].todo
    /\ worker'[p].step = "apply" /\ worker'[p].cur = v =>
         worker[p].step = "apply" /\ worker[p].cur = v /\ worker[p].got = worker'[p].got

LEMMA NotTakenHeld ==
  ASSUME NEW v, NotTaken(v)
  PROVE  Held(v)' => Held(v)
  BY DEF NotTaken, Held

\* A row that a step leaves alone keeps its invariant.
LEMMA SameRow ==
  ASSUME NEW v \in Withdrawals, RowInv(v), Same(v), NotTaken(v)
  PROVE  RowInv(v)'
<1>1. Held(v)' => Held(v)
  BY NotTakenHeld
<1>2. UntouchedInv(v)'
  BY <1>1 DEF RowInv, UntouchedInv, Same, Untouched, Posted, Sent
<1>3. CallsInv(v)'
  BY DEF RowInv, CallsInv, Same, Call, Decisive
<1>4. NewsInv(v)'
  BY DEF RowInv, NewsInv, Same, NotTaken
<1>5. RefundInv(v)'
  BY DEF RowInv, RefundInv, Same, Posted, Unresolved
<1>6. AdminInv(v)'
  BY <1>1 DEF RowInv, AdminInv, Same, Large, Sent
<1> QED
  BY <1>2, <1>3, <1>4, <1>5, <1>6 DEF RowInv

\* Worker records that did not move, or moved on, take no row up.
LEMMA UnchangedNotTaken ==
  ASSUME NEW v, UNCHANGED worker
  PROVE  NotTaken(v)
  BY DEF NotTaken

LEMMA ContinueNotTaken ==
  ASSUME TypeOK, NEW p \in Workers, NEW w \in Withdrawals, Continue(p, w), NEW v \in Withdrawals
  PROVE  NotTaken(v)
<1>1. None # v
  BY WithdrawalsAssumption
<1>2. worker'[p] = At(NextPhase[worker[p].phase])
      \/ worker'[p] = [worker[p] EXCEPT !.step = "loop", !.todo = worker[p].todo \ {w},
                                        !.cur = None, !.got = "none"]
  BY DEF Continue, TypeOK
<1>3. worker[p] \in WorkerState
  BY DEF TypeOK
<1>4. /\ worker'[p].cur = None
      /\ worker'[p].todo \subseteq worker[p].todo
  <2>1. CASE worker'[p] = At(NextPhase[worker[p].phase])
    BY <2>1 DEF At
  <2>2. CASE worker'[p] = [worker[p] EXCEPT !.step = "loop", !.todo = worker[p].todo \ {w},
                                            !.cur = None, !.got = "none"]
    <3>1. worker'[p].cur = None /\ worker'[p].todo = worker[p].todo \ {w}
      BY <1>3, <2>2 DEF WorkerState
    <3> QED
      BY <3>1
  <2> QED
    BY <1>2, <2>1, <2>2
<1>5. \A q \in Workers \ {p} : worker'[q] = worker[q]
  BY DEF Continue, TypeOK
<1> QED
  BY <1>1, <1>4, <1>5 DEF NotTaken

LEMMA ResetNotTaken ==
  ASSUME TypeOK, NEW p \in Workers, NEW phase, worker' = [worker EXCEPT ![p] = At(phase)],
         NEW v \in Withdrawals
  PROVE  NotTaken(v)
<1>1. None # v
  BY WithdrawalsAssumption
<1>2. worker'[p].cur = None /\ worker'[p].todo = {}
  BY DEF At, TypeOK
<1>3. \A q \in Workers \ {p} : worker'[q] = worker[q]
  BY DEF TypeOK
<1> QED
  BY <1>1, <1>2, <1>3 DEF NotTaken

LEMMA HoldNotTaken ==
  ASSUME TypeOK, NEW p \in Workers, NEW w \in Withdrawals, NEW step \in {"prepare", "sending"},
         w \in worker[p].todo \/ worker[p].cur = w,
         Hold(p, step, w), NEW v \in Withdrawals
  PROVE  NotTaken(v)
<1>1. worker' = [worker EXCEPT ![p] = [worker[p] EXCEPT !.step = step, !.cur = w]]
  BY DEF Hold, TypeOK
<1>2. worker[p] \in WorkerState
  BY DEF TypeOK
<1>3. /\ worker'[p].cur = w
      /\ worker'[p].step # "apply"
      /\ worker'[p].todo = worker[p].todo
  BY <1>1, <1>2 DEF WorkerState, TypeOK
<1>4. \A q \in Workers \ {p} : worker'[q] = worker[q]
  BY <1>1 DEF TypeOK
<1> QED
  BY <1>3, <1>4 DEF NotTaken

\* What failAndRelease leaves behind.
LEMMA FailEffect ==
  ASSUME TypeOK, NEW w \in Withdrawals, RefundInv(w), FailAndRelease(w)
  PROVE  /\ \A v \in Withdrawals \ {w} :
              /\ wd'[v] = wd[v]
              /\ journal'[<<"release", v>>] = journal[<<"release", v>>]
         /\ wd'[w].status \in Refunded
         /\ wd'[w].admin = wd[w].admin
         /\ journal'[<<"release", w>>] > 0
         /\ wd[w].status \in Refunded => UNCHANGED journal
<1>1. CASE wd[w].status \in Refunded
  BY <1>1 DEF FailAndRelease, RefundInv, Posted, db
<1>2. CASE wd[w].status \notin Refunded
  <2>1. \A v \in Withdrawals : <<"release", v>> \in Keys
    BY DEF Keys
  <2>2. wd[w] \in Row /\ "FAILED" \in Status
    BY DEF TypeOK, Status, Terminal, Refunded
  <2>3. /\ WithStatus(wd[w], "FAILED").status = "FAILED"
        /\ WithStatus(wd[w], "FAILED").admin = wd[w].admin
    BY <2>2, WithStatusType
  <2>4. /\ wd' = [wd EXCEPT ![w] = WithStatus(wd[w], "FAILED")]
        /\ journal' = Post(journal, <<"release", w>>)
    BY <1>2 DEF FailAndRelease
  <2>5. /\ journal'[<<"release", w>>] > 0
        /\ \A v \in Withdrawals \ {w} : journal'[<<"release", v>>] = journal[<<"release", v>>]
    <3>1. \A v \in Withdrawals \ {w} : <<"release", v>> \in Keys \ {<<"release", w>>}
      BY <2>1
    <3>2. \A k \in Keys \ {<<"release", w>>} : journal'[k] = journal[k]
      BY <2>1, <2>4, PostType DEF TypeOK
    <3>3. journal'[<<"release", w>>] > 0
      BY <2>1, <2>4, PostType DEF TypeOK
    <3> QED
      BY <3>1, <3>2, <3>3
  <2>6. wd'[w] = WithStatus(wd[w], "FAILED") /\ \A v \in Withdrawals \ {w} : wd'[v] = wd[v]
    BY <2>4 DEF TypeOK
  <2> QED
    BY <1>2, <2>3, <2>5, <2>6 DEF Refunded
<1> QED
  BY <1>1, <1>2

\* A worker that fails a row it holds marks the race if the transfer is alive.
LEMMA FailRow ==
  ASSUME IInv, NEW p \in Workers, NEW w \in Withdrawals, NEW label,
         Held(w), FailAndRelease(w), race' = Marked(w, label), Continue(p, w),
         UNCHANGED <<calls, custody, inflight, emitted>>
  PROVE  \A v \in Withdrawals : RowInv(v)'
<1> USE DEF IInv
<1>0. RowInv(w) /\ RefundInv(w)
  BY DEF RowInv
<1>1. \A v \in Withdrawals \ {w} : Same(v)
  BY <1>0, FailEffect DEF Same, Marked, TypeOK
<1>2. \A v \in Withdrawals : NotTaken(v)
  BY ContinueNotTaken
<1>3. \A v \in Withdrawals \ {w} : RowInv(v)'
  BY <1>1, <1>2, SameRow
<1>4. RowInv(w)'
  <2>1. /\ wd'[w].status \in Refunded
        /\ wd'[w].admin = wd[w].admin
        /\ journal'[<<"release", w>>] > 0
        /\ wd[w].status \in Refunded => UNCHANGED journal
    BY <1>0, FailEffect
  <2>2. Held(w)' => Held(w)
    BY <1>2, NotTakenHeld
  <2>3. wd'[w].status \notin {"ABSENT", "PENDING_APPROVAL", "APPROVED"}
    BY <2>1 DEF Refunded
  <2>4. UntouchedInv(w)'
    BY <2>3 DEF UntouchedInv, Untouched
  <2>5. CallsInv(w)'
    <3>1. wd[w].status # "ABSENT"
      BY <1>0 DEF RowInv, UntouchedInv, Untouched
    <3> QED
      BY <1>0, <2>3, <3>1 DEF RowInv, CallsInv
  <2>6. NewsInv(w)'
    BY <1>0, <1>2 DEF RowInv, NewsInv, NotTaken
  <2>7. RefundInv(w)'
    <3>1. race'[w] # {} \/ ~Unresolved(w) \/ (wd[w].status \in Refunded /\ UNCHANGED journal /\ UNCHANGED race)
      BY <2>1 DEF Marked, TypeOK
    <3>2. Unresolved(w)' <=> Unresolved(w)
      BY DEF Unresolved
    <3> QED
      BY <1>0, <2>1, <2>3, <3>1, <3>2 DEF RefundInv, Posted
  <2>8. AdminInv(w)'
    BY <1>0, <2>1, <2>2 DEF RowInv, AdminInv, Large, Sent, Terminal
  <2> QED
    BY <2>4, <2>5, <2>6, <2>7, <2>8 DEF RowInv
<1> QED
  BY <1>3, <1>4

\* A key of one operation and withdrawal says nothing of another withdrawal.
LEMMA PostOther ==
  ASSUME TypeOK, NEW op \in {"reserve", "release", "settle", "internal"},
         NEW w \in Withdrawals, journal' = Post(journal, <<op, w>>)
  PROVE  /\ \A v \in Withdrawals : v # w \/ op # "release" =>
              journal'[<<"release", v>>] = journal[<<"release", v>>]
         /\ op = "release" => journal'[<<"release", w>>] > 0
<1>1. <<op, w>> \in Keys /\ \A v \in Withdrawals : <<"release", v>> \in Keys
  BY DEF Keys
<1>2. \A v \in Withdrawals : v # w \/ op # "release" => <<"release", v>> # <<op, w>>
  OBVIOUS
<1>3. /\ journal'[<<op, w>>] > 0
      /\ \A k \in Keys \ {<<op, w>>} : journal'[k] = journal[k]
  BY <1>1, PostType DEF TypeOK
<1> QED
  BY <1>1, <1>2, <1>3

\* Requests and decisions.
LEMMA EndpointInv ==
  ASSUME IInv, NEW w \in Withdrawals, Endpoint(w)
  PROVE  \A v \in Withdrawals : RowInv(v)'
<1> USE DEF IInv, db, provider
<1>w. wd[w] \in Row /\ RowInv(w)
  BY DEF TypeOK
<1>s. {"PENDING_APPROVAL", "APPROVED", "REJECTED", "CANCELLED", "CONFIRMED"} \subseteq Status
  BY DEF Status, Terminal, Refunded
<1>c. \A op, op2 : \A v \in Withdrawals \ {w} : Call(op, v) # Call(op2, w)
  BY DEF Call
<1>d. \A op \in Decisive : Call(op, w) # Call("request", w)
  BY DEF Call, Decisive
<1>1. CASE CheckRequest(w)
  <2>1. \A v \in Withdrawals : NotTaken(v)
    BY <1>1, UnchangedNotTaken DEF CheckRequest
  <2>2. \A v \in Withdrawals \ {w} : Same(v)
    BY <1>1, <1>c DEF CheckRequest, Same
  <2>3. RowInv(w)'
    <3>1. /\ UNCHANGED <<wd, journal, worker, custody, inflight, emitted, race>>
          /\ wd[w].status = "ABSENT"
          /\ calls' = calls \cup {Call("request", w)}
      BY <1>1 DEF CheckRequest
    <3>2. CallsInv(w)'
      BY <1>w, <1>d, <3>1 DEF RowInv, CallsInv
    <3>3. Held(w)' <=> Held(w)
      BY <3>1 DEF Held
    <3>4. UntouchedInv(w)' /\ NewsInv(w)' /\ RefundInv(w)' /\ AdminInv(w)'
      BY <1>w, <3>1, <3>3 DEF RowInv, UntouchedInv, Untouched, Posted, Sent, NewsInv, RefundInv,
         Unresolved, AdminInv, Large
    <3> QED
      BY <3>2, <3>4 DEF RowInv
  <2> QED
    BY <2>1, <2>2, <2>3, SameRow
<1>2. ASSUME NEW status \in {"PENDING_APPROVAL", "APPROVED", "CONFIRMED"},
             NEW op \in {"reserve", "internal"},
             Call("request", w) \in calls,
             Large(w) => status # "APPROVED",
             wd' = [wd EXCEPT ![w].status = status],
             journal' = Post(journal, <<op, w>>),
             calls' = calls \ {Call("request", w)},
             UNCHANGED <<worker, threshold, provider, processed, race, faults>>
      PROVE  \A v \in Withdrawals : RowInv(v)'
  <2>1. \A v \in Withdrawals : NotTaken(v)
    BY <1>2, UnchangedNotTaken
  <2>2. /\ \A v \in Withdrawals : journal'[<<"release", v>>] = journal[<<"release", v>>]
        /\ \A v \in Withdrawals \ {w} : wd'[v] = wd[v]
    BY <1>2, PostOther DEF TypeOK
  <2>3. \A v \in Withdrawals \ {w} : Same(v)
    BY <1>2, <2>2 DEF Same
  <2>4. RowInv(w)'
    <3>1. /\ wd[w].status = "ABSENT"
          /\ ~Posted("release", w) /\ ~Sent(w) /\ ~Held(w)
          /\ \A op2 \in Decisive : Call(op2, w) \notin calls
      BY <1>2, <1>w DEF RowInv, CallsInv, UntouchedInv, Untouched
    <3>2. /\ wd'[w].status = status
          /\ wd'[w].admin = wd[w].admin
      BY <1>2, <1>w DEF TypeOK, Row
    <3>3. ~Posted("release", w)' /\ ~Sent(w)' /\ ~Held(w)'
      BY <1>2, <2>2, <3>1 DEF Posted, Sent, Held
    <3>4. UntouchedInv(w)' /\ AdminInv(w)' /\ RefundInv(w)'
      BY <1>2, <3>2, <3>3 DEF UntouchedInv, AdminInv, RefundInv, Large, Terminal, Refunded
    <3>5. CallsInv(w)'
      BY <1>2, <3>1, <3>2 DEF CallsInv
    <3>6. NewsInv(w)'
      BY <1>2, <1>w DEF RowInv, NewsInv
    <3> QED
      BY <3>4, <3>5, <3>6 DEF RowInv
  <2> QED
    BY <2>1, <2>3, <2>4, SameRow
<1>3. CASE CreateWithdrawal(w)
  <2>1. Large(w) => InitialStatus(w) # "APPROVED"
    BY DEF InitialStatus, NeedsApproval, Large, TypeOK
  <2>2. InitialStatus(w) \in {"PENDING_APPROVAL", "APPROVED", "CONFIRMED"}
    BY DEF InitialStatus
  <2> QED
    BY <1>2, <1>3, <2>1, <2>2 DEF CreateWithdrawal
<1>4. CASE CreateInternalTransfer(w)
  BY <1>2, <1>4 DEF CreateInternalTransfer
<1>5. CASE RefuseRequest(w)
  <2>1. \A v \in Withdrawals : NotTaken(v) /\ Same(v)
    BY <1>5, UnchangedNotTaken DEF RefuseRequest, Same
  <2> QED
    BY <2>1, SameRow
<1>6. ASSUME NEW op \in Decisions, ReadForDecision(op, w)
      PROVE  \A v \in Withdrawals : RowInv(v)'
  <2>1. \A v \in Withdrawals : NotTaken(v)
    BY <1>6, UnchangedNotTaken DEF ReadForDecision
  <2>2. \A v \in Withdrawals \ {w} : Same(v)
    BY <1>6, <1>c DEF ReadForDecision, Same
  <2>3. RowInv(w)'
    <3>1. /\ UNCHANGED <<wd, journal, worker, custody, inflight, emitted, race>>
          /\ wd[w].status = "PENDING_APPROVAL"
          /\ calls' = calls \cup {Call(op, w)}
      BY <1>6 DEF ReadForDecision
    <3>2. op \in Decisive
      BY WithdrawalsAssumption DEF Decisive
    <3>3. CallsInv(w)'
      BY <1>w, <1>d, <3>1, <3>2 DEF RowInv, CallsInv
    <3>4. Held(w)' <=> Held(w)
      BY <3>1 DEF Held
    <3>5. UntouchedInv(w)' /\ NewsInv(w)' /\ RefundInv(w)' /\ AdminInv(w)'
      BY <1>w, <3>1, <3>4 DEF RowInv, UntouchedInv, Untouched, Posted, Sent, NewsInv, RefundInv,
         Unresolved, AdminInv, Large
    <3> QED
      BY <3>3, <3>5 DEF RowInv
  <2> QED
    BY <2>1, <2>2, <2>3, SameRow
<1>7. ASSUME NEW op \in Decisive, NEW status \in {"APPROVED", "REJECTED", "CANCELLED"},
             Decided(op, w),
             wd'[w].status = status,
             status = "APPROVED" => wd'[w].admin,
             wd'[w].admin = wd[w].admin \/ wd'[w].admin,
             \A v \in Withdrawals \ {w} : wd'[v] = wd[v],
             IF status = "APPROVED" THEN UNCHANGED journal
                                    ELSE journal' = Post(journal, <<"release", w>>)
      PROVE  \A v \in Withdrawals : RowInv(v)'
  <2>1. \A v \in Withdrawals : NotTaken(v)
    BY <1>7, UnchangedNotTaken DEF Decided
  <2>2. /\ \A v \in Withdrawals \ {w} : journal'[<<"release", v>>] = journal[<<"release", v>>]
        /\ status # "APPROVED" => journal'[<<"release", w>>] > 0
    BY <1>7, PostOther
  <2>3. \A v \in Withdrawals \ {w} : Same(v)
    BY <1>7, <1>c, <2>2 DEF Decided, Same, TypeOK
  <2>4. RowInv(w)'
    <3>1. wd[w].status # "ABSENT"
      BY <1>7, <1>w DEF RowInv, CallsInv, Decided
    <3>2. UntouchedInv(w)'
      BY <1>7 DEF UntouchedInv, Untouched
    <3>3. CallsInv(w)'
      BY <1>7, <1>w, <1>d, <3>1 DEF RowInv, CallsInv, Decided
    <3>4. NewsInv(w)'
      BY <1>7, <1>w DEF RowInv, NewsInv, Decided
    <3>5. RefundInv(w)'
      <4>1. CASE wd[w].status = "PENDING_APPROVAL"
        <5>1. ~Posted("release", w) /\ ~Sent(w)
          BY <4>1, <1>w DEF RowInv, UntouchedInv, Untouched
        <5>2. ~Unresolved(w)'
          BY <1>7, <5>1 DEF Unresolved, Sent, Decided
        <5> QED
          BY <1>7, <2>2, <5>1, <5>2 DEF RefundInv, Posted, Refunded
      <4>2. CASE wd[w].status # "PENDING_APPROVAL"
        <5>1. "stale" \in race'[w]
          BY <1>7, <4>2 DEF Decided, TypeOK
        <5> QED
          BY <1>7, <2>2, <5>1 DEF RefundInv, Posted, Refunded
      <4> QED
        BY <4>1, <4>2
    <3>6. AdminInv(w)'
      <4>1. (Held(w)' <=> Held(w)) /\ (Sent(w)' <=> Sent(w))
        BY <1>7 DEF Held, Sent, Decided
      <4> QED
        BY <1>7, <1>w, <4>1 DEF RowInv, AdminInv, Large, Terminal, Refunded
    <3> QED
      BY <3>2, <3>3, <3>4, <3>5, <3>6 DEF RowInv
  <2> QED
    BY <2>1, <2>3, <2>4, SameRow
<1>8. CASE Approve(w)
  <2>1. WithStatus(wd[w], "APPROVED") \in Row /\ WithStatus(wd[w], "APPROVED").status = "APPROVED"
    BY <1>w, <1>s, WithStatusType
  <2>2. /\ wd'[w].status = "APPROVED"
        /\ wd'[w].admin
        /\ \A v \in Withdrawals \ {w} : wd'[v] = wd[v]
    BY <1>8, <2>1 DEF Approve, Row, TypeOK
  <2>3. "approve" \in Decisive
    BY DEF Decisive
  <2> QED
    BY <1>7, <1>8, <2>2, <2>3 DEF Approve
<1>9. ASSUME NEW status \in {"REJECTED", "CANCELLED"},
             wd' = [wd EXCEPT ![w] = WithStatus(@, status)]
      PROVE  /\ wd'[w].status = status
             /\ wd'[w].admin = wd[w].admin
             /\ \A v \in Withdrawals \ {w} : wd'[v] = wd[v]
  <2>1. status \in Status
    BY <1>s
  <2>2. WithStatus(wd[w], status).status = status /\ WithStatus(wd[w], status).admin = wd[w].admin
    BY <1>w, <2>1, WithStatusType
  <2>3. wd'[w] = WithStatus(wd[w], status) /\ \A v \in Withdrawals \ {w} : wd'[v] = wd[v]
    BY <1>9 DEF TypeOK
  <2> QED
    BY <2>2, <2>3
<1>10. CASE Reject(w)
  <2>1. "reject" \in Decisive
    BY DEF Decisive
  <2> QED
    BY <1>7, <1>9, <1>10, <2>1 DEF Reject
<1>11. CASE Cancel(w)
  <2>1. "cancel" \in Decisive
    BY DEF Decisive
  <2> QED
    BY <1>7, <1>9, <1>11, <2>1 DEF Cancel
<1> QED
  BY <1>1, <1>3, <1>4, <1>5, <1>6, <1>8, <1>10, <1>11 DEF Endpoint

\* Steps that touch no row, no event and no release, and take nothing up.
LEMMA IdleStep ==
  ASSUME IInv, UNCHANGED <<db, race, provider, calls>>,
         \A v \in Withdrawals : NotTaken(v)
  PROVE  \A v \in Withdrawals : RowInv(v)'
<1>1. \A v \in Withdrawals : Same(v)
  BY DEF Same, db, provider
<1> QED
  BY <1>1, SameRow DEF IInv

\* One row moves on in the worker's hands, or by the provider's account, without
\* being refunded: to a status past APPROVED, with the provider's word for it.
LEMMA MovedRow ==
  ASSUME IInv, NEW w \in Withdrawals, Held(w) \/ Sent(w),
         wd'[w].status \in {"BROADCASTING", "BROADCASTED", "CONFIRMED"},
         wd'[w].admin = wd[w].admin,
         \A v \in Withdrawals \ {w} : wd'[v] = wd[v],
         \A v \in Withdrawals : journal'[<<"release", v>>] = journal[<<"release", v>>],
         \A v \in Withdrawals : NotTaken(v),
         UNCHANGED <<calls, custody, emitted, race>>,
         \/ UNCHANGED inflight
         \/ inflight' = inflight \cup {w} /\ wd[w].status = "APPROVED"
  PROVE  \A v \in Withdrawals : RowInv(v)'
<1> USE DEF IInv
<1>0. RowInv(w)
  OBVIOUS
<1>1. \A v \in Withdrawals \ {w} : Same(v)
  BY DEF Same
<1>2. RowInv(w)'
  <2>1. Held(w)' => Held(w)
    BY NotTakenHeld
  <2>2. ~Untouched(w) /\ (Large(w) => wd[w].admin)
    BY <1>0 DEF RowInv, UntouchedInv, AdminInv
  <2>3. UntouchedInv(w)' /\ AdminInv(w)'
    BY <2>2 DEF UntouchedInv, Untouched, AdminInv, Large
  <2>4. CallsInv(w)'
    BY <1>0, <2>2 DEF RowInv, CallsInv, Untouched
  <2>5. NewsInv(w)'
    BY <1>0 DEF RowInv, NewsInv, NotTaken
  <2>6. RefundInv(w)'
    BY <1>0 DEF RowInv, RefundInv, Posted, Unresolved, Refunded
  <2> QED
    BY <2>3, <2>4, <2>5, <2>6 DEF RowInv
<1> QED
  BY <1>1, <1>2, SameRow

\* What a written status and the provider's trace do to the rows.
LEMMA WriteEffect ==
  ASSUME TypeOK, NEW w \in Withdrawals, NEW status \in Status, NEW hash \in BOOLEAN,
         \/ wd' = [wd EXCEPT ![w] = WithStatus(wd[w], status)]
         \/ wd' = [wd EXCEPT ![w] = Traced(WithStatus(wd[w], status), hash)]
  PROVE  /\ wd'[w].status = status
         /\ wd'[w].admin = wd[w].admin
         /\ \A v \in Withdrawals \ {w} : wd'[v] = wd[v]
<1>1. WithStatus(wd[w], status) \in Row
  BY WithStatusType DEF TypeOK
<1>2. /\ WithStatus(wd[w], status).status = status
      /\ WithStatus(wd[w], status).admin = wd[w].admin
      /\ Traced(WithStatus(wd[w], status), hash).status = status
      /\ Traced(WithStatus(wd[w], status), hash).admin = wd[w].admin
  BY <1>1, WithStatusType, TracedType DEF TypeOK
<1>3. /\ wd'[w] \in {WithStatus(wd[w], status), Traced(WithStatus(wd[w], status), hash)}
      /\ \A v \in Withdrawals \ {w} : wd'[v] = wd[v]
  BY DEF TypeOK
<1> QED
  BY <1>2, <1>3

\* The worker: a failure of a row it holds, a step forward, or neither.
LEMMA WorkerInv ==
  ASSUME IInv, NEW p \in Workers, WorkerStep(p)
  PROVE  \A v \in Withdrawals : RowInv(v)'
<1> USE DEF IInv
<1>s. {"BROADCASTING", "BROADCASTED", "CONFIRMED"} \subseteq Status
  BY DEF Status, Terminal
<1>n. worker[p] \in WorkerState
  BY DEF TypeOK
<1>h. \A w \in Withdrawals : \A phase, step :
        Looping(p, phase, w) \/ Handling(p, phase, step, w) => Held(w)
  BY DEF Looping, Handling, Held
<1>c. ASSUME NEW w \in Withdrawals, Continue(p, w)
      PROVE  \A v \in Withdrawals : NotTaken(v)
  BY <1>c, ContinueNotTaken
<1>1. CASE StartPass(p)
  <2>1. \A v \in Withdrawals : NotTaken(v)
    BY <1>1, ResetNotTaken DEF StartPass
  <2>2. ASSUME NEW v \in Withdrawals
        PROVE  RowInv(v)'
    <3>1. CASE threshold > 0 /\ wd[v].status = "PENDING_APPROVAL" /\ Amount[v] <= threshold
      <4>1. wd'[v] = WithStatus(wd[v], "APPROVED")
        BY <1>1, <3>1 DEF StartPass
      <4>2. wd'[v].status = "APPROVED"
        BY <4>1, WithStatusType DEF TypeOK, Status
      <4>3. ~Posted("release", v) /\ ~Sent(v) /\ ~Held(v)
        BY <3>1 DEF RowInv, UntouchedInv, Untouched
      <4>4. ~Large(v)
        BY <3>1, WithdrawalsAssumption DEF Large, TypeOK
      <4>5. ~Posted("release", v)' /\ ~Sent(v)' /\ ~Held(v)'
        BY <1>1, <2>1, <4>3, NotTakenHeld DEF StartPass, Posted, Sent, provider
      <4>6. UntouchedInv(v)' /\ RefundInv(v)' /\ AdminInv(v)'
        BY <4>2, <4>4, <4>5 DEF UntouchedInv, Untouched, RefundInv, Refunded, AdminInv, Large
      <4>7. CallsInv(v)'
        BY <1>1, <3>1, <4>2 DEF StartPass, RowInv, CallsInv
      <4>8. NewsInv(v)'
        BY <1>1, <2>1 DEF StartPass, RowInv, NewsInv, NotTaken, provider
      <4> QED
        BY <4>6, <4>7, <4>8 DEF RowInv
    <3>2. CASE ~(threshold > 0 /\ wd[v].status = "PENDING_APPROVAL" /\ Amount[v] <= threshold)
      <4>1. Same(v)
        BY <1>1, <3>2 DEF StartPass, Same, provider
      <4> QED
        BY <2>1, <4>1, SameRow
    <3> QED
      BY <3>1, <3>2
  <2> QED
    BY <2>2
<1>2. CASE Find(p)
  <2>1. PICK b \in Batches(Rows(worker[p].phase)) :
          worker' = [worker EXCEPT ![p] = IF b = {} THEN At(NextPhase[worker[p].phase])
                        ELSE [worker[p] EXCEPT !.step = "loop", !.todo = b]]
    BY <1>2 DEF Find
  <2>2. b \subseteq Rows(worker[p].phase)
    BY <2>1 DEF Batches
  <2>3. worker[p].phase \in Phases
    BY <1>2, <1>n DEF Find, WorkerState
  <2>4. \A v \in b : /\ v \in Withdrawals
                     /\ wd[v].status \in {"APPROVED", "BROADCASTING", "BROADCASTED"}
    BY <2>2, <2>3 DEF Rows, Interrupted, Phases
  <2>5. \A q \in Workers \ {p} : worker'[q] = worker[q]
    BY <2>1 DEF TypeOK
  <2>6. /\ worker'[p].step # "apply"
        /\ worker'[p].todo \subseteq b
        /\ worker'[p].cur \in {None, worker[p].cur}
    <3>1. CASE b = {}
      <4>1. worker'[p] = At(NextPhase[worker[p].phase])
        BY <2>1, <3>1 DEF TypeOK
      <4> QED
        BY <4>1 DEF At
    <3>2. CASE b # {}
      <4>1. worker'[p] = [worker[p] EXCEPT !.step = "loop", !.todo = b]
        BY <2>1, <3>2 DEF TypeOK
      <4> QED
        BY <4>1, <1>n DEF WorkerState
    <3> QED
      BY <3>1, <3>2
  <2>7. UNCHANGED <<wd, journal, calls, custody, inflight, emitted, race>>
    BY <1>2 DEF Find, db, provider
  <2>8. ASSUME NEW v \in Withdrawals
        PROVE  RowInv(v)'
    <3>1. CASE v \in b
      <4>1. ~Untouched(v) /\ (Large(v) => wd[v].admin)
        BY <2>4, <3>1 DEF Untouched, RowInv, AdminInv, Terminal, Refunded
      <4>2. UntouchedInv(v)' /\ AdminInv(v)'
        BY <2>7, <4>1 DEF UntouchedInv, Untouched, AdminInv, Large
      <4>3. NewsInv(v)'
        BY <2>5, <2>6, <2>7 DEF RowInv, NewsInv
      <4>4. CallsInv(v)' /\ RefundInv(v)'
        BY <2>7 DEF RowInv, CallsInv, RefundInv, Posted, Unresolved
      <4> QED
        BY <4>2, <4>3, <4>4 DEF RowInv
    <3>2. CASE v \notin b
      <4>1. v # None
        BY WithdrawalsAssumption
      <4>2. NotTaken(v)
        BY <2>5, <2>6, <3>2, <4>1 DEF NotTaken
      <4>3. Same(v)
        BY <2>7 DEF Same
      <4> QED
        BY <4>2, <4>3, SameRow
    <3> QED
      BY <3>1, <3>2
  <2> QED
    BY <2>8
<1>3. ASSUME NEW w \in Withdrawals,
             FailInterrupted(p, w) \/ FailUnderfunded(p, w) \/ PrepareFails(p, w) \/ SendFails(p, w)
      PROVE  \A v \in Withdrawals : RowInv(v)'
  <2>1. Held(w)
    BY <1>3, <1>h DEF FailInterrupted, FailUnderfunded, PrepareFails, SendFails
  <2>2. FailAndRelease(w) /\ Continue(p, w) /\ UNCHANGED <<calls, custody, inflight, emitted>>
    BY <1>3 DEF FailInterrupted, FailUnderfunded, PrepareFails, SendFails, provider
  <2>3. \E label : race' = Marked(w, label)
    BY <1>3 DEF FailInterrupted, FailUnderfunded, PrepareFails, SendFails
  <2> QED
    BY <2>1, <2>2, <2>3, FailRow
<1>4. ASSUME NEW w \in Withdrawals, Defer(p, w)
      PROVE  \A v \in Withdrawals : RowInv(v)'
  BY <1>4, <1>c, IdleStep DEF Defer, db, provider
<1>5. ASSUME NEW w \in Withdrawals, Claim(p, w)
      PROVE  \A v \in Withdrawals : RowInv(v)'
  <2>1. \A v \in Withdrawals : NotTaken(v)
    BY <1>5, <1>c, HoldNotTaken DEF Claim, Looping
  <2> QED
    BY <1>5, <2>1, IdleStep DEF Claim, db, provider
<1>6. ASSUME NEW w \in Withdrawals, Send(p, w)
      PROVE  \A v \in Withdrawals : RowInv(v)'
  <2>1. \A v \in Withdrawals : NotTaken(v)
    BY <1>6, <1>c, HoldNotTaken DEF Send, Handling
  <2>2. CASE StillApproved(w)
    <3>1. wd' = [wd EXCEPT ![w] = WithStatus(wd[w], "BROADCASTING")]
      BY <1>6, <2>2 DEF Send
    <3>2. /\ wd'[w].status = "BROADCASTING"
          /\ wd'[w].admin = wd[w].admin
          /\ \A v \in Withdrawals \ {w} : wd'[v] = wd[v]
      BY <1>s, <3>1, WriteEffect
    <3>3. Held(w) /\ wd[w].status = "APPROVED"
      BY <1>6, <1>h, <2>2 DEF Send, StillApproved
    <3> QED
      BY <1>6, <2>1, <2>2, <3>2, <3>3, MovedRow DEF Send
  <2>3. CASE ~StillApproved(w)
    BY <1>6, <2>1, <2>3, IdleStep DEF Send, db, provider
  <2> QED
    BY <2>2, <2>3
<1>7. ASSUME NEW w \in Withdrawals, SendReturns(p, w)
      PROVE  \A v \in Withdrawals : RowInv(v)'
  <2>1. \A v \in Withdrawals : NotTaken(v)
    BY <1>7, ResetNotTaken DEF SendReturns
  <2>2. wd' = [wd EXCEPT ![w] = Traced(WithStatus(wd[w], "BROADCASTED"), TRUE)]
    BY <1>7 DEF SendReturns
  <2>3. /\ wd'[w].status = "BROADCASTED"
        /\ wd'[w].admin = wd[w].admin
        /\ \A v \in Withdrawals \ {w} : wd'[v] = wd[v]
    BY <1>s, <2>2, WriteEffect
  <2> QED
    BY <1>7, <1>h, <2>1, <2>3, MovedRow DEF SendReturns, provider
<1>8. ASSUME NEW w \in Withdrawals, AskProvider(p, w)
      PROVE  \A v \in Withdrawals : RowInv(v)'
  <2>1. worker' = [worker EXCEPT ![p] =
                     [worker[p] EXCEPT !.step = "apply", !.cur = w, !.got = custody[w]]]
    BY <1>8 DEF AskProvider, TypeOK
  <2>2. /\ worker'[p].todo = worker[p].todo
        /\ worker'[p].cur = w
        /\ worker'[p].got = custody[w]
        /\ \A q \in Workers \ {p} : worker'[q] = worker[q]
    BY <2>1, <1>n DEF TypeOK, WorkerState
  <2>3. w \in worker[p].todo /\ UNCHANGED <<wd, journal, calls, custody, inflight, emitted, race>>
    BY <1>8 DEF AskProvider, Looping, db, provider
  <2>4. ASSUME NEW v \in Withdrawals
        PROVE  RowInv(v)'
    <3>1. Held(v)' => Held(v)
      BY <2>2, <2>3 DEF Held
    <3>2. NewsInv(v)'
      BY <2>2, <2>3 DEF RowInv, NewsInv
    <3>3. UntouchedInv(v)' /\ CallsInv(v)' /\ RefundInv(v)' /\ AdminInv(v)'
      BY <2>3, <3>1 DEF RowInv, UntouchedInv, Untouched, CallsInv, RefundInv, AdminInv, Large,
         Posted, Sent, Unresolved
    <3> QED
      BY <3>2, <3>3 DEF RowInv
  <2> QED
    BY <2>4
<1>f. ASSUME NEW w \in Withdrawals, Held(w), FailAndRelease(w), custody[w] \in {"reverted", "failed"},
             Continue(p, w), UNCHANGED <<calls, custody, inflight, emitted, race>>
      PROVE  \A v \in Withdrawals : RowInv(v)'
  <2>1. race' = Marked(w, "rival")
    BY <1>f DEF Marked, Unresolved
  <2> QED
    BY <1>f, <2>1, FailRow
<1>m. ASSUME NEW w \in Withdrawals, NEW status \in {"BROADCASTED", "CONFIRMED"}, Held(w),
             \/ wd' = [wd EXCEPT ![w] = WithStatus(wd[w], status)]
             \/ wd' = [wd EXCEPT ![w] = Traced(WithStatus(wd[w], status), TRUE)],
             \A v \in Withdrawals : journal'[<<"release", v>>] = journal[<<"release", v>>],
             Continue(p, w), UNCHANGED <<calls, custody, inflight, emitted, race>>
      PROVE  \A v \in Withdrawals : RowInv(v)'
  <2>1. /\ wd'[w].status = status
        /\ wd'[w].admin = wd[w].admin
        /\ \A v \in Withdrawals \ {w} : wd'[v] = wd[v]
    BY <1>m, <1>s, WriteEffect
  <2> QED
    BY <1>m, <1>c, <2>1, MovedRow
<1>9. ASSUME NEW w \in Withdrawals, ApplyProvider(p, w)
      PROVE  \A v \in Withdrawals : RowInv(v)'
  <2>1. /\ Held(w)
        /\ Continue(p, w)
        /\ UNCHANGED <<calls, custody, inflight, emitted, race>>
    BY <1>9, <1>h DEF ApplyProvider, provider
  <2>2. CASE worker[p].got \in {"broadcasted", "mined"}
    <3>1. wd' = [wd EXCEPT ![w] = Traced(WithStatus(wd[w], "BROADCASTED"), TRUE)]
          /\ UNCHANGED journal
      BY <1>9, <2>2 DEF ApplyProvider
    <3> QED
      BY <1>m, <2>1, <3>1
  <2>3. CASE worker[p].got \in {"reverted", "failed"}
    <3>1. FailAndRelease(w)
      BY <1>9, <2>3 DEF ApplyProvider
    <3>2. custody[w] \in {"reverted", "failed"}
      BY <1>9, <2>3 DEF ApplyProvider, Handling, RowInv, NewsInv
    <3> QED
      BY <1>f, <2>1, <3>1, <3>2
  <2>4. CASE worker[p].got \notin {"broadcasted", "mined", "reverted", "failed"}
    <3>1. UNCHANGED db
      BY <1>9, <2>4 DEF ApplyProvider
    <3> QED
      BY <1>c, <2>1, <3>1, IdleStep DEF provider
  <2> QED
    BY <2>2, <2>3, <2>4
<1>10. ASSUME NEW w \in Withdrawals, Confirm(p, w)
       PROVE  \A v \in Withdrawals : RowInv(v)'
  <2>1. /\ Held(w)
        /\ Continue(p, w)
        /\ UNCHANGED <<calls, custody, inflight, emitted, race>>
    BY <1>10, <1>h DEF Confirm, provider
  <2>2. CASE Outcome(w) = "settle"
    <3>1. /\ wd' = [wd EXCEPT ![w] = WithStatus(wd[w], "CONFIRMED")]
          /\ journal' = Post(journal, <<"settle", w>>)
      BY <1>10, <2>2 DEF Confirm
    <3>2. \A v \in Withdrawals : journal'[<<"release", v>>] = journal[<<"release", v>>]
      BY <3>1, PostOther
    <3> QED
      BY <1>m, <2>1, <3>1, <3>2
  <2>3. CASE Outcome(w) = "refund"
    <3>1. FailAndRelease(w)
      BY <1>10, <2>3 DEF Confirm
    <3>2. custody[w] = "reverted"
      BY <2>3 DEF Outcome
    <3> QED
      BY <1>f, <2>1, <3>1, <3>2
  <2>4. CASE Outcome(w) = "wait"
    <3>1. UNCHANGED db
      BY <1>10, <2>4 DEF Confirm
    <3> QED
      BY <1>c, <2>1, <3>1, IdleStep DEF provider
  <2> QED
    BY <2>2, <2>3, <2>4 DEF Outcome
<1> QED
  BY <1>1, <1>2, <1>3, <1>4, <1>5, <1>6, <1>7, <1>8, <1>9, <1>10 DEF WorkerStep

\* Crashes, aborted passes and skipped rows lose calls and places, nothing else.
LEMMA FaultInv ==
  ASSUME IInv, NEW p \in Workers, Fault(p)
  PROVE  \A v \in Withdrawals : RowInv(v)'
<1> USE DEF IInv
<1>1. \A v \in Withdrawals : NotTaken(v)
  BY ContinueNotTaken, ResetNotTaken DEF Fault, SkipRow, AbortPass, Crash
<1>2. UNCHANGED <<wd, journal, custody, inflight, emitted, race>> /\ calls' \subseteq calls
  BY DEF Fault, SkipRow, AbortPass, Crash, db, provider
<1>3. \A v \in Withdrawals : Same(v)
  BY <1>2 DEF Same
<1> QED
  BY <1>1, <1>3, SameRow

\* Time, the provider and the webhook.
LEMMA EnvironmentInv ==
  ASSUME IInv, NEW w \in Withdrawals, GraceElapses(w) \/ Custody(w) \/ Webhook(w)
  PROVE  \A v \in Withdrawals : RowInv(v)'
<1> USE DEF IInv
<1>n. UNCHANGED worker => \A v \in Withdrawals : NotTaken(v)
  BY UnchangedNotTaken
<1>1. CASE GraceElapses(w)
  <2>1. \A v \in Withdrawals \ {w} : Same(v)
    BY <1>1 DEF GraceElapses, Same, TypeOK, provider
  <2>2. /\ wd'[w].status = wd[w].status
        /\ wd'[w].admin = wd[w].admin
        /\ UNCHANGED <<journal, calls, worker, custody, inflight, emitted, race>>
    BY <1>1 DEF GraceElapses, TypeOK, Row, provider
  <2>3. RowInv(w)'
    <3>1. Held(w)' <=> Held(w)
      BY <2>2 DEF Held
    <3> QED
      BY <2>2, <3>1 DEF RowInv, UntouchedInv, Untouched, CallsInv, NewsInv, RefundInv, AdminInv,
         Large, Posted, Sent, Unresolved
  <2> QED
    BY <1>n, <2>1, <2>2, <2>3, SameRow
<1>2. CASE Custody(w)
  <2>1. /\ UNCHANGED <<wd, journal, calls, worker, race>>
        /\ \A v \in Withdrawals \ {w} :
             custody'[v] = custody[v] /\ emitted'[v] = emitted[v] /\ (v \in inflight' <=> v \in inflight)
    BY <1>2 DEF Custody, Accept, Drop, Announce, Broadcast, Mine, Revert, GiveUp, Provide, db, TypeOK
  <2>2. \A v \in Withdrawals \ {w} : Same(v)
    BY <2>1 DEF Same
  <2>3. /\ Sent(w)' => Sent(w)
        /\ Unresolved(w)' => Unresolved(w)
    BY <1>2 DEF Custody, Accept, Drop, Announce, Broadcast, Mine, Revert, GiveUp, Provide, TypeOK,
       Sent, Unresolved
  <2>4. NewsInv(w)'
    <3>1. CASE Accept(w) \/ Drop(w)
      BY <3>1, <2>1 DEF Accept, Drop, TypeOK, RowInv, NewsInv
    <3>2. CASE Announce(w) \/ Broadcast(w) \/ Mine(w) \/ Revert(w) \/ GiveUp(w)
      BY <3>2, <2>1 DEF Announce, Broadcast, Mine, Revert, GiveUp, Provide, TypeOK, RowInv, NewsInv
    <3> QED
      BY <1>2, <3>1, <3>2 DEF Custody
  <2>5. RowInv(w)'
    <3>1. Held(w)' <=> Held(w)
      BY <2>1 DEF Held
    <3>2. UntouchedInv(w)' /\ CallsInv(w)' /\ AdminInv(w)'
      BY <2>1, <2>3, <3>1 DEF RowInv, UntouchedInv, Untouched, CallsInv, AdminInv, Large, Posted
    <3>3. RefundInv(w)'
      BY <2>1, <2>3 DEF RowInv, RefundInv, Posted
    <3> QED
      BY <2>4, <3>2, <3>3 DEF RowInv
  <2> QED
    BY <1>n, <2>1, <2>2, <2>5, SameRow
<1>3. ASSUME NEW event \in EventTypes, Deliver(w, event)
      PROVE  \A v \in Withdrawals : RowInv(v)'
  <2> DEFINE hash == event \in Hashed
  <2>1. EventStatus(w, event) \in Status
    BY DEF EventStatus, TypeOK, Row, Status, Terminal, Refunded
  <2>2. hash \in BOOLEAN
    OBVIOUS
  <2>3. wd' = [wd EXCEPT ![w] = Traced(WithStatus(wd[w], EventStatus(w, event)), hash)]
    BY <1>3, Zenon DEF Deliver
  <2> HIDE DEF hash
  <2>4. /\ wd'[w].status = EventStatus(w, event)
        /\ wd'[w].admin = wd[w].admin
        /\ \A v \in Withdrawals \ {w} : wd'[v] = wd[v]
    BY <2>1, <2>2, <2>3, WriteEffect
  <2>5. /\ UNCHANGED <<calls, worker, custody, inflight, emitted, race>>
        /\ event \in emitted[w]
        /\ journal' = IF Fails(event) THEN Post(journal, <<"release", w>>) ELSE journal
    BY <1>3 DEF Deliver, provider
  <2>6. Sent(w) /\ ~Untouched(w) /\ (Large(w) => wd[w].admin)
    BY <2>5 DEF RowInv, NewsInv, UntouchedInv, AdminInv, Sent
  <2>7. \A v \in Withdrawals \ {w} : journal'[<<"release", v>>] = journal[<<"release", v>>]
    BY <2>5, PostOther
  <2>8. \A v \in Withdrawals \ {w} : Same(v)
    BY <2>4, <2>5, <2>7 DEF Same
  <2>9. RowInv(w)'
    <3>1. wd'[w].status \notin {"ABSENT", "PENDING_APPROVAL"}
      BY <2>4, <2>6 DEF EventStatus, Untouched
    <3>2. UntouchedInv(w)' /\ AdminInv(w)'
      BY <2>4, <2>6, <3>1 DEF UntouchedInv, Untouched, AdminInv, Large
    <3>3. CallsInv(w)'
      BY <2>5, <2>6, <3>1 DEF RowInv, CallsInv, Untouched
    <3>4. NewsInv(w)'
      BY <2>5 DEF RowInv, NewsInv
    <3>5. RefundInv(w)'
      <4>1. CASE Fails(event)
        <5>1. custody[w] \in {"failed", "reverted"}
          BY <2>5, <4>1 DEF Fails, RowInv, NewsInv
        <5>2. ~Unresolved(w)'
          BY <2>5, <5>1 DEF Unresolved
        <5>3. journal'[<<"release", w>>] > 0
          BY <2>5, <4>1, PostOther
        <5>4. wd'[w].status = "FAILED"
          BY <2>4, <4>1 DEF EventStatus, Fails
        <5> QED
          BY <5>2, <5>3, <5>4 DEF RefundInv, Posted
      <4>2. CASE ~Fails(event)
        <5>1. UNCHANGED journal
          BY <2>5, <4>2
        <5>2. wd'[w].status \in {"BROADCASTED", wd[w].status}
          BY <2>4, <4>2 DEF EventStatus
        <5> QED
          BY <2>5, <5>1, <5>2 DEF RowInv, RefundInv, Posted, Unresolved, Refunded
      <4> QED
        BY <4>1, <4>2
    <3> QED
      BY <3>2, <3>3, <3>4, <3>5 DEF RowInv
  <2> QED
    BY <1>n, <2>5, <2>8, <2>9, SameRow
<1> QED
  BY <1>1, <1>2, <1>3 DEF Webhook

-----------------------------------------------------------------------------
(* The theorems *)

LEMMA Invariance == Spec => []IInv
<1>1. Init => IInv
  <2> SUFFICES ASSUME Init
               PROVE  \A w \in Withdrawals : RowInv(w)
    BY AtType, WithdrawalsAssumption
       DEF IInv, Init, TypeOK, Absent, Row, Status, Terminal, Refunded, CustodyState, EventTypes
  <2> TAKE w \in Withdrawals
  <2>1. <<"release", w>> \in Keys /\ None # w
    BY WithdrawalsAssumption DEF Keys
  <2>2. /\ wd[w].status = "ABSENT"
        /\ ~Posted("release", w)
        /\ ~Sent(w) /\ ~Held(w)
        /\ calls = {} /\ emitted[w] = {}
    BY <2>1 DEF Init, Absent, Posted, Sent, Held, At
  <2> QED
    BY <2>2 DEF RowInv, UntouchedInv, CallsInv, NewsInv, RefundInv, AdminInv, Refunded, Init, At
<1>2. IInv /\ [Next]_vars => IInv'
  <2> SUFFICES ASSUME IInv, [Next]_vars
               PROVE  IInv'
    OBVIOUS
  <2>1. CASE UNCHANGED vars
    <3>1. TypeOK'
      BY <2>1 DEF IInv, TypeOK, vars
    <3>2. \A v \in Withdrawals : NotTaken(v)
      BY <2>1, UnchangedNotTaken DEF vars
    <3>3. UNCHANGED <<db, race, provider, calls>>
      BY <2>1 DEF vars, db, provider
    <3> QED
      BY <3>1, <3>2, <3>3, IdleStep DEF IInv
  <2>2. CASE Next
    <3>1. TypeOK'
      BY <2>2, EndpointType, WorkerStepType, FaultType, EnvironmentType DEF Next, IInv
    <3>2. \A v \in Withdrawals : RowInv(v)'
      BY <2>2, EndpointInv, WorkerInv, FaultInv, EnvironmentInv DEF Next
    <3> QED
      BY <3>1, <3>2 DEF IInv
  <2> QED
    BY <2>1, <2>2
<1> QED
  BY <1>1, <1>2, PTL DEF Spec

\* Whatever the interleaving of endpoints, workers, crashes and webhooks, a
\* withdrawal shown as failed, rejected or cancelled has its reserve back.
THEOREM RefundedIsReleasedAlways == Spec => []RefundedIsReleased
<1>1. IInv => RefundedIsReleased
  BY DEF IInv, RowInv, RefundInv, RefundedIsReleased
<1> QED
  BY <1>1, Invariance, PTL

\* A withdrawal is refunded and paid only through a race window of the code.
THEOREM PaidOrRefundedAlways == Spec => []PaidOrRefunded
<1>1. IInv => PaidOrRefunded
  BY DEF IInv, RowInv, RefundInv, PaidOrRefunded, Paid, Unresolved
<1> QED
  BY <1>1, Invariance, PTL

\* No amount above every threshold reaches the provider without an administrator.
THEOREM LargeNeedsAdminAlways == Spec => []LargeNeedsAdmin
<1>1. IInv => LargeNeedsAdmin
  BY DEF IInv, RowInv, AdminInv, LargeNeedsAdmin
<1> QED
  BY <1>1, Invariance, PTL

\* A refunded withdrawal is handed to the provider only behind a stale decision.
THEOREM RefundedIsNotSentEver == Spec => RefundedIsNotSent
<1> DEFINE A == \A w \in Withdrawals :
                  Posted("release", w) /\ w \notin inflight /\ w \in inflight' => "stale" \in race[w]
<1>1. IInv /\ [Next]_vars => [A]_vars
  <2> SUFFICES ASSUME IInv, Next, NEW w \in Withdrawals,
                      Posted("release", w), w \notin inflight, w \in inflight'
               PROVE  "stale" \in race[w]
    OBVIOUS
  <2>1. ASSUME NEW v \in Withdrawals, Endpoint(v) \/ GraceElapses(v) \/ Custody(v) \/ Webhook(v)
        PROVE  FALSE
    <3>1. inflight' \subseteq inflight
      BY <2>1 DEF Endpoint, CheckRequest, CreateWithdrawal, CreateInternalTransfer, RefuseRequest,
         ReadForDecision, Approve, Reject, Cancel, Decided, GraceElapses, Custody, Accept, Drop,
         Announce, Broadcast, Mine, Revert, GiveUp, Webhook, Deliver, provider
    <3> QED
      BY <3>1
  <2>2. ASSUME NEW q \in Workers, Fault(q)
        PROVE  FALSE
    BY <2>2 DEF Fault, SkipRow, AbortPass, Crash, provider
  <2>3. PICK p \in Workers : WorkerStep(p)
    BY <2>1, <2>2 DEF Next
  <2>4. PICK v \in Withdrawals : Send(p, v)
    BY <2>3 DEF WorkerStep, StartPass, Find, FailInterrupted, Defer, FailUnderfunded, Claim,
       PrepareFails, SendReturns, SendFails, AskProvider, ApplyProvider, Confirm, provider
  <2>5. wd[w].status = "APPROVED"
    BY <2>4 DEF Send, StillApproved
  <2> QED
    BY <2>5 DEF IInv, RowInv, RefundInv
<1>2. [][A]_vars => RefundedIsNotSent
  BY DEF RefundedIsNotSent
<1> QED
  BY <1>1, <1>2, Invariance, PTL DEF Spec

-----------------------------------------------------------------------------
(* The escrow *)
Ops == {"reserve", "release", "settle", "internal"}

-----------------------------------------------------------------------------
(* The ledger side of the invariant, one withdrawal at a time *)

\* Nothing is posted for a withdrawal that has no row.
FreshInv(w) == wd[w].status = "ABSENT" => \A op \in Ops : ~Posted(op, w)

\* An internal transfer is final when its row appears: no administrator, worker
\* or provider ever has it.
InternalInv(w) ==
  w \in Internal =>
    /\ wd[w].status \in {"ABSENT", "CONFIRMED"}
    /\ \A op \in Ops \ {"internal"} : ~Posted(op, w)
    /\ ~Sent(w) /\ ~Held(w)
    /\ \A op \in Decisive : Call(op, w) \notin calls

\* Any other withdrawal has its reserve from the moment it has a row.
ReservedInv(w) ==
  w \notin Internal =>
    /\ ~Posted("internal", w)
    /\ wd[w].status # "ABSENT" => Posted("reserve", w)

SettledInv(w) ==
  /\ wd[w].status = "CONFIRMED" => Posted("settle", w) \/ Posted("internal", w)
  /\ Posted("settle", w) => Paid(w)

StageInv(w) == FreshInv(w) /\ InternalInv(w) /\ ReservedInv(w) /\ SettledInv(w)

LedgerInv == IInv /\ \A w \in Withdrawals : StageInv(w)

-----------------------------------------------------------------------------
(* What a step does to the money of a withdrawal *)

\* Nothing: at most an automatic approval, a decision read, or a place in a pass.
Still(v) ==
  /\ \/ wd'[v].status = wd[v].status
     \/ wd[v].status = "PENDING_APPROVAL" /\ wd'[v].status = "APPROVED"
  /\ \A op \in Ops : journal'[<<op, v>>] = journal[<<op, v>>]
  /\ Paid(v)' <=> Paid(v)
  /\ Sent(v)' => Sent(v)
  /\ race'[v] = race[v]
  /\ Held(v)' => Held(v) \/ wd[v].status \notin {"ABSENT", "CONFIRMED"}
  /\ \A op \in Decisive :
       Call(op, v) \in calls' => Call(op, v) \in calls \/ wd[v].status = "PENDING_APPROVAL"

\* The request's transaction.
Created(w) ==
  /\ wd[w].status = "ABSENT" /\ wd'[w].status \in {"PENDING_APPROVAL", "APPROVED"}
  /\ w \notin Internal
  /\ journal'[<<"reserve", w>>] > 0
  /\ \A op \in Ops \ {"reserve"} : journal'[<<op, w>>] = journal[<<op, w>>]
  /\ UNCHANGED <<custody, race>>

\* The internal transfer's transaction.
Transferred(w) ==
  /\ wd[w].status = "ABSENT" /\ wd'[w].status = "CONFIRMED"
  /\ w \in Internal
  /\ journal'[<<"internal", w>>] > 0
  /\ \A op \in Ops \ {"internal"} : journal'[<<op, w>>] = journal[<<op, w>>]
  /\ calls' \subseteq calls
  /\ UNCHANGED <<worker, custody, inflight, race>>

\* A decision, the worker, the webhook or the chain acts on a reserved one.
Handled(w) ==
  /\ w \notin Internal
  /\ wd[w].status # "ABSENT" /\ wd'[w].status # "ABSENT"
  /\ wd'[w].status = "CONFIRMED" => wd[w].status = "CONFIRMED" \/ Posted("settle", w)'
  /\ \A op \in {"reserve", "internal"} : journal'[<<op, w>>] = journal[<<op, w>>]
  /\ \A op \in {"release", "settle"} : Posted(op, w) => Posted(op, w)'
  /\ Posted("settle", w)' => Posted("settle", w) \/ Paid(w)
  /\ Paid(w) => Paid(w)'
  /\ race[w] \subseteq race'[w]
  /\ (Posted("release", w)' <=> Posted("release", w)) \/ (Paid(w)' <=> Paid(w))

\* Only the money of w is touched.
Only(w) == \A v \in Withdrawals \ {w} : Still(v)

Step ==
  \/ \A v \in Withdrawals : Still(v)
  \/ \E w \in Withdrawals : Only(w) /\ (Created(w) \/ Transferred(w) \/ Handled(w))

-----------------------------------------------------------------------------
(* Such steps keep the invariant and the promise *)

LEMMA StillStage ==
  ASSUME NEW v \in Withdrawals, StageInv(v), Still(v)
  PROVE  StageInv(v)'
<1>1. \A op \in Ops : Posted(op, v)' <=> Posted(op, v)
  BY DEF Still, Posted
<1>2. FreshInv(v)'
  BY <1>1 DEF StageInv, FreshInv, Still
<1>3. InternalInv(v)'
  BY <1>1 DEF StageInv, InternalInv, Still, Internal
<1>4. ReservedInv(v)' /\ SettledInv(v)'
  BY <1>1 DEF StageInv, ReservedInv, SettledInv, Still, Internal, Ops
<1> QED
  BY <1>2, <1>3, <1>4 DEF StageInv

LEMMA CreatedStage ==
  ASSUME NEW w \in Withdrawals, StageInv(w), Created(w)
  PROVE  StageInv(w)'
<1>1. /\ Posted("reserve", w)'
      /\ \A op \in Ops \ {"reserve"} : ~Posted(op, w)'
  BY DEF StageInv, FreshInv, Created, Posted
<1>2. w \notin Internal' /\ wd'[w].status \notin {"ABSENT", "CONFIRMED"}
  BY DEF Created, Internal
<1> QED
  BY <1>1, <1>2 DEF StageInv, FreshInv, InternalInv, ReservedInv, SettledInv, Ops

LEMMA TransferredStage ==
  ASSUME NEW w \in Withdrawals, StageInv(w), RowInv(w), Transferred(w)
  PROVE  StageInv(w)'
<1>1. /\ Posted("internal", w)'
      /\ \A op \in Ops \ {"internal"} : ~Posted(op, w)'
  BY DEF StageInv, FreshInv, Transferred, Posted
<1>2. w \in Internal' /\ wd'[w].status = "CONFIRMED"
  BY DEF Transferred, Internal
<1>3. ~Sent(w)' /\ ~Held(w)' /\ \A op \in Decisive : Call(op, w) \notin calls'
  BY DEF Transferred, RowInv, UntouchedInv, Untouched, CallsInv, Sent, Held
<1> QED
  BY <1>1, <1>2, <1>3 DEF StageInv, FreshInv, InternalInv, ReservedInv, SettledInv, Ops

LEMMA HandledStage ==
  ASSUME NEW w \in Withdrawals, StageInv(w), Handled(w)
  PROVE  StageInv(w)'
<1>1. w \notin Internal' /\ wd'[w].status # "ABSENT"
  BY DEF Handled, Internal
<1>2. Posted("reserve", w)' /\ ~Posted("internal", w)'
  BY DEF Handled, StageInv, ReservedInv, Posted
<1>3. SettledInv(w)'
  BY <1>2 DEF Handled, StageInv, SettledInv, ReservedInv
<1> QED
  BY <1>1, <1>2, <1>3 DEF StageInv, FreshInv, InternalInv, ReservedInv

\* Every such step is a step of Escrow, or none: the stage of one withdrawal at
\* most changes, along the lines Escrow draws.
LEMMA StillStageOf ==
  ASSUME NEW v \in Withdrawals, Still(v)
  PROVE  StageOf(v)' = StageOf(v) /\ (race'[v] # {} <=> race[v] # {})
<1>1. \A op \in Ops : Posted(op, v)' <=> Posted(op, v)
  BY DEF Still, Posted
<1> QED
  BY <1>1 DEF StageOf, Spent, Still, Ops

Stage == [w \in Withdrawals |-> StageOf(w)]

Contested == {w \in Withdrawals : race[w] # {}}

\* The stages and contested withdrawals when only w is touched.
LEMMA OneStage ==
  ASSUME NEW w \in Withdrawals, Only(w), race[w] \subseteq race'[w]
  PROVE  /\ Stage' = [Stage EXCEPT ![w] = StageOf(w)']
         /\ Contested' \in {Contested, Contested \cup {w}}
         /\ w \in Contested' <=> race'[w] # {}
<1>1. \A v \in Withdrawals \ {w} : StageOf(v)' = StageOf(v) /\ (race'[v] # {} <=> race[v] # {})
  BY StillStageOf DEF Only
<1>2. Stage' = [v \in Withdrawals |-> StageOf(v)']
  BY DEF Stage
<1>3. Stage' = [Stage EXCEPT ![w] = StageOf(w)']
  BY <1>1, <1>2 DEF Stage
<1>4. Contested' = {v \in Withdrawals : race'[v] # {}}
  BY DEF Contested
<1> QED
  BY <1>1, <1>3, <1>4 DEF Contested

LEMMA StepKeepsPromise ==
  ASSUME LedgerInv, LedgerInv', Step
  PROVE  [Promise!Next]_(Promise!evars)
<1>1. CASE \A v \in Withdrawals : Still(v)
  <2>1. Stage' = Stage /\ Contested' = Contested
    BY <1>1, StillStageOf DEF Stage, Contested
  <2> QED
    BY <2>1 DEF Promise!evars, Stage, Contested
<1>2. ASSUME NEW w \in Withdrawals, Only(w), Created(w) \/ Transferred(w) \/ Handled(w)
      PROVE  [Promise!Next]_(Promise!evars)
  <2>r. race[w] \subseteq race'[w]
    BY <1>2 DEF Created, Transferred, Handled
  <2>i. StageInv(w) /\ RowInv(w) /\ RowInv(w)'
    BY DEF LedgerInv, IInv
  <2>s. /\ Stage' = [Stage EXCEPT ![w] = StageOf(w)']
        /\ Contested' \in {Contested, Contested \cup {w}}
        /\ w \in Contested' <=> race'[w] # {}
        /\ Stage[w] = StageOf(w)
    BY <1>2, <2>r, OneStage DEF Stage
  <2>n. ASSUME \/ StageOf(w) = "none" /\ StageOf(w)' \in {"held", "spent"}
               \/ StageOf(w) = "held" /\ StageOf(w)' \in {"spent", "returned"}
               \/ StageOf(w) \in {"returned", "spent"} /\ StageOf(w)' = "both" /\ race'[w] # {}
               \/ StageOf(w) # "none" /\ StageOf(w)' = StageOf(w)
        PROVE  [Promise!Next]_(Promise!evars)
    <3>1. \/ Promise!Hold(w) \/ Promise!Pay(w) \/ Promise!Spend(w) \/ Promise!Return(w)
          \/ Promise!Contest(w)
      <4>1. ASSUME StageOf(w) # "none", StageOf(w)' = StageOf(w)
            PROVE  Stage' = Stage
        BY <2>s, <4>1 DEF Stage
      <4> QED
        BY <2>n, <2>s, <4>1
           DEF Promise!Hold, Promise!Pay, Promise!Spend, Promise!Return, Promise!Contest,
               Promise!Moves, Stage, Contested
    <3> QED
      BY <2>s, <3>1 DEF Promise!Next, Stage, Contested
  <2>1. CASE Created(w)
    <3>1. ~Paid(w) /\ ~Paid(w)'
      BY <2>1, <2>i DEF Created, RowInv, UntouchedInv, Untouched, Sent, Paid
    <3>2. StageOf(w) = "none" /\ StageOf(w)' = "held"
      BY <2>1, <2>i, <3>1 DEF Created, StageInv, FreshInv, Posted, StageOf, Spent, Ops
    <3> QED
      BY <2>n, <3>2
  <2>2. CASE Transferred(w)
    <3>1. ~Paid(w)
      BY <2>2, <2>i DEF Transferred, RowInv, UntouchedInv, Untouched, Sent, Paid
    <3>2. StageOf(w) = "none" /\ StageOf(w)' = "spent"
      BY <2>2, <2>i, <3>1 DEF Transferred, StageInv, FreshInv, Posted, StageOf, Spent, Ops
    <3> QED
      BY <2>n, <3>2
  <2>3. CASE Handled(w)
    <3>1. /\ Posted("reserve", w) /\ Posted("reserve", w)'
          /\ ~Posted("internal", w) /\ ~Posted("internal", w)'
      BY <2>3, <2>i DEF Handled, StageInv, ReservedInv, Posted
    <3>2. Posted("release", w)' /\ Paid(w)' => race'[w] # {}
      BY <2>i DEF RowInv, RefundInv, Unresolved, Paid
    <3> QED
      BY <2>3, <2>n, <3>1, <3>2 DEF Handled, StageOf, Spent
  <2> QED
    BY <1>2, <2>1, <2>2, <2>3
<1> QED
  BY <1>1, <1>2 DEF Step

-----------------------------------------------------------------------------
(* Every step of the service is such a step *)

LEMMA PostKeys ==
  ASSUME TypeOK, NEW op \in Ops, NEW w \in Withdrawals, journal' = Post(journal, <<op, w>>)
  PROVE  /\ Posted(op, w)'
         /\ \A op2 \in Ops, v \in Withdrawals :
              op2 # op \/ v # w => journal'[<<op2, v>>] = journal[<<op2, v>>]
<1>1. <<op, w>> \in Keys /\ \A op2 \in Ops, v \in Withdrawals : <<op2, v>> \in Keys
  BY DEF Keys, Ops
<1>2. \A op2 \in Ops, v \in Withdrawals : op2 # op \/ v # w => <<op2, v>> # <<op, w>>
  OBVIOUS
<1>3. /\ journal'[<<op, w>>] > 0
      /\ \A k \in Keys \ {<<op, w>>} : journal'[k] = journal[k]
  BY <1>1, PostType DEF TypeOK
<1>4. Posted(op, w)'
  BY <1>3 DEF Posted
<1> QED
  BY <1>1, <1>2, <1>3, <1>4

\* A step that changes no row's money.
LEMMA QuietStep ==
  ASSUME \A v \in Withdrawals : \/ wd'[v].status = wd[v].status
                                \/ wd[v].status = "PENDING_APPROVAL" /\ wd'[v].status = "APPROVED",
         UNCHANGED <<journal, race>>,
         \A v \in Withdrawals : (Paid(v)' <=> Paid(v)) /\ (Sent(v)' => Sent(v)),
         \A v \in Withdrawals : Held(v)' => Held(v) \/ wd[v].status \notin {"ABSENT", "CONFIRMED"},
         \A v \in Withdrawals : \A op \in Decisive :
           Call(op, v) \in calls' => Call(op, v) \in calls \/ wd[v].status = "PENDING_APPROVAL"
  PROVE  Step
<1>1. \A v \in Withdrawals : Still(v)
  BY DEF Still
<1> QED
  BY <1>1 DEF Step

\* A step that acts on the row w: others keep their row, their keys and their races.
Acts(w) ==
  /\ \A v \in Withdrawals \ {w} :
       /\ wd'[v] = wd[v]
       /\ race'[v] = race[v]
       /\ \A op \in Ops : journal'[<<op, v>>] = journal[<<op, v>>]
  /\ UNCHANGED custody
  /\ inflight' \subseteq inflight \cup {w}
  /\ calls' \subseteq calls
  /\ \A v \in Withdrawals : NotTaken(v)

LEMMA ActsOnly ==
  ASSUME NEW w \in Withdrawals, Acts(w)
  PROVE  Only(w)
<1> SUFFICES ASSUME NEW v \in Withdrawals \ {w}
             PROVE  Still(v)
  BY DEF Only
<1>1. Held(v)' => Held(v)
  BY NotTakenHeld DEF Acts
<1> QED
  BY <1>1 DEF Acts, Still, Paid, Sent

\* Whatever a worker holds, the provider knows or an administrator read has a
\* row and is no internal transfer.
LEMMA Reserved ==
  ASSUME NEW w \in Withdrawals, RowInv(w), StageInv(w),
         Held(w) \/ Sent(w) \/ \E op \in Decisive : Call(op, w) \in calls
  PROVE  w \notin Internal /\ wd[w].status # "ABSENT"
  BY DEF RowInv, UntouchedInv, Untouched, CallsInv, StageInv, InternalInv

\* A row is written and its money is where it was.
LEMMA WriteStep ==
  ASSUME LedgerInv, NEW w \in Withdrawals, Acts(w), UNCHANGED journal,
         Held(w) \/ Sent(w) \/ \E op \in Decisive : Call(op, w) \in calls,
         wd'[w].status \notin {"ABSENT", "CONFIRMED"}, race[w] \subseteq race'[w]
  PROVE  Step
<1>1. w \notin Internal /\ wd[w].status # "ABSENT"
  BY Reserved DEF LedgerInv, IInv
<1>2. Paid(w)' <=> Paid(w)
  BY DEF Acts, Paid
<1>3. Handled(w)
  BY <1>1, <1>2 DEF Handled, Posted
<1> QED
  BY <1>3, ActsOnly DEF Step

\* A row is written and its reserve is given back.
LEMMA ReleaseStep ==
  ASSUME LedgerInv, NEW w \in Withdrawals, Acts(w), journal' = Post(journal, <<"release", w>>),
         Held(w) \/ Sent(w) \/ \E op \in Decisive : Call(op, w) \in calls,
         wd'[w].status \notin {"ABSENT", "CONFIRMED"}, race[w] \subseteq race'[w]
  PROVE  Step
<1>1. w \notin Internal /\ wd[w].status # "ABSENT"
  BY Reserved DEF LedgerInv, IInv
<1>2. Paid(w)' <=> Paid(w)
  BY DEF Acts, Paid
<1>3. /\ Posted("release", w)'
      /\ \A op \in Ops \ {"release"} : journal'[<<op, w>>] = journal[<<op, w>>]
  BY ZenonT(60), PostKeys DEF LedgerInv, IInv, Ops
<1>4. Handled(w)
  BY <1>1, <1>2, <1>3 DEF Handled, Posted, Ops
<1> QED
  BY <1>4, ActsOnly DEF Step

\* failAndRelease, in the hands of a worker.
LEMMA FailStep ==
  ASSUME LedgerInv, NEW p \in Workers, NEW w \in Withdrawals, Held(w), FailAndRelease(w),
         NEW label, race' = race \/ race' = Marked(w, label), Continue(p, w),
         UNCHANGED <<calls, custody, inflight>>
  PROVE  Step
<1>t. TypeOK /\ RowInv(w)
  BY DEF LedgerInv, IInv
<1>1. \A v \in Withdrawals : NotTaken(v)
  BY <1>t, ContinueNotTaken
<1>2. /\ \A v \in Withdrawals \ {w} : race'[v] = race[v]
      /\ race[w] \subseteq race'[w]
  BY <1>t DEF Marked, TypeOK
<1>3. CASE wd[w].status \in Refunded
  <2>1. UNCHANGED db
    BY <1>3 DEF FailAndRelease
  <2>2. Acts(w)
    BY <1>1, <1>2, <2>1 DEF Acts, db
  <2>3. UNCHANGED journal /\ wd'[w].status \notin {"ABSENT", "CONFIRMED"}
    BY <1>3, <2>1 DEF db, Refunded
  <2> QED
    BY <1>2, <2>2, <2>3, WriteStep
<1>4. CASE wd[w].status \notin Refunded
  <2>1. journal' = Post(journal, <<"release", w>>)
    BY <1>4 DEF FailAndRelease
  <2>2. /\ \A v \in Withdrawals \ {w} : wd'[v] = wd[v]
        /\ wd'[w].status \in Refunded
    BY <1>t, FailEffect DEF RowInv
  <2>3. \A v \in Withdrawals \ {w} : \A op \in Ops : journal'[<<op, v>>] = journal[<<op, v>>]
    <3>1. "release" \in Ops
      BY DEF Ops
    <3> QED
      BY <1>t, <2>1, <3>1, PostKeys
  <2>4. Acts(w)
    BY <1>1, <1>2, <2>2, <2>3 DEF Acts
  <2> QED
    BY <1>2, <2>1, <2>2, <2>4, ReleaseStep DEF Refunded
<1> QED
  BY <1>3, <1>4

LEMMA EndpointStep ==
  ASSUME LedgerInv, NEW w \in Withdrawals, Endpoint(w)
  PROVE  Step
<1> USE DEF db, provider
<1>t. TypeOK /\ RowInv(w) /\ StageInv(w) /\ wd[w] \in Row
  BY DEF LedgerInv, IInv, TypeOK
<1>s. {"PENDING_APPROVAL", "APPROVED", "REJECTED", "CANCELLED", "CONFIRMED"} \subseteq Status
  BY DEF Status, Terminal, Refunded
<1>n. UNCHANGED worker => /\ \A v \in Withdrawals : NotTaken(v)
                          /\ \A v \in Withdrawals : Held(v)' => Held(v)
  BY UnchangedNotTaken, NotTakenHeld
<1>1. CASE CheckRequest(w) \/ RefuseRequest(w) \/ \E op \in Decisions : ReadForDecision(op, w)
  <2>1. UNCHANGED <<wd, journal, race, custody, inflight, worker>>
    BY <1>1 DEF CheckRequest, RefuseRequest, ReadForDecision
  <2>2. \A v \in Withdrawals, op \in Decisive :
          Call(op, v) \in calls' => Call(op, v) \in calls \/ wd[v].status = "PENDING_APPROVAL"
    <3>1. CASE CheckRequest(w) \/ RefuseRequest(w)
      BY <3>1 DEF CheckRequest, RefuseRequest, Call, Decisive
    <3>2. ASSUME NEW op \in Decisions, ReadForDecision(op, w)
          PROVE  /\ calls' = calls \cup {Call(op, w)}
                 /\ wd[w].status = "PENDING_APPROVAL"
      BY <3>2 DEF ReadForDecision
    <3> QED
      BY <1>1, <3>1, <3>2 DEF Call
  <2>3. \A v \in Withdrawals : (Paid(v)' <=> Paid(v)) /\ (Sent(v)' => Sent(v))
    BY <2>1 DEF Paid, Sent
  <2> QED
    BY <1>n, <2>1, <2>2, <2>3, QuietStep
<1>2. CASE CreateWithdrawal(w) \/ CreateInternalTransfer(w)
  <2> DEFINE op == IF w \in Internal THEN "internal" ELSE "reserve"
  <2>1. /\ wd[w].status = "ABSENT"
        /\ journal' = Post(journal, <<op, w>>)
        /\ op \in Ops
        /\ calls' \subseteq calls
        /\ UNCHANGED <<worker, custody, inflight, race>>
    BY <1>2, <1>t DEF CreateWithdrawal, CreateInternalTransfer, RowInv, CallsInv, Ops
  <2>2. /\ \A v \in Withdrawals \ {w} : wd'[v] = wd[v]
        /\ wd'[w].status = (IF w \in Internal THEN "CONFIRMED" ELSE InitialStatus(w))
    BY <1>2, <1>t DEF CreateWithdrawal, CreateInternalTransfer, TypeOK, Row
  <2>3. /\ journal'[<<op, w>>] > 0
        /\ \A op2 \in Ops, v \in Withdrawals :
             op2 # op \/ v # w => journal'[<<op2, v>>] = journal[<<op2, v>>]
    BY <1>t, <2>1, PostKeys DEF Posted
  <2>4. Acts(w)
    BY <1>n, <2>1, <2>2, <2>3 DEF Acts
  <2>5. Created(w) \/ Transferred(w)
    BY <2>1, <2>2, <2>3 DEF Created, Transferred, InitialStatus
  <2> QED
    BY <2>4, <2>5, ActsOnly DEF Step
<1>3. ASSUME NEW op \in Decisive, Decided(op, w),
             \A v \in Withdrawals \ {w} : wd'[v] = wd[v],
             wd'[w].status \in {"APPROVED", "REJECTED", "CANCELLED"},
             UNCHANGED journal \/ journal' = Post(journal, <<"release", w>>)
      PROVE  Step
  <2>1. /\ Call(op, w) \in calls /\ calls' \subseteq calls
        /\ \A v \in Withdrawals \ {w} : race'[v] = race[v]
        /\ race[w] \subseteq race'[w]
        /\ UNCHANGED <<worker, custody, inflight>>
    BY <1>3, <1>t DEF Decided, TypeOK
  <2>2. \A v \in Withdrawals \ {w} : \A op2 \in Ops : journal'[<<op2, v>>] = journal[<<op2, v>>]
    BY ZenonT(60), <1>3, <1>t, PostKeys DEF Ops
  <2>3. Acts(w)
    BY <1>3, <1>n, <2>1, <2>2 DEF Acts
  <2> QED
    BY <1>3, <2>1, <2>3, WriteStep, ReleaseStep
<1>4. CASE Approve(w)
  <2> DEFINE row == [WithStatus(wd[w], "APPROVED") EXCEPT !.admin = TRUE]
  <2>1. WithStatus(wd[w], "APPROVED") \in Row /\ WithStatus(wd[w], "APPROVED").status = "APPROVED"
    BY <1>s, <1>t, WithStatusType
  <2>2. row.status = "APPROVED"
    BY <2>1 DEF Row
  <2>3. wd' = [wd EXCEPT ![w] = row] /\ UNCHANGED journal
    BY <1>4 DEF Approve
  <2> HIDE DEF row
  <2>4. wd'[w] = row /\ \A v \in Withdrawals \ {w} : wd'[v] = wd[v]
    BY <1>t, <2>3 DEF TypeOK
  <2> QED
    BY <1>3, <1>4, <2>2, <2>3, <2>4 DEF Approve, Decisive
<1>5. CASE Reject(w) \/ Cancel(w)
  <2>1. PICK status \in {"REJECTED", "CANCELLED"} : wd' = [wd EXCEPT ![w] = WithStatus(wd[w], status)]
    BY <1>5 DEF Reject, Cancel
  <2>2. wd'[w].status = status /\ \A v \in Withdrawals \ {w} : wd'[v] = wd[v]
    BY <1>s, <1>t, <2>1, WriteEffect
  <2> QED
    BY <1>3, <1>5, <2>2 DEF Reject, Cancel, Decisive
<1> QED
  BY <1>1, <1>2, <1>4, <1>5 DEF Endpoint

LEMMA WorkerMoves ==
  ASSUME LedgerInv, NEW p \in Workers, WorkerStep(p)
  PROVE  Step
<1> USE DEF db, provider
<1>t. TypeOK /\ \A w \in Withdrawals : RowInv(w) /\ StageInv(w)
  BY DEF LedgerInv, IInv
<1>s. {"APPROVED", "BROADCASTING", "BROADCASTED", "CONFIRMED"} \subseteq Status
  BY DEF Status, Terminal, Refunded
<1>h. \A w \in Withdrawals : \A phase, step :
        Looping(p, phase, w) \/ Handling(p, phase, step, w) => Held(w)
  BY DEF Looping, Handling, Held
<1>n. (\A v \in Withdrawals : NotTaken(v)) => \A v \in Withdrawals : Held(v)' => Held(v)
  BY NotTakenHeld
<1>c. ASSUME NEW w \in Withdrawals, Continue(p, w)
      PROVE  \A v \in Withdrawals : NotTaken(v)
  BY <1>t, <1>c, ContinueNotTaken
<1>q. ASSUME UNCHANGED <<db, calls, race, custody, inflight>>,
             \A v \in Withdrawals : Held(v)' => Held(v) \/ wd[v].status \notin {"ABSENT", "CONFIRMED"}
      PROVE  Step
  <2>1. \A v \in Withdrawals : (Paid(v)' <=> Paid(v)) /\ (Sent(v)' => Sent(v))
    BY <1>q DEF Paid, Sent
  <2> QED
    BY <1>q, <2>1, QuietStep
<1>1. CASE StartPass(p)
  <2>1. \A v \in Withdrawals : \/ wd'[v].status = wd[v].status
                               \/ wd[v].status = "PENDING_APPROVAL" /\ wd'[v].status = "APPROVED"
    BY <1>1, <1>s, <1>t, WithStatusType DEF StartPass, TypeOK
  <2>2. \A v \in Withdrawals : Held(v)' => Held(v)
    BY <1>1, <1>t, <1>n, ResetNotTaken DEF StartPass
  <2>3. \A v \in Withdrawals : (Paid(v)' <=> Paid(v)) /\ (Sent(v)' => Sent(v))
    BY <1>1 DEF StartPass, Paid, Sent
  <2> QED
    BY <1>1, <2>1, <2>2, <2>3, QuietStep DEF StartPass
<1>2. CASE Find(p)
  <2>1. PICK b \in Batches(Rows(worker[p].phase)) :
          worker' = [worker EXCEPT ![p] = IF b = {} THEN At(NextPhase[worker[p].phase])
                        ELSE [worker[p] EXCEPT !.step = "loop", !.todo = b]]
    BY <1>2 DEF Find
  <2>2. /\ worker'[p].cur \in {None, worker[p].cur}
        /\ worker'[p].todo \subseteq b
        /\ \A q \in Workers \ {p} : worker'[q] = worker[q]
    BY <2>1, <1>t DEF TypeOK, WorkerState, At
  <2>3. worker[p].phase \in Phases
    BY <1>2, <1>t DEF Find, TypeOK, WorkerState
  <2>4. \A v \in b : v \in Withdrawals /\ wd[v].status \notin {"ABSENT", "CONFIRMED"}
    BY <2>3 DEF Batches, Rows, Phases, Interrupted
  <2>5. None \notin Withdrawals
    BY WithdrawalsAssumption
  <2>6. \A v \in Withdrawals : Held(v)' => Held(v) \/ wd[v].status \notin {"ABSENT", "CONFIRMED"}
    BY <2>2, <2>4, <2>5 DEF Held
  <2> QED
    BY <1>2, <1>q, <2>6 DEF Find
<1>3. ASSUME NEW w \in Withdrawals, FailInterrupted(p, w) \/ FailUnderfunded(p, w)
                                      \/ PrepareFails(p, w) \/ SendFails(p, w)
      PROVE  Step
  <2>1. PICK label \in {"unresolved", "rival"} : race' = Marked(w, label)
    BY <1>3 DEF FailInterrupted, FailUnderfunded, PrepareFails, SendFails
  <2>2. /\ Held(w) /\ FailAndRelease(w) /\ Continue(p, w)
        /\ UNCHANGED <<calls, custody, inflight>>
    BY <1>3, <1>h DEF FailInterrupted, FailUnderfunded, PrepareFails, SendFails
  <2> QED
    BY <2>1, <2>2, FailStep
<1>4. ASSUME NEW w \in Withdrawals, Defer(p, w) \/ Claim(p, w)
      PROVE  Step
  <2>1. \A v \in Withdrawals : NotTaken(v)
    BY <1>4, <1>c, <1>t, HoldNotTaken DEF Defer, Claim, Looping
  <2> QED
    BY <1>4, <1>n, <1>q, <2>1 DEF Defer, Claim
<1>5. ASSUME NEW w \in Withdrawals, Send(p, w)
      PROVE  Step
  <2>1. \A v \in Withdrawals : NotTaken(v)
    BY <1>5, <1>c, <1>t, HoldNotTaken DEF Send, Handling
  <2>2. CASE StillApproved(w)
    <3>1. wd' = [wd EXCEPT ![w] = WithStatus(wd[w], "BROADCASTING")]
      BY <1>5, <2>2 DEF Send
    <3>2. wd'[w].status = "BROADCASTING" /\ \A v \in Withdrawals \ {w} : wd'[v] = wd[v]
      BY <1>s, <1>t, <3>1, WriteEffect
    <3>3. Acts(w)
      BY <1>5, <2>1, <3>2, <2>2 DEF Send, Acts
    <3> QED
      BY <1>5, <1>h, <3>2, <3>3, WriteStep DEF Send
  <2>3. CASE ~StillApproved(w)
    BY <1>5, <1>n, <1>q, <2>1, <2>3 DEF Send
  <2> QED
    BY <2>2, <2>3
<1>6. ASSUME NEW w \in Withdrawals, AskProvider(p, w)
      PROVE  Step
  <2>1. worker' = [worker EXCEPT ![p] =
                     [worker[p] EXCEPT !.step = "apply", !.cur = w, !.got = custody[w]]]
    BY <1>6, <1>t DEF AskProvider, TypeOK
  <2>2. /\ worker'[p].todo = worker[p].todo
        /\ worker'[p].cur = w
        /\ \A q \in Workers \ {p} : worker'[q] = worker[q]
    BY <2>1, <1>t DEF TypeOK, WorkerState
  <2>3. \A v \in Withdrawals : Held(v)' => Held(v)
    BY <1>6, <2>2 DEF AskProvider, Looping, Held
  <2> QED
    BY <1>6, <1>q, <2>3 DEF AskProvider
<1>m. ASSUME NEW w \in Withdrawals, Held(w), \A v \in Withdrawals : NotTaken(v),
             wd' = [wd EXCEPT ![w] = Traced(WithStatus(wd[w], "BROADCASTED"), TRUE)],
             UNCHANGED <<journal, calls, custody, inflight, race>>
      PROVE  Step
  <2>1. wd'[w].status = "BROADCASTED" /\ \A v \in Withdrawals \ {w} : wd'[v] = wd[v]
    BY <1>m, <1>s, <1>t, WriteEffect
  <2>2. Acts(w)
    BY <1>m, <2>1 DEF Acts
  <2> QED
    BY <1>m, <2>1, <2>2, WriteStep
<1>7. ASSUME NEW w \in Withdrawals, SendReturns(p, w)
      PROVE  Step
  BY <1>7, <1>h, <1>m, <1>t, ResetNotTaken DEF SendReturns
<1>f. ASSUME NEW w \in Withdrawals, Held(w), FailAndRelease(w), Continue(p, w),
             UNCHANGED <<calls, custody, inflight, race>>
      PROVE  Step
  BY <1>f, FailStep
<1>8. ASSUME NEW w \in Withdrawals, ApplyProvider(p, w)
      PROVE  Step
  <2>1. Held(w) /\ Continue(p, w) /\ UNCHANGED <<calls, custody, inflight, race>>
    BY <1>8, <1>h DEF ApplyProvider
  <2>2. CASE worker[p].got \in {"broadcasted", "mined"}
    BY <1>8, <1>c, <1>m, <2>1, <2>2 DEF ApplyProvider
  <2>3. CASE worker[p].got \in {"reverted", "failed"}
    BY <1>8, <1>f, <2>1, <2>3 DEF ApplyProvider
  <2>4. CASE worker[p].got \notin {"broadcasted", "mined", "reverted", "failed"}
    BY <1>8, <1>c, <1>n, <1>q, <2>1, <2>4 DEF ApplyProvider
  <2> QED
    BY <2>2, <2>3, <2>4
<1>9. ASSUME NEW w \in Withdrawals, Confirm(p, w)
      PROVE  Step
  <2>1. Held(w) /\ Continue(p, w) /\ UNCHANGED <<calls, custody, inflight, race>>
    BY <1>9, <1>h DEF Confirm
  <2>2. CASE Outcome(w) = "settle"
    <3>1. /\ wd' = [wd EXCEPT ![w] = WithStatus(wd[w], "CONFIRMED")]
          /\ journal' = Post(journal, <<"settle", w>>)
      BY <1>9, <2>2 DEF Confirm
    <3>2. wd'[w].status = "CONFIRMED" /\ \A v \in Withdrawals \ {w} : wd'[v] = wd[v]
      BY <1>s, <1>t, <3>1, WriteEffect
    <3>3. "settle" \in Ops
      BY DEF Ops
    <3>4. /\ Posted("settle", w)'
          /\ \A op \in Ops, v \in Withdrawals :
               op # "settle" \/ v # w => journal'[<<op, v>>] = journal[<<op, v>>]
      BY <1>t, <3>1, <3>3, PostKeys
    <3>5. Acts(w)
      BY <1>c, <2>1, <3>2, <3>4 DEF Acts
    <3>6. Paid(w) /\ Paid(w)'
      BY <2>1, <2>2 DEF Outcome, Paid
    <3>7. w \notin Internal /\ wd[w].status # "ABSENT"
      BY <1>t, <2>1, Reserved
    <3>8. Handled(w)
      BY <2>1, <3>2, <3>4, <3>6, <3>7 DEF Handled, Posted, Ops
    <3> QED
      BY <3>5, <3>8, ActsOnly DEF Step
  <2>3. CASE Outcome(w) = "refund"
    BY <1>9, <1>f, <2>1, <2>3 DEF Confirm
  <2>4. CASE Outcome(w) = "wait"
    BY <1>9, <1>c, <1>n, <1>q, <2>1, <2>4 DEF Confirm
  <2> QED
    BY <2>2, <2>3, <2>4 DEF Outcome
<1> QED
  BY <1>1, <1>2, <1>3, <1>4, <1>5, <1>6, <1>7, <1>8, <1>9 DEF WorkerStep

LEMMA FaultStep ==
  ASSUME LedgerInv, NEW p \in Workers, Fault(p)
  PROVE  Step
<1>1. \A v \in Withdrawals : Held(v)' => Held(v)
  BY ContinueNotTaken, ResetNotTaken, NotTakenHeld DEF Fault, SkipRow, AbortPass, Crash, LedgerInv, IInv
<1>2. UNCHANGED <<wd, journal, custody, inflight, race>> /\ calls' \subseteq calls
  BY DEF Fault, SkipRow, AbortPass, Crash, db, provider
<1>3. \A v \in Withdrawals : (Paid(v)' <=> Paid(v)) /\ (Sent(v)' => Sent(v))
  BY <1>2 DEF Paid, Sent
<1> QED
  BY <1>1, <1>2, <1>3, QuietStep

LEMMA EnvironmentStep ==
  ASSUME LedgerInv, NEW w \in Withdrawals, GraceElapses(w) \/ Custody(w) \/ Webhook(w)
  PROVE  Step
<1> USE DEF db, provider
<1>t. TypeOK /\ RowInv(w) /\ StageInv(w)
  BY DEF LedgerInv, IInv
<1>n. UNCHANGED worker => /\ \A v \in Withdrawals : NotTaken(v)
                          /\ \A v \in Withdrawals : Held(v)' => Held(v)
  BY UnchangedNotTaken, NotTakenHeld
<1>1. CASE GraceElapses(w) \/ Accept(w) \/ Drop(w) \/ Announce(w) \/ Broadcast(w) \/ Revert(w) \/ GiveUp(w)
  <2>1. UNCHANGED <<journal, calls, worker, race>> /\ \A v \in Withdrawals : wd'[v].status = wd[v].status
    BY <1>1, <1>t DEF GraceElapses, Accept, Drop, Announce, Broadcast, Revert, GiveUp, Provide, TypeOK, Row
  <2>2. \A v \in Withdrawals : (Paid(v)' <=> Paid(v)) /\ (Sent(v)' => Sent(v))
    BY <1>1, <1>t DEF GraceElapses, Accept, Drop, Announce, Broadcast, Revert, GiveUp, Provide, TypeOK,
       Paid, Sent
  <2> QED
    BY <1>n, <2>1, <2>2, QuietStep
<1>2. CASE Mine(w)
  <2>1. /\ UNCHANGED <<wd, journal, calls, worker, inflight, race>>
        /\ custody[w] = "broadcasted" /\ custody'[w] = "mined"
        /\ \A v \in Withdrawals \ {w} : custody'[v] = custody[v]
    BY <1>2, <1>t DEF Mine, Provide, TypeOK
  <2>2. w \notin Internal /\ wd[w].status # "ABSENT"
    BY <1>t, <2>1, Reserved DEF Sent
  <2>3. Handled(w)
    BY <1>t, <2>1, <2>2 DEF Handled, Posted, Paid, StageInv, SettledInv
  <2>4. Only(w)
    BY <1>n, <2>1 DEF Only, Still, Paid, Sent
  <2> QED
    BY <2>3, <2>4 DEF Step
<1>3. ASSUME NEW event \in EventTypes, Deliver(w, event)
      PROVE  Step
  <2> DEFINE hash == event \in Hashed
  <2>1. EventStatus(w, event) \in Status /\ hash \in BOOLEAN
    BY <1>t DEF EventStatus, TypeOK, Row, Status, Terminal, Refunded
  <2>2. wd' = [wd EXCEPT ![w] = Traced(WithStatus(wd[w], EventStatus(w, event)), hash)]
    BY <1>3, Zenon DEF Deliver
  <2> HIDE DEF hash
  <2>3. wd'[w].status = EventStatus(w, event) /\ \A v \in Withdrawals \ {w} : wd'[v] = wd[v]
    BY <1>t, <2>1, <2>2, WriteEffect
  <2>4. /\ UNCHANGED <<calls, worker, custody, inflight, race>>
        /\ journal' = IF Fails(event) THEN Post(journal, <<"release", w>>) ELSE journal
        /\ event \in emitted[w]
    BY <1>3 DEF Deliver
  <2>5. Sent(w) /\ w \notin Internal /\ wd[w].status # "ABSENT"
    BY <1>t, <2>4, Reserved DEF RowInv, NewsInv, Sent
  <2>6. "release" \in Ops
    BY DEF Ops
  <2>7. /\ \A v \in Withdrawals \ {w} : \A op \in Ops : journal'[<<op, v>>] = journal[<<op, v>>]
        /\ \A op \in Ops \ {"release"} : journal'[<<op, w>>] = journal[<<op, w>>]
        /\ Posted("release", w) => Posted("release", w)'
    BY <1>t, <2>4, <2>6, PostKeys DEF Posted
  <2>8. Only(w)
    <3>1. Acts(w)
      BY <1>n, <2>3, <2>4, <2>7 DEF Acts
    <3> QED
      BY <3>1, ActsOnly
  <2>9. Handled(w)
    <3>1. wd'[w].status # "ABSENT"
      BY <2>3, <2>5 DEF EventStatus
    <3>2. wd'[w].status = "CONFIRMED" => wd[w].status = "CONFIRMED"
      BY <2>3 DEF EventStatus
    <3>3. Paid(w)' <=> Paid(w)
      BY <2>4 DEF Paid
    <3> QED
      BY <2>4, <2>5, <2>7, <3>1, <3>2, <3>3 DEF Handled, Posted, Ops
  <2> QED
    BY <2>8, <2>9 DEF Step
<1> QED
  BY <1>1, <1>2, <1>3 DEF Custody, Webhook

LEMMA EveryStep ==
  ASSUME LedgerInv, [Next]_vars
  PROVE  Step
<1>1. CASE UNCHANGED vars
  <2>1. \A v \in Withdrawals : (Paid(v)' <=> Paid(v)) /\ (Sent(v)' => Sent(v)) /\ (Held(v)' => Held(v))
    BY <1>1 DEF vars, Paid, Sent, Held
  <2> QED
    BY <1>1, <2>1, QuietStep DEF vars
<1>2. CASE Next
  BY <1>2, EndpointStep, WorkerMoves, FaultStep, EnvironmentStep DEF Next
<1> QED
  BY <1>1, <1>2

-----------------------------------------------------------------------------
(* The theorems *)

LEMMA StepLedger ==
  ASSUME LedgerInv, [Next]_vars
  PROVE  \A v \in Withdrawals : StageInv(v)'
<1>1. \A v \in Withdrawals : StageInv(v) /\ RowInv(v)
  BY DEF LedgerInv, IInv
<1>2. CASE \A v \in Withdrawals : Still(v)
  BY <1>1, <1>2, StillStage
<1>3. ASSUME NEW w \in Withdrawals, Only(w), Created(w) \/ Transferred(w) \/ Handled(w)
      PROVE  \A v \in Withdrawals : StageInv(v)'
  <2>1. StageInv(w)'
    BY <1>1, <1>3, CreatedStage, TransferredStage, HandledStage
  <2>2. \A v \in Withdrawals \ {w} : StageInv(v)'
    BY <1>1, <1>3, StillStage DEF Only
  <2> QED
    BY <2>1, <2>2
<1> QED
  BY <1>2, <1>3, EveryStep DEF Step

LEMMA InitLedger ==
  ASSUME Init, NEW w \in Withdrawals
  PROVE  StageInv(w)
<1>1. \A op \in Ops : <<op, w>> \in Keys
  BY DEF Keys, Ops
<1>2. /\ wd[w].status = "ABSENT" /\ calls = {}
      /\ \A op \in Ops : ~Posted(op, w)
      /\ ~Sent(w) /\ ~Held(w)
  BY <1>1, WithdrawalsAssumption DEF Init, Absent, Posted, Sent, Held, At
<1> QED
  BY <1>2 DEF StageInv, FreshInv, InternalInv, ReservedInv, SettledInv, Ops

LEMMA LedgerInvariance == Spec => []LedgerInv
<1> DEFINE Staged == \A w \in Withdrawals : StageInv(w)
<1>1. Init => Staged
  BY InitLedger
<1>2. IInv /\ Staged /\ [Next]_vars => Staged'
  BY StepLedger DEF LedgerInv
<1>3. IInv /\ Staged => LedgerInv
  BY DEF LedgerInv
<1> QED
  BY <1>1, <1>2, <1>3, Invariance, PTL DEF Spec

\* A withdrawal shown as confirmed is an internal transfer or has its settlement
\* posted, and a settlement is posted only for a reserve whose transfer is mined,
\* however decisions, passes, webhook events and restarts interleave.
THEOREM ConfirmedIsPaidAlways == Spec => []ConfirmedIsPaid
<1>1. LedgerInv => ConfirmedIsPaid
  <2> SUFFICES ASSUME LedgerInv, NEW w \in Withdrawals
               PROVE  /\ wd[w].status = "CONFIRMED" => Posted("settle", w) \/ Posted("internal", w)
                      /\ Posted("settle", w) => Posted("reserve", w) /\ Paid(w)
    BY DEF ConfirmedIsPaid
  <2> QED
    BY DEF LedgerInv, StageInv, SettledInv, ReservedInv, InternalInv, FreshInv, Ops
<1> QED
  BY <1>1, LedgerInvariance, PTL

\* The withdrawal service implements Escrow: a reserve is posted first, paid out
\* once or returned once, and both only behind a race window.
THEOREM KeepsThePromise == Spec => KeepsPromise
<1>1. Init => Promise!Init
  <2> SUFFICES ASSUME Init
               PROVE  Promise!Init
    OBVIOUS
  <2>1. ASSUME NEW w \in Withdrawals
        PROVE  StageOf(w) = "none" /\ race[w] = {}
    <3>1. \A op \in Ops : <<op, w>> \in Keys
      BY DEF Keys, Ops
    <3>2. ~Paid(w) /\ \A op \in Ops : ~Posted(op, w)
      BY <3>1 DEF Init, Paid, Posted
    <3> QED
      BY <3>2 DEF Init, StageOf, Spent, Ops
  <2> QED
    BY <2>1 DEF Promise!Init
<1>2. LedgerInv /\ LedgerInv' /\ [Next]_vars => [Promise!Next]_(Promise!evars)
  BY EveryStep, StepKeepsPromise
<1> QED
  BY <1>1, <1>2, LedgerInvariance, PTL DEF Spec, KeepsPromise, Promise!Spec

-----------------------------------------------------------------------------
(* What each idempotency key does to a user's spot balance *)

\* A reserve, with its fee.
Gross(w) == Amount[w] + Fee[w]

\* What posting a key of w adds to the spot balance of u.
Gain(op, w, u) ==
  CASE op = "reserve"  -> -Weight(u, Owner[w], Gross(w))
    [] op = "release"  -> Weight(u, Owner[w], Gross(w))
    [] op = "internal" -> Weight(u, Recipient[w], Amount[w]) - Weight(u, Owner[w], Amount[w])
    [] OTHER           -> 0

LEMMA Constants ==
  ASSUME NEW w \in Withdrawals
  PROVE  /\ Amount[w] \in Nat /\ Fee[w] \in Nat /\ Gross(w) \in Nat
         /\ Owner[w] \in Users /\ Recipient[w] # Owner[w]
         /\ \A op \in Ops : <<op, w>> \in Keys
  BY WithdrawalsAssumption DEF Gross, Keys, Ops

LEMMA GainType ==
  ASSUME NEW op \in Ops, NEW w \in Withdrawals, NEW u
  PROVE  Gain(op, w, u) \in Int
  BY Constants DEF Gain, Weight

LEMMA SpotWeights ==
  ASSUME NEW u, NEW v, NEW n
  PROVE  /\ Weight(Spot(u), Spot(v), n) = Weight(u, v, n)
         /\ Spot(u) # Pending /\ Spot(u) # GasFees /\ Spot(u) # Clearing
  BY DEF Weight, Spot, Pending, GasFees, Clearing

LEMMA NetOfKey ==
  ASSUME NEW op \in Ops, NEW w \in Withdrawals, NEW u
  PROVE  NetOf(EntriesOf[<<op, w>>], Spot(u)) = Gain(op, w, u)
<1>c. /\ Amount[w] \in Nat /\ Fee[w] \in Nat /\ Gross(w) \in Nat
      /\ Amount[w] \in Int /\ Fee[w] \in Int /\ Gross(w) = Amount[w] + Fee[w]
      /\ <<op, w>> \in Keys
  BY Constants DEF Gross
<1> DEFINE o == Owner[w]
           s == Spot(u)
<1>d. s # Pending /\ s # GasFees /\ s # Clearing /\ (s = Spot(o) <=> u = o)
  BY DEF Spot, Pending, GasFees, Clearing
<1>1. CASE op = "reserve"
  <2> DEFINE a == Debit(Spot(o), Amount[w] + Fee[w])
             b == Credit(Pending, Amount[w])
             c == Credit(GasFees, Fee[w])
  <2>1. EntriesOf[<<op, w>>] = ReserveEntries(w)
    BY <1>1, <1>c DEF EntriesOf
  <2>2. ReserveEntries(w) = IF Fee[w] > 0 THEN <<a, b, c>> ELSE <<a, b>>
    BY OptionalEntry DEF ReserveEntries
  <2>3. a.amount \in Int /\ b.amount \in Int /\ c.amount \in Int
    BY <1>c DEF Debit, Credit
  <2>4. Value(a, s) = -Weight(u, o, Gross(w)) /\ Value(b, s) = 0 /\ Value(c, s) = 0
    BY <1>c, <1>d DEF Value, Weight, Debit, Credit
  <2> HIDE DEF a, b, c, s
  <2>5. /\ NetOf(<<a, b, c>>, s) = Value(a, s) + Value(b, s) + Value(c, s)
        /\ NetOf(<<a, b>>, s) = Value(a, s) + Value(b, s)
    BY <2>3, NetOfTwo, NetOfThree
  <2>6. Weight(u, o, Gross(w)) \in Int
    BY <1>c DEF Weight
  <2>7. NetOf(EntriesOf[<<op, w>>], s) = -Weight(u, o, Gross(w))
    BY <2>1, <2>2, <2>4, <2>5, <2>6
  <2> QED
    BY <1>1, <2>7 DEF Gain, s
<1>2. CASE op = "release"
  <2> DEFINE a == Debit(Pending, Amount[w])
             b == Credit(Spot(o), Amount[w] + Fee[w])
             c == Debit(GasFees, Fee[w])
  <2>1. EntriesOf[<<op, w>>] = ReleaseEntries(w)
    BY <1>2, <1>c DEF EntriesOf
  <2>2. ReleaseEntries(w) = IF Fee[w] > 0 THEN <<a, b, c>> ELSE <<a, b>>
    BY OptionalEntry DEF ReleaseEntries
  <2>3. a.amount \in Int /\ b.amount \in Int /\ c.amount \in Int
    BY <1>c DEF Debit, Credit
  <2>4. Value(a, s) = 0 /\ Value(b, s) = Weight(u, o, Gross(w)) /\ Value(c, s) = 0
    BY <1>c, <1>d DEF Value, Weight, Debit, Credit
  <2> HIDE DEF a, b, c, s
  <2>5. /\ NetOf(<<a, b, c>>, s) = Value(a, s) + Value(b, s) + Value(c, s)
        /\ NetOf(<<a, b>>, s) = Value(a, s) + Value(b, s)
    BY <2>3, NetOfTwo, NetOfThree
  <2>6. Weight(u, o, Gross(w)) \in Int
    BY <1>c DEF Weight
  <2>7. NetOf(EntriesOf[<<op, w>>], s) = Weight(u, o, Gross(w))
    BY <2>1, <2>2, <2>4, <2>5, <2>6
  <2> QED
    BY <1>2, <2>7 DEF Gain, s
<1>3. CASE op = "settle"
  <2>1. EntriesOf[<<op, w>>] = SettleEntries(w)
    BY <1>3, <1>c DEF EntriesOf
  <2>2. NetOf(SettleEntries(w), s) = Weight(s, Clearing, Amount[w]) - Weight(s, Pending, Amount[w])
    BY <1>c, NetOfMove DEF SettleEntries
  <2> QED
    BY <1>3, <1>d, <2>1, <2>2 DEF Gain, Weight
<1>4. CASE op = "internal"
  <2>1. EntriesOf[<<op, w>>] = InternalEntries(w)
    BY <1>4, <1>c DEF EntriesOf
  <2>2. NetOf(InternalEntries(w), s)
          = Weight(s, Spot(Recipient[w]), Amount[w]) - Weight(s, Spot(o), Amount[w])
    BY <1>c, NetOfMove DEF InternalEntries
  <2> QED
    BY <1>4, <2>1, <2>2, SpotWeights DEF Gain
<1> QED
  BY <1>1, <1>2, <1>3, <1>4 DEF Ops

-----------------------------------------------------------------------------
(* The books of a journal *)

Journals == [Keys -> Nat]

BalanceIn(j, u) == Funding[u] + Balance(j, EntriesOf, Spot(u))

\* Reserved and not released.
HeldIn(j, w) ==
  (IF j[<<"reserve", w>>] > 0 THEN Gross(w) ELSE 0)
    - (IF j[<<"release", w>>] > 0 THEN Gross(w) ELSE 0)

\* Nobody is overdrawn, and what users can spend and what is held is what came in.
Level(j) ==
  /\ \A u \in Users : BalanceIn(j, u) >= 0
  /\ SumOver([u \in Users |-> BalanceIn(j, u)]) + SumOver([w \in Withdrawals |-> HeldIn(j, w)])
       = SumOver(Funding)

LEMMA KeysFinite == IsFiniteSet(Keys)
<1>1. IsFiniteSet({"reserve", "release", "settle", "internal"})
  <2>1. IsFiniteSet({"reserve"})
    BY FS_Singleton
  <2>2. IsFiniteSet({"reserve"} \cup {"release"})
    BY <2>1, FS_AddElement
  <2>3. IsFiniteSet(({"reserve"} \cup {"release"}) \cup {"settle"})
    BY <2>2, FS_AddElement
  <2>4. IsFiniteSet((({"reserve"} \cup {"release"}) \cup {"settle"}) \cup {"internal"})
    BY <2>3, FS_AddElement
  <2>5. {"reserve", "release", "settle", "internal"}
          = (({"reserve"} \cup {"release"}) \cup {"settle"}) \cup {"internal"}
    OBVIOUS
  <2> QED
    BY <2>4, <2>5
<1> QED
  BY <1>1, WithdrawalsAssumption, FS_Product DEF Keys

LEMMA JournalCounts ==
  ASSUME NEW j \in Journals, NEW u
  PROVE  Counts(j, EntriesOf, Spot(u))
<1>1. ASSUME NEW k \in Keys
      PROVE  NetOf(EntriesOf[k], Spot(u)) \in Int
  <2>1. PICK op \in Ops, w \in Withdrawals : k = <<op, w>>
    BY DEF Keys, Ops
  <2> QED
    BY <2>1, NetOfKey, GainType
<1> QED
  BY <1>1, KeysFinite DEF Counts, Journals

LEMMA BalanceInType ==
  ASSUME NEW j \in Journals, NEW u \in Users
  PROVE  BalanceIn(j, u) \in Int
<1>1. Balance(j, EntriesOf, Spot(u)) \in Int
  BY JournalCounts, BalanceType
<1> QED
  BY <1>1, WithdrawalsAssumption DEF BalanceIn

LEMMA BalanceInPost ==
  ASSUME NEW j \in Journals, NEW op \in Ops, NEW w \in Withdrawals, NEW u \in Users
  PROVE  BalanceIn(Post(j, <<op, w>>), u)
           = BalanceIn(j, u) + (IF j[<<op, w>>] > 0 THEN 0 ELSE Gain(op, w, u))
<1>1. <<op, w>> \in DOMAIN j
  BY Constants DEF Journals
<1>2. Balance(Post(j, <<op, w>>), EntriesOf, Spot(u))
        = Balance(j, EntriesOf, Spot(u))
            + (IF j[<<op, w>>] > 0 THEN 0 ELSE NetOf(EntriesOf[<<op, w>>], Spot(u)))
  BY <1>1, JournalCounts, BalancePost
<1>3. Balance(j, EntriesOf, Spot(u)) \in Int
  BY JournalCounts, BalanceType
<1>4. NetOf(EntriesOf[<<op, w>>], Spot(u)) = Gain(op, w, u) /\ Gain(op, w, u) \in Int
  BY NetOfKey, GainType
<1>5. Funding[u] \in Int
  BY WithdrawalsAssumption
<1> QED
  BY <1>2, <1>3, <1>4, <1>5 DEF BalanceIn

LEMMA JournalPost ==
  ASSUME NEW j \in Journals, NEW op \in Ops, NEW w \in Withdrawals
  PROVE  /\ Post(j, <<op, w>>) \in Journals
         /\ Post(j, <<op, w>>)[<<op, w>>] > 0
         /\ \A k \in Keys \ {<<op, w>>} : Post(j, <<op, w>>)[k] = j[k]
         /\ j[<<op, w>>] > 0 => Post(j, <<op, w>>) = j
  BY Constants DEF Post, Journals

LEMMA HeldInType ==
  ASSUME NEW j, NEW w \in Withdrawals
  PROVE  HeldIn(j, w) \in Int
  BY Constants DEF HeldIn

\* What a key does to what is held.
Change(op, w) ==
  CASE op = "reserve" -> Gross(w) [] op = "release" -> -Gross(w) [] OTHER -> 0

LEMMA HeldInPost ==
  ASSUME NEW j \in Journals, NEW op \in Ops, NEW w \in Withdrawals, ~(j[<<op, w>>] > 0)
  PROVE  SumOver([v \in Withdrawals |-> HeldIn(Post(j, <<op, w>>), v)])
           = SumOver([v \in Withdrawals |-> HeldIn(j, v)]) + Change(op, w)
<1>1. PICK r \in Journals : r = Post(j, <<op, w>>)
  BY JournalPost
<1>2. r[<<op, w>>] > 0 /\ \A k \in Keys \ {<<op, w>>} : r[k] = j[k]
  BY <1>1, JournalPost
<1>3. \A v \in Withdrawals : <<"reserve", v>> \in Keys /\ <<"release", v>> \in Keys
  BY Constants DEF Ops
<1>4. \A v \in Withdrawals \ {w} : HeldIn(r, v) = HeldIn(j, v)
  <2>1. ASSUME NEW v \in Withdrawals \ {w}
        PROVE  r[<<"reserve", v>>] = j[<<"reserve", v>>] /\ r[<<"release", v>>] = j[<<"release", v>>]
    <3>1. <<"reserve", v>> # <<op, w>> /\ <<"release", v>> # <<op, w>>
      OBVIOUS
    <3> QED
      BY <1>2, <1>3, <3>1
  <2> QED
    BY <2>1 DEF HeldIn
<1>5. HeldIn(r, w) = HeldIn(j, w) + Change(op, w)
  <2>1. Gross(w) \in Int
    BY Constants
  <2>2. CASE op = "reserve"
    BY <1>2, <1>3, <2>1, <2>2 DEF HeldIn, Change
  <2>3. CASE op = "release"
    BY <1>2, <1>3, <2>1, <2>3 DEF HeldIn, Change
  <2>4. CASE op \in {"settle", "internal"}
    BY <1>2, <1>3, <2>1, <2>4 DEF HeldIn, Change
  <2> QED
    BY <2>2, <2>3, <2>4 DEF Ops
<1> DEFINE f == [v \in Withdrawals |-> HeldIn(j, v)]
           g == [v \in Withdrawals |-> HeldIn(r, v)]
<1>6. Summable(f) /\ Summable(g)
  BY HeldInType, WithdrawalsAssumption DEF Summable
<1>7. /\ DOMAIN g = DOMAIN f /\ w \in DOMAIN f /\ \A v \in DOMAIN f \ {w} : g[v] = f[v]
      /\ f[w] = HeldIn(j, w) /\ g[w] = HeldIn(r, w)
  BY <1>4
<1>8. HeldIn(j, w) \in Int /\ HeldIn(r, w) \in Int /\ Change(op, w) \in Int
  BY HeldInType, Constants DEF Change
<1> HIDE DEF f, g
<1>9. SumOver(g) = SumOver(f) + (g[w] - f[w]) /\ SumOver(f) \in Int
  BY <1>6, <1>7, SumChange, SumType
<1>10. SumOver(g) = SumOver(f) + Change(op, w)
  BY <1>5, <1>7, <1>8, <1>9
<1> QED
  BY <1>1, <1>10 DEF f, g

\* What a key gives to all users together.
LEMMA SumOfGains ==
  ASSUME NEW op \in Ops, NEW w \in Withdrawals, op = "internal" => w \in Internal
  PROVE  SumOver([u \in Users |-> Gain(op, w, u)]) + Change(op, w) = 0
<1>c. /\ IsFiniteSet(Users) /\ Owner[w] \in Users
      /\ Gross(w) \in Int /\ Amount[w] \in Int /\ -Gross(w) \in Int /\ -Amount[w] \in Int
  BY Constants, WithdrawalsAssumption
<1>w. \A n \in Int : \A u, x : Weight(u, x, n) \in Int /\ Weight(u, x, -n) = -Weight(u, x, n)
  BY DEF Weight
<1> DEFINE g == [u \in Users |-> Gain(op, w, u)]
<1>1. CASE op \in {"reserve", "release"}
  <2>1. PICK n \in Int : n = -Change(op, w) /\ n + Change(op, w) = 0
    BY <1>1, <1>c DEF Change
  <2> DEFINE f == [u \in Users |-> Weight(u, Owner[w], n)]
  <2>2. SumOver(f) = n
    BY <1>c, SumOfWeights
  <2>3. \A u \in Users : Gain(op, w, u) = Weight(u, Owner[w], n)
    BY <1>1, <1>c, <1>w, <2>1 DEF Gain, Change
  <2>4. f = g
    BY <2>3
  <2> QED
    BY <2>1, <2>2, <2>4
<1>2. CASE op = "settle"
  <2>1. DOMAIN g = Users /\ \A u \in Users : g[u] = 0
    BY <1>2 DEF Gain
  <2> HIDE DEF g
  <2>2. SumOver(g) = 0
    BY <1>c, <2>1, SumZero
  <2>3. Change(op, w) = 0
    BY <1>2 DEF Change
  <2>4. SumOver(g) + Change(op, w) = 0
    BY <2>2, <2>3
  <2> QED
    BY <2>4 DEF g
<1>3. CASE op = "internal"
  <2> DEFINE f == [u \in Users |-> Weight(u, Recipient[w], Amount[w])]
             h == [u \in Users |-> Weight(u, Owner[w], -Amount[w])]
  <2>1. Recipient[w] \in Users
    BY <1>3, WithdrawalsAssumption DEF Internal
  <2>2. SumOver(f) = Amount[w] /\ SumOver(h) = -Amount[w]
    BY <1>c, <2>1, SumOfWeights
  <2>3. Summable(f) /\ Summable(h) /\ DOMAIN f = Users /\ DOMAIN h = Users /\ DOMAIN g = Users
    BY <1>c, <1>w DEF Summable
  <2>4. \A u \in Users : g[u] = f[u] + h[u]
    <3>1. \A u \in Users : /\ g[u] = Weight(u, Recipient[w], Amount[w]) - Weight(u, Owner[w], Amount[w])
                           /\ f[u] = Weight(u, Recipient[w], Amount[w])
                           /\ h[u] = -Weight(u, Owner[w], Amount[w])
      BY <1>3, <1>c, <1>w DEF Gain
    <3>2. \A u \in Users : /\ Weight(u, Recipient[w], Amount[w]) \in Int
                           /\ Weight(u, Owner[w], Amount[w]) \in Int
      BY <1>c, <1>w
    <3> HIDE DEF f, g, h
    <3> QED
      BY <3>1, <3>2
  <2> HIDE DEF f, g, h
  <2>5. SumOver(g) = SumOver(f) + SumOver(h)
    BY <2>3, <2>4, SumAdds
  <2>6. SumOver(g) = 0
    BY <1>c, <2>2, <2>5
  <2>7. Change(op, w) = 0
    BY <1>3 DEF Change
  <2>8. SumOver(g) + Change(op, w) = 0
    BY <2>6, <2>7
  <2> QED
    BY <2>8 DEF g
<1> QED
  BY <1>1, <1>2, <1>3 DEF Ops

\* What may be posted to a journal without overdrawing anybody.
MayPost(j, op, w) ==
  /\ op = "reserve" => BalanceIn(j, Owner[w]) >= Gross(w)
  /\ op = "internal" => w \in Internal /\ BalanceIn(j, Owner[w]) >= Amount[w]

LEMMA PostLevel ==
  ASSUME NEW j \in Journals, NEW op \in Ops, NEW w \in Withdrawals, MayPost(j, op, w), Level(j)
  PROVE  Level(Post(j, <<op, w>>))
<1>1. CASE j[<<op, w>>] > 0
  <2>1. Post(j, <<op, w>>) = j
    BY <1>1, JournalPost
  <2> QED
    BY <2>1
<1>2. CASE ~(j[<<op, w>>] > 0)
  <2>1. PICK r \in Journals : r = Post(j, <<op, w>>)
    BY JournalPost
  <2>2. \A u \in Users : /\ BalanceIn(r, u) = BalanceIn(j, u) + Gain(op, w, u)
                         /\ BalanceIn(j, u) \in Int /\ Gain(op, w, u) \in Int
    BY <1>2, <2>1, BalanceInPost, BalanceInType, GainType
  <2>3. ASSUME NEW u \in Users
        PROVE  BalanceIn(r, u) >= 0
    <3>1. BalanceIn(j, u) >= 0 /\ BalanceIn(j, u) \in Int
      BY <2>2 DEF Level
    <3>2. Amount[w] \in Nat /\ Gross(w) \in Nat /\ Recipient[w] # Owner[w]
      BY Constants
    <3>3. \/ Gain(op, w, u) >= 0
          \/ u = Owner[w] /\ op = "reserve" /\ Gain(op, w, u) = -Gross(w)
          \/ u = Owner[w] /\ op = "internal" /\ Gain(op, w, u) = -Amount[w]
      <4> DEFINE out == Owner[w]
                 into == Recipient[w]
                 m == Amount[w]
                 n == Gross(w)
      <4>1. CASE op = "release"
        BY <3>2, <4>1 DEF Gain, Weight
      <4>2. CASE op = "settle"
        BY <4>2 DEF Gain
      <4>3. CASE op = "reserve"
        <5>1. Gain(op, w, u) = -Weight(u, out, n)
          BY <4>3 DEF Gain
        <5>2. n \in Nat
          BY <3>2
        <5> HIDE DEF n, out
        <5>3. CASE u = out
          BY <4>3, <5>1, <5>3 DEF Weight, n, out
        <5>4. CASE u # out
          <6>1. Weight(u, out, n) = 0
            BY <5>4 DEF Weight
          <6>2. ASSUME NEW x \in Int, x <= 0
                PROVE  -x >= 0
            BY <6>2
          <6>3. 0 \in Int /\ 0 <= 0
            OBVIOUS
          <6> QED
            BY <5>1, <6>1, <6>2, <6>3, Zenon
        <5> QED
          BY <5>3, <5>4
      <4>4. CASE op = "internal"
        <5>1. Gain(op, w, u) = Weight(u, into, m) - Weight(u, out, m)
          BY <4>4 DEF Gain
        <5>2. m \in Nat /\ into # out
          BY <3>2
        <5> HIDE DEF m, out, into
        <5>3. IF u = out THEN Gain(op, w, u) = -m ELSE Gain(op, w, u) >= 0
          BY <5>1, <5>2 DEF Weight
        <5> QED
          BY <4>4, <5>3 DEF m, out
      <4> QED
        BY <4>1, <4>2, <4>3, <4>4 DEF Ops
    <3> QED
      BY <2>2, <3>1, <3>2, <3>3 DEF MayPost
  <2> DEFINE f == [u \in Users |-> BalanceIn(j, u)]
             g == [u \in Users |-> BalanceIn(r, u)]
             h == [u \in Users |-> Gain(op, w, u)]
  <2>4. /\ Summable(f) /\ Summable(h) /\ DOMAIN h = DOMAIN f /\ DOMAIN g = DOMAIN f
        /\ \A u \in DOMAIN f : g[u] = f[u] + h[u]
    BY <2>2, WithdrawalsAssumption DEF Summable
  <2>5. SumOver(h) + Change(op, w) = 0
    BY SumOfGains DEF MayPost
  <2>h. SumOver([v \in Withdrawals |-> HeldIn(r, v)])
          = SumOver([v \in Withdrawals |-> HeldIn(j, v)]) + Change(op, w)
    BY <1>2, <2>1, HeldInPost
  <2>l. SumOver(f) + SumOver([v \in Withdrawals |-> HeldIn(j, v)]) = SumOver(Funding)
    BY DEF Level
  <2> DEFINE k == [v \in Withdrawals |-> HeldIn(j, v)]
  <2>k. Summable(k)
    BY HeldInType, WithdrawalsAssumption DEF Summable
  <2>c. Change(op, w) \in Int
    BY Constants DEF Change
  <2>e. SumOver([v \in Withdrawals |-> HeldIn(r, v)]) = SumOver(k) + Change(op, w)
    BY <2>h
  <2>m. SumOver(f) + SumOver(k) = SumOver(Funding)
    BY <2>l
  <2> HIDE DEF f, g, h, k
  <2>6. /\ SumOver(g) = SumOver(f) + SumOver(h)
        /\ SumOver(f) \in Int /\ SumOver(h) \in Int /\ SumOver(k) \in Int
    BY <2>4, <2>k, SumAdds, SumType
  <2>7. SumOver(g) + SumOver([v \in Withdrawals |-> HeldIn(r, v)]) = SumOver(Funding)
    BY <2>5, <2>6, <2>e, <2>m, <2>c
  <2>8. Level(r)
    BY <2>3, <2>7 DEF Level, g
  <2> QED
    BY <2>1, <2>8
<1> QED
  BY <1>1, <1>2

LEMMA InitLevel ==
  ASSUME Init
  PROVE  Level(journal)
<1>1. journal \in Journals /\ \A k \in Keys : journal[k] = 0
  BY DEF Init, Journals
<1>2. \A u \in Users : BalanceIn(journal, u) = Funding[u]
  <2>1. ASSUME NEW u \in Users
        PROVE  Balance(journal, EntriesOf, Spot(u)) = 0
    <3>1. DOMAIN journal = Keys
      BY <1>1 DEF Journals
    <3> QED
      BY <1>1, <3>1, JournalCounts, BalanceNone
  <2> QED
    BY <2>1, WithdrawalsAssumption DEF BalanceIn
<1> DEFINE f == [u \in Users |-> BalanceIn(journal, u)]
           k == [w \in Withdrawals |-> HeldIn(journal, w)]
<1>3. f = Funding /\ SumOver(Funding) \in Int
  <2>1. Summable(Funding)
    BY WithdrawalsAssumption DEF Summable
  <2> QED
    BY <1>2, <2>1, SumType, WithdrawalsAssumption
<1>4. DOMAIN k = Withdrawals /\ \A w \in Withdrawals : k[w] = 0
  <2>1. ASSUME NEW w \in Withdrawals
        PROVE  HeldIn(journal, w) = 0
    <3>1. <<"reserve", w>> \in Keys /\ <<"release", w>> \in Keys
      BY Constants DEF Ops
    <3> QED
      BY <1>1, <3>1 DEF HeldIn
  <2> QED
    BY <2>1
<1> HIDE DEF f, k
<1>5. SumOver(k) = 0
  BY <1>4, SumZero, WithdrawalsAssumption
<1>6. SumOver(f) + SumOver(k) = SumOver(Funding)
  BY <1>3, <1>5
<1>7. \A u \in Users : BalanceIn(journal, u) >= 0
  BY <1>2, WithdrawalsAssumption
<1> QED
  BY <1>6, <1>7 DEF Level, f, k

\* Every step leaves the journal alone or posts one key it may post.
LEMMA NextPosts ==
  ASSUME TypeOK, [Next]_vars
  PROVE  \/ journal' = journal
         \/ \E op \in Ops, w \in Withdrawals :
              journal' = Post(journal, <<op, w>>) /\ MayPost(journal, op, w)
<1> DEFINE Moved == \E op \in Ops, w \in Withdrawals :
                      journal' = Post(journal, <<op, w>>) /\ MayPost(journal, op, w)
<1>a. ASSUME NEW op \in {"release", "settle"}, NEW w \in Withdrawals,
             journal' = Post(journal, <<op, w>>)
      PROVE  Moved
  BY <1>a DEF MayPost, Ops
<1>f. ASSUME NEW w \in Withdrawals, FailAndRelease(w)
      PROVE  journal' = journal \/ Moved
  <2>1. CASE wd[w].status \in Refunded
    BY <1>f, <2>1 DEF FailAndRelease, db
  <2>2. CASE wd[w].status \notin Refunded
    <3>1. journal' = Post(journal, <<"release", w>>)
      BY <1>f, <2>2 DEF FailAndRelease
    <3> QED
      BY <1>a, <3>1
  <2> QED
    BY <2>1, <2>2
<1> HIDE DEF Moved
<1>1. CASE UNCHANGED vars
  BY <1>1 DEF vars
<1>2. ASSUME NEW w \in Withdrawals, Endpoint(w)
      PROVE  journal' = journal \/ Moved
  <2>1. CASE CreateWithdrawal(w)
    <3>1. journal' = Post(journal, <<"reserve", w>>) /\ Affordable(w) /\ w \notin Internal
      BY <2>1 DEF CreateWithdrawal
    <3>2. BalanceIn(journal, Owner[w]) >= Gross(w)
      BY <3>1 DEF Affordable, TotalDebit, SpotBalance, BalanceIn, Gross
    <3>3. MayPost(journal, "reserve", w) /\ "reserve" \in Ops
      BY <3>2 DEF MayPost, Ops
    <3> QED
      BY <3>1, <3>3 DEF Moved
  <2>2. CASE CreateInternalTransfer(w)
    <3>1. journal' = Post(journal, <<"internal", w>>) /\ Affordable(w) /\ w \in Internal
      BY <2>2 DEF CreateInternalTransfer
    <3>2. BalanceIn(journal, Owner[w]) >= Amount[w]
      BY <3>1, Constants DEF Affordable, TotalDebit, SpotBalance, BalanceIn
    <3>3. MayPost(journal, "internal", w) /\ "internal" \in Ops
      BY <3>1, <3>2 DEF MayPost, Ops
    <3> QED
      BY <3>1, <3>3 DEF Moved
  <2>3. CASE Reject(w) \/ Cancel(w)
    BY <1>a, <2>3 DEF Reject, Cancel
  <2>4. CASE CheckRequest(w) \/ RefuseRequest(w) \/ (\E op \in Decisions : ReadForDecision(op, w)) \/ Approve(w)
    BY <2>4 DEF CheckRequest, RefuseRequest, ReadForDecision, Approve, db
  <2> QED
    BY <1>2, <2>1, <2>2, <2>3, <2>4 DEF Endpoint
<1>3. ASSUME NEW p \in Workers, WorkerStep(p)
      PROVE  journal' = journal \/ Moved
  <2>1. CASE StartPass(p) \/ Find(p)
    BY <2>1 DEF StartPass, Find, db
  <2>2. ASSUME NEW w \in Withdrawals, FailInterrupted(p, w) \/ FailUnderfunded(p, w)
                                       \/ PrepareFails(p, w) \/ SendFails(p, w)
        PROVE  journal' = journal \/ Moved
    BY <1>f, <2>2 DEF FailInterrupted, FailUnderfunded, PrepareFails, SendFails
  <2>3. ASSUME NEW w \in Withdrawals, Defer(p, w) \/ Claim(p, w) \/ Send(p, w)
                                       \/ SendReturns(p, w) \/ AskProvider(p, w)
        PROVE  journal' = journal
    BY <2>3 DEF Defer, Claim, Send, SendReturns, AskProvider, db
  <2>4. ASSUME NEW w \in Withdrawals, ApplyProvider(p, w)
        PROVE  journal' = journal \/ Moved
    BY <1>f, <2>4 DEF ApplyProvider, db
  <2>5. ASSUME NEW w \in Withdrawals, Confirm(p, w)
        PROVE  journal' = journal \/ Moved
    <3>1. CASE Outcome(w) = "settle"
      BY <1>a, <2>5, <3>1 DEF Confirm
    <3>2. CASE Outcome(w) = "refund"
      BY <1>f, <2>5, <3>2 DEF Confirm
    <3>3. CASE Outcome(w) = "wait"
      BY <2>5, <3>3 DEF Confirm, db
    <3> QED
      BY <3>1, <3>2, <3>3 DEF Outcome
  <2> QED
    BY <1>3, <2>1, <2>2, <2>3, <2>4, <2>5 DEF WorkerStep
<1>4. ASSUME NEW p \in Workers, Fault(p)
      PROVE  journal' = journal
  BY <1>4 DEF Fault, SkipRow, AbortPass, Crash, db
<1>5. ASSUME NEW w \in Withdrawals, GraceElapses(w) \/ Custody(w)
      PROVE  journal' = journal
  BY <1>5 DEF GraceElapses, Custody, Accept, Drop, Announce, Broadcast, Mine, Revert, GiveUp, Provide, db
<1>6. ASSUME NEW w \in Withdrawals, Webhook(w)
      PROVE  journal' = journal \/ Moved
  BY <1>a, <1>6 DEF Webhook, Deliver
<1> QED
  BY <1>1, <1>2, <1>3, <1>4, <1>5, <1>6 DEF Next, Moved

LEMMA LevelInvariance == Spec => [](TypeOK /\ Level(journal))
<1>1. Init => Level(journal)
  BY InitLevel
<1>2. TypeOK /\ Level(journal) /\ [Next]_vars => Level(journal)'
  <2> SUFFICES ASSUME TypeOK, Level(journal), [Next]_vars
               PROVE  Level(journal')
    BY DEF Level, BalanceIn, HeldIn
  <2>1. journal \in Journals
    BY DEF TypeOK, Journals
  <2> QED
    BY <2>1, NextPosts, PostLevel
<1> QED
  BY <1>1, <1>2, TypeCorrect, PTL DEF Spec

\* A withdrawal that was paid and not released is reserved; the others that
\* cost the platform anything went through a race window.
LEMMA PaidIsHeld ==
  ASSUME LedgerInv, NEW w \in Withdrawals
  PROVE  (IF Paid(w) THEN Amount[w] ELSE 0)
           <= HeldIn(journal, w) + (IF race[w] # {} THEN Gross(w) ELSE 0)
<1>1. /\ Paid(w) => Posted("reserve", w)
      /\ Posted("release", w) => Posted("reserve", w)
      /\ Posted("release", w) /\ Paid(w) => race[w] # {}
  BY DEF LedgerInv, IInv, RowInv, UntouchedInv, Untouched, RefundInv, Unresolved,
     StageInv, FreshInv, InternalInv, ReservedInv, Paid, Sent, Ops
<1>2. Amount[w] \in Nat /\ Gross(w) \in Nat /\ Amount[w] <= Gross(w)
  BY Constants DEF Gross
<1> QED
  BY <1>1, <1>2 DEF HeldIn, Posted

LEMMA LevelIsSolvent ==
  ASSUME LedgerInv, Level(journal)
  PROVE  MoneyIsKept
<1>j. journal \in Journals
  BY DEF LedgerInv, IInv, TypeOK, Journals
<1> DEFINE held == [u \in Users |-> BalanceIn(journal, u)]
           kept == [w \in Withdrawals |-> HeldIn(journal, w)]
           out  == [w \in Withdrawals |-> IF Paid(w) THEN Amount[w] ELSE 0]
           lost == [w \in Withdrawals |-> IF race[w] # {} THEN Gross(w) ELSE 0]
           both == [w \in Withdrawals |-> kept[w] + lost[w]]
<1>1. SpotNonNegative
  BY DEF SpotNonNegative, SpotBalance, Level, BalanceIn
<1>2. /\ Summable(held) /\ Summable(kept) /\ Summable(out) /\ Summable(lost)
      /\ DOMAIN kept = Withdrawals /\ DOMAIN out = Withdrawals /\ DOMAIN lost = Withdrawals
  BY <1>j, Constants, HeldInType, BalanceInType, WithdrawalsAssumption DEF Summable
<1>3. /\ Summable(both) /\ DOMAIN both = Withdrawals
      /\ \A w \in Withdrawals : both[w] = kept[w] + lost[w]
  BY Constants, HeldInType, WithdrawalsAssumption DEF Summable
<1>4. \A w \in Withdrawals : out[w] <= both[w]
  BY PaidIsHeld
<1>5. SumOver(held) + SumOver(kept) = SumOver(Funding)
  BY DEF Level
<1>s. /\ held = [u \in Users |-> SpotBalance(u)]
      /\ lost = [w \in Withdrawals |-> IF race[w] # {} THEN Amount[w] + Fee[w] ELSE 0]
  BY DEF SpotBalance, BalanceIn, Gross
<1> HIDE DEF held, kept, out, lost, both
<1>6. SumOver(out) <= SumOver(both)
  BY <1>2, <1>3, <1>4, SumGrows
<1>7. SumOver(both) = SumOver(kept) + SumOver(lost)
  BY <1>2, <1>3, SumAdds
<1>8. SumOver(held) \in Int /\ SumOver(kept) \in Int /\ SumOver(out) \in Int /\ SumOver(lost) \in Int
  BY <1>2, SumType
<1>9. SumOver(held) + SumOver(out) <= SumOver(Funding) + SumOver(lost)
  BY <1>5, <1>6, <1>7, <1>8
<1>10. Solvent
  BY <1>9, <1>s DEF Solvent, out
<1> QED
  BY <1>1, <1>10 DEF MoneyIsKept

\* No user's spot balance goes below zero, and what users can spend plus what was
\* paid out never exceeds what came in, but for withdrawals that went through a race
\* window: the balance is asked for in the Serializable transaction that reserves it
\* (assertSufficientUserSpotBalance), and everything else posts a release or a
\* settlement.
THEOREM MoneyIsKeptAlways == Spec => []MoneyIsKept
<1>1. LedgerInv /\ TypeOK /\ Level(journal) => MoneyIsKept
  BY LevelIsSolvent
<1> QED
  BY <1>1, LedgerInvariance, LevelInvariance, PTL
=============================================================================
