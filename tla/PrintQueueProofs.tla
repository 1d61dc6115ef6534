-------------------------- MODULE PrintQueueProofs --------------------------
(***************************************************************************)
(* Proofs about PrintQueue for every number of requests, printers, retries *)
(* and jobs.  The central argument counts reservations: a request that may *)
(* still print a job, and a failed job that a reprint may still take, each *)
(* reserve one copy.  Only a reprint that takes a job which is not failed  *)
(* creates a reservation out of nothing, and it is counted in stale.       *)
(***************************************************************************)
EXTENDS PrintQueue, FiniteSetTheorems, TLAPS

Holding == Working \cup {"retake", "confirm"}
PCs == {"idle", "next", "done"} \cup Holding
Row == [status : {"none"} \cup Open \cup Ended, role : Roles \cup {"none"},
        printer : Printers \cup {"none"}, tries : 0..MaxRetry]
ReqRow == [pc : PCs, roles : Seq(Roles), role : Roles \cup {"none"}, todo : SUBSET Nat,
           job : 0..MaxJobs, tries : 0..MaxRetry]

\* A request that holds a job holds one that exists; another attempt is due only
\* while there are attempts left.
Fit(q) == /\ q.pc \in Holding => q.job \in 1..born
          /\ q.pc \in {"attempt", "retry"} => q.tries < MaxRetry
          /\ q.todo # {} => q.role \in Roles /\ q.todo \subseteq DOMAIN PrintersOf[q.role]

Types == /\ jobs \in [Jobs -> Row]
         /\ born \in 0..MaxJobs
         /\ req \in [Requests -> ReqRow]
         /\ copies \in [Jobs -> Nat]
         /\ stale \in [Jobs -> Nat]
         /\ left \subseteq Jobs
         /\ faults \in 0..MaxFaults

\* A row exists from its insertion on, and nothing is known of a job before.
Rows == \A j \in Jobs : /\ jobs[j].status = "none" <=> j > born
                        /\ j <= born => jobs[j].role \in Roles /\ jobs[j].printer \in Printers
                        /\ j > born => copies[j] = 0

Sound == Types /\ Rows /\ \A r \in Requests : Fit(req[r])

IInv == Sound /\ CopiesAccounted /\ OpenJobHasWorker

-----------------------------------------------------------------------------
(* Who works on a job                                                         *)

\* The workers of a job are a finite set.
LEMMA WorkersFinite == \A j : IsFiniteSet(Workers(j)) /\ Cardinality(Workers(j)) \in Nat
<1> SUFFICES ASSUME NEW j PROVE IsFiniteSet(Workers(j)) /\ Cardinality(Workers(j)) \in Nat
  OBVIOUS
<1>1. Workers(j) \subseteq Requests
  BY DEF Workers
<1>2. IsFiniteSet(Workers(j))
  BY <1>1, PrintAssumption, FS_Subset
<1> QED BY <1>2, FS_CardinalityType

\* A step of one request changes the workers of a job by that request at most.
LEMMA WorkersStay ==
  ASSUME Types, NEW r \in Requests, NEW q \in ReqRow, req' = [req EXCEPT ![r] = q], NEW j,
         (q.pc \in Working /\ q.job = j) <=> r \in Workers(j)
  PROVE  Workers(j)' = Workers(j)
<1>1. \A s \in Requests : req'[s] = IF s = r THEN q ELSE req[s]
  BY DEF Types
<1> QED BY <1>1 DEF Workers

LEMMA WorkersJoin ==
  ASSUME Types, NEW r \in Requests, NEW q \in ReqRow, req' = [req EXCEPT ![r] = q], NEW j,
         q.pc \in Working, q.job = j, r \notin Workers(j)
  PROVE  Cardinality(Workers(j))' = Cardinality(Workers(j)) + 1
<1>1. \A s \in Requests : req'[s] = IF s = r THEN q ELSE req[s]
  BY DEF Types
<1>2. Workers(j)' = Workers(j) \cup {r}
  BY <1>1 DEF Workers
<1>3. Cardinality(Workers(j) \cup {r}) = Cardinality(Workers(j)) + 1
  BY WorkersFinite, FS_AddElement
<1> QED BY <1>2, <1>3

LEMMA WorkersLeave ==
  ASSUME Types, NEW r \in Requests, NEW q \in ReqRow, req' = [req EXCEPT ![r] = q], NEW j,
         ~(q.pc \in Working /\ q.job = j), r \in Workers(j)
  PROVE  Cardinality(Workers(j))' = Cardinality(Workers(j)) - 1
<1>1. \A s \in Requests : req'[s] = IF s = r THEN q ELSE req[s]
  BY DEF Types
<1>2. Workers(j)' = Workers(j) \ {r}
  BY <1>1 DEF Workers
<1>3. Cardinality(Workers(j) \ {r}) = Cardinality(Workers(j)) - 1
  BY WorkersFinite, FS_RemoveElement
<1> QED BY <1>2, <1>3

-----------------------------------------------------------------------------
(* What the steps do to the request and to its row                            *)

\* A request that is moved to another place keeps its other fields.
LEMMA GotoFacts ==
  ASSUME Types, NEW r \in Requests, NEW pc \in PCs, Goto(r, pc)
  PROVE  \E q \in ReqRow : /\ req' = [req EXCEPT ![r] = q]
                           /\ q.pc = pc /\ q.job = req[r].job /\ q.tries = req[r].tries
                           /\ q.todo = req[r].todo /\ q.role = req[r].role
<1> DEFINE q == [req[r] EXCEPT !.pc = pc]
<1>1. req[r] \in ReqRow
  BY DEF Types
<1>2. q \in ReqRow /\ q.pc = pc /\ q.job = req[r].job /\ q.tries = req[r].tries
      /\ q.todo = req[r].todo /\ q.role = req[r].role
  BY <1>1 DEF ReqRow
<1>3. req' = [req EXCEPT ![r] = q]
  BY DEF Goto
<1> HIDE DEF q
<1> QED BY <1>2, <1>3

\* A request that goes on with its next printer, or ends, holds no job.
LEMMA ReleaseFacts ==
  ASSUME Types, NEW r \in Requests, NextPrinter(r) \/ Leave(r)
  PROVE  \E q \in ReqRow : /\ req' = [req EXCEPT ![r] = q]
                           /\ q.pc \in {"next", "done"}
                           /\ q.todo # {} => q.todo = req[r].todo /\ q.role = req[r].role
<1>1. req[r] \in ReqRow /\ 0 \in 0..MaxRetry /\ 0 \in 0..MaxJobs
  BY PrintAssumption DEF Types
<1>4. {"next", "done"} \subseteq PCs /\ <<>> \in Seq(Roles)
  BY DEF PCs
<1>2. CASE NextPrinter(r)
  <2> DEFINE q == [req[r] EXCEPT !.pc = "next", !.job = 0, !.tries = 0]
  <2>1. q \in ReqRow /\ q.pc = "next" /\ q.todo = req[r].todo /\ q.role = req[r].role
    BY <1>1, <1>4 DEF ReqRow
  <2>2. req' = [req EXCEPT ![r] = q]
    BY <1>2 DEF NextPrinter
  <2> HIDE DEF q
  <2> QED BY <2>1, <2>2
<1>3. CASE Leave(r)
  <2> DEFINE q == [Idle EXCEPT !.pc = "done"]
  <2>1. q \in ReqRow /\ q.pc = "done" /\ q.todo = {}
    BY <1>1, <1>4 DEF ReqRow, Idle
  <2>2. req' = [req EXCEPT ![r] = q]
    BY <1>3 DEF Leave
  <2> HIDE DEF q
  <2> QED BY <2>1, <2>2
<1> QED BY <1>2, <1>3

\* A write changes the status and the count of one row.
LEMMA WriteFacts ==
  ASSUME Types, NEW j \in Jobs, NEW status \in Open \cup Ended, NEW tries \in 0..MaxRetry,
         Write(j, status, tries)
  PROVE  /\ jobs' \in [Jobs -> Row]
         /\ \A k \in Jobs : /\ jobs'[k].status = IF k = j THEN status ELSE jobs[k].status
                            /\ jobs'[k].role = jobs[k].role /\ jobs'[k].printer = jobs[k].printer
<1> DEFINE row == [jobs[j] EXCEPT !.status = status, !.tries = tries]
<1>1. jobs[j] \in Row
  BY DEF Types
<1>2. row \in Row /\ row.status = status /\ row.role = jobs[j].role /\ row.printer = jobs[j].printer
  BY <1>1 DEF Row
<1>3. jobs' = [jobs EXCEPT ![j] = row]
  BY DEF Write
<1> HIDE DEF row
<1>4. \A k \in Jobs : jobs'[k] = IF k = j THEN row ELSE jobs[k]
  BY <1>3 DEF Types
<1> QED BY <1>2, <1>3, <1>4 DEF Types

\* The requests stay well-formed when one of them moves and no row disappears.
LEMMA RequestsKept ==
  ASSUME Sound, NEW r \in Requests, NEW q \in ReqRow, req' = [req EXCEPT ![r] = q],
         born' \in 0..MaxJobs, born <= born', Fit(q)'
  PROVE  req' \in [Requests -> ReqRow] /\ \A s \in Requests : Fit(req[s])'
<1>1. \A s \in Requests : req'[s] = IF s = r THEN q ELSE req[s]
  BY DEF Sound, Types
<1>2. req' \in [Requests -> ReqRow]
  BY DEF Sound, Types
<1>3. ASSUME NEW s \in Requests PROVE Fit(req[s])'
  <2>1. CASE s = r
    BY <1>1, <2>1 DEF Fit
  <2>2. CASE s # r
    <3>1. req'[s] = req[s] /\ Fit(req[s]) /\ req[s] \in ReqRow
      BY <1>1, <2>2 DEF Sound, Types
    <3>2. born \in Nat /\ born' \in Nat
      BY PrintAssumption DEF Sound, Types
    <3>3. req[s].job \in 1..born => req[s].job \in 1..born'
      BY <3>2
    <3> QED BY <3>1, <3>3 DEF Fit
  <2> QED BY <2>1, <2>2
<1> QED BY <1>2, <1>3

\* A held job exists.
LEMMA HeldJob ==
  ASSUME Sound, NEW r \in Requests, req[r].pc \in Holding
  PROVE  req[r].job \in Jobs /\ req[r].job <= born
<1>1. req[r].job \in 1..born /\ born \in 0..MaxJobs
  BY DEF Sound, Fit, Types
<1> QED BY <1>1, PrintAssumption DEF Jobs

\* Writing a status into a row that exists keeps Rows.
LEMMA RowsKept ==
  ASSUME Sound, NEW j \in Jobs, j <= born, NEW status \in Open \cup Ended,
         \A k \in Jobs : /\ jobs'[k].status = IF k = j THEN status ELSE jobs[k].status
                         /\ jobs'[k].role = jobs[k].role /\ jobs'[k].printer = jobs[k].printer,
         UNCHANGED <<born, copies>>
  PROVE  Rows'
<1>1. status # "none"
  BY DEF Open, Ended
<1>2. born \in Int /\ j \in Int
  BY PrintAssumption DEF Sound, Types, Jobs
<1> QED BY <1>1, <1>2 DEF Sound, Rows

\* A job in work stays in the hands of those who hold it.
LEMMA HoldersKept ==
  ASSUME Sound, OpenJobHasWorker, NEW r \in Requests,
         \A s \in Requests : s # r => req'[s] = req[s],
         NEW j \in Jobs, jobs[j].status \in Open, j \notin left,
         Holds(r, j) => Holds(r, j)'
  PROVE  \E s \in Requests : Holds(s, j)'
<1>1. PICK s \in Requests : Holds(s, j)
  BY DEF OpenJobHasWorker
<1>2. CASE s = r
  BY <1>1, <1>2
<1>3. CASE s # r
  BY <1>1, <1>3 DEF Holds
<1> QED BY <1>2, <1>3

\* A step that writes no row and leaves the request at work, or not at work, on its job.
LEMMA QuietStep ==
  ASSUME IInv, NEW r \in Requests, NEW q \in ReqRow, req' = [req EXCEPT ![r] = q], Fit(q),
         UNCHANGED <<jobs, born, copies, stale, left, faults>>,
         q.pc \in Working <=> req[r].pc \in Working,
         q.pc = "confirm" <=> req[r].pc = "confirm",
         q.pc \in Working \cup {"confirm"} => q.job = req[r].job
  PROVE  IInv'
<1>0. Sound /\ CopiesAccounted /\ OpenJobHasWorker
  BY DEF IInv
<1>1. Sound'
  <2>1. born' \in 0..MaxJobs /\ born <= born' /\ Fit(q)'
    BY <1>0, PrintAssumption DEF Sound, Types, Fit
  <2>2. req' \in [Requests -> ReqRow] /\ \A s \in Requests : Fit(req[s])'
    BY <1>0, <2>1, RequestsKept
  <2> QED BY <1>0, <2>2 DEF Sound, Types, Rows
<1>2. CopiesAccounted'
  <2>1. ASSUME NEW j \in Jobs PROVE Workers(j)' = Workers(j)
    <3>1. (q.pc \in Working /\ q.job = j) <=> r \in Workers(j)
      BY DEF Workers
    <3> QED BY <1>0, <3>1, WorkersStay DEF Sound
  <2> QED BY <1>0, <2>1 DEF CopiesAccounted
<1>3. OpenJobHasWorker'
  <2> SUFFICES ASSUME NEW j \in Jobs, jobs[j].status \in Open, j \notin left
               PROVE  \E s \in Requests : Holds(s, j)'
    BY DEF OpenJobHasWorker
  <2>1. \A s \in Requests : req'[s] = IF s = r THEN q ELSE req[s]
    BY <1>0 DEF Sound, Types
  <2>2. Holds(r, j) => Holds(r, j)'
    BY <2>1 DEF Holds
  <2> QED BY <1>0, <2>1, <2>2, HoldersKept
<1> QED BY <1>1, <1>2, <1>3 DEF IInv

\* A worker writes an open status into its row and works on.
LEMMA WorkStep ==
  ASSUME IInv, NEW r \in Requests, NEW q \in ReqRow, req' = [req EXCEPT ![r] = q], Fit(q),
         req[r].pc \in Working, q.pc \in Working, q.job = req[r].job,
         NEW status \in Open, NEW tries \in 0..MaxRetry, Write(req[r].job, status, tries),
         UNCHANGED <<born, copies, stale, left, faults>>
  PROVE  IInv'
<1>0. Sound /\ CopiesAccounted /\ OpenJobHasWorker
  BY DEF IInv
<1>10. req[r].job \in Jobs /\ req[r].job <= born
  BY <1>0, HeldJob DEF Holding
<1>1. /\ jobs' \in [Jobs -> Row]
      /\ \A k \in Jobs :
           /\ jobs'[k].status = IF k = req[r].job THEN status ELSE jobs[k].status
           /\ jobs'[k].role = jobs[k].role /\ jobs'[k].printer = jobs[k].printer
  BY <1>0, <1>10, WriteFacts DEF Sound
<1>2. Sound'
  <2>1. born' \in 0..MaxJobs /\ born <= born' /\ Fit(q)'
    BY <1>0, PrintAssumption DEF Sound, Types, Fit
  <2>2. req' \in [Requests -> ReqRow] /\ \A s \in Requests : Fit(req[s])'
    BY <1>0, <2>1, RequestsKept
  <2>3. Rows'
    BY <1>0, <1>10, <1>1, RowsKept
  <2> QED BY <1>0, <1>1, <2>2, <2>3 DEF Sound, Types
<1>3. CopiesAccounted'
  <2> SUFFICES ASSUME NEW j \in Jobs
               PROVE  copies'[j] + Cardinality(Workers(j))'
                        + (IF jobs'[j].status = "failed" THEN 1 ELSE 0) <= 1 + stale'[j]
    BY DEF CopiesAccounted
  <2>1. Workers(j)' = Workers(j)
    <3>1. (q.pc \in Working /\ q.job = j) <=> r \in Workers(j)
      BY DEF Workers
    <3> QED BY <1>0, <3>1, WorkersStay DEF Sound
  <2>2. jobs'[j].status = "failed" => jobs[j].status = "failed"
    BY <1>1 DEF Open
  <2> QED BY <1>0, <2>1, <2>2, WorkersFinite DEF CopiesAccounted, Sound, Types
<1>4. OpenJobHasWorker'
  <2> SUFFICES ASSUME NEW j \in Jobs, jobs'[j].status \in Open, j \notin left
               PROVE  \E s \in Requests : Holds(s, j)'
    BY DEF OpenJobHasWorker
  <2>0. \A s \in Requests : req'[s] = IF s = r THEN q ELSE req[s]
    BY <1>0 DEF Sound, Types
  <2>1. CASE j = req[r].job
    <3>1. Holds(r, j)'
      BY <2>0, <2>1 DEF Holds
    <3> QED BY <3>1
  <2>2. CASE j # req[r].job
    <3>1. jobs[j].status \in Open /\ ~Holds(r, j)
      BY <1>1, <2>2 DEF Holds
    <3> QED BY <1>0, <2>0, <3>1, HoldersKept
  <2> QED BY <2>1, <2>2
<1> QED BY <1>2, <1>3, <1>4 DEF IInv

\* A reprint sets its job back to 'pending' and works on it.
LEMMA RetakeStep == ASSUME IInv, NEW r \in Requests, Retake(r) PROVE IInv'
<1> DEFINE j == req[r].job
<1>0. Sound /\ CopiesAccounted /\ OpenJobHasWorker /\ req[r].pc = "retake"
  BY DEF IInv, Retake, At
<1>1. j \in Jobs /\ j <= born
  BY <1>0, HeldJob DEF Holding
<1>2. PICK q \in ReqRow : req' = [req EXCEPT ![r] = q] /\ q.pc = "read" /\ q.job = j /\ q.todo = req[r].todo
                          /\ q.role = req[r].role
  BY <1>0, GotoFacts DEF Sound, Retake, PCs, Holding, Working
<1>3. Write(j, "pending", 0) /\ UNCHANGED <<born, copies, left, faults>>
  BY DEF Retake, Job, Unseen
<1>4. stale' = IF jobs[j].status = "failed" THEN stale ELSE [stale EXCEPT ![j] = @ + 1]
  BY DEF Retake, Job
<1>12. 0 \in 0..MaxRetry /\ "pending" \in Open
  BY PrintAssumption DEF Open
<1> HIDE DEF j
<1>5. /\ jobs' \in [Jobs -> Row]
      /\ \A k \in Jobs :
           /\ jobs'[k].status = IF k = j THEN "pending" ELSE jobs[k].status
           /\ jobs'[k].role = jobs[k].role /\ jobs'[k].printer = jobs[k].printer
  BY <1>0, <1>1, <1>3, <1>12, WriteFacts DEF Sound
<1>6. \A s \in Requests : req'[s] = IF s = r THEN q ELSE req[s]
  BY <1>0, <1>2 DEF Sound, Types
<1>11. q.pc \in Working
  BY <1>2 DEF Working
<1>7. Sound'
  <2>1. Fit(req[r])
    BY <1>0 DEF Sound
  <2>2. born' \in 0..MaxJobs /\ born <= born' /\ Fit(q)'
    BY <1>0, <1>2, <1>3, <2>1, PrintAssumption DEF Sound, Types, Fit, Holding, j
  <2>3. req' \in [Requests -> ReqRow] /\ \A s \in Requests : Fit(req[s])'
    BY <1>0, <1>2, <2>2, RequestsKept
  <2>4. Rows'
    BY <1>0, <1>1, <1>3, <1>5, <1>12, RowsKept
  <2>5. stale' \in [Jobs -> Nat]
    BY <1>0, <1>1, <1>4 DEF Sound, Types
  <2> QED BY <1>0, <1>3, <1>5, <2>3, <2>4, <2>5 DEF Sound, Types
<1>8. CopiesAccounted'
  <2> SUFFICES ASSUME NEW k \in Jobs
               PROVE  copies'[k] + Cardinality(Workers(k))'
                        + (IF jobs'[k].status = "failed" THEN 1 ELSE 0) <= 1 + stale'[k]
    BY DEF CopiesAccounted
  <2>1. /\ copies[k] \in Nat /\ stale[k] \in Nat /\ Cardinality(Workers(k)) \in Nat /\ copies'[k] = copies[k]
        /\ copies[k] + Cardinality(Workers(k))
             + (IF jobs[k].status = "failed" THEN 1 ELSE 0) <= 1 + stale[k]
    BY <1>0, <1>3, WorkersFinite DEF Sound, Types, CopiesAccounted
  <2>2. r \notin Workers(k)
    BY <1>0 DEF Workers, Working
  <2>3. CASE k = j
    <3>1. Cardinality(Workers(k))' = Cardinality(Workers(k)) + 1
      BY <1>0, <1>2, <1>11, <2>2, <2>3, WorkersJoin DEF Sound
    <3>2. jobs'[k].status # "failed"
      BY <1>5, <2>3
    <3>3. stale'[k] = IF jobs[k].status = "failed" THEN stale[k] ELSE stale[k] + 1
      BY <1>0, <1>4, <2>3 DEF Sound, Types
    <3> QED BY <2>1, <3>1, <3>2, <3>3
  <2>4. CASE k # j
    <3>1. Workers(k)' = Workers(k)
      BY <1>0, <1>2, <2>2, <2>4, WorkersStay DEF Sound
    <3>2. stale'[k] = stale[k] /\ jobs'[k].status = jobs[k].status
      BY <1>0, <1>4, <1>5, <2>4 DEF Sound, Types
    <3> QED BY <2>1, <3>1, <3>2
  <2> QED BY <2>3, <2>4
<1>9. OpenJobHasWorker'
  <2> SUFFICES ASSUME NEW k \in Jobs, jobs'[k].status \in Open, k \notin left
               PROVE  \E s \in Requests : Holds(s, k)'
    BY <1>3 DEF OpenJobHasWorker
  <2>1. CASE k = j
    <3>1. Holds(r, k)'
      BY <1>2, <1>6, <2>1 DEF Holds, Working
    <3> QED BY <3>1
  <2>2. CASE k # j
    <3>1. jobs[k].status \in Open /\ ~Holds(r, k)
      BY <1>5, <2>2 DEF Holds, j
    <3> QED BY <1>0, <1>6, <3>1, HoldersKept
  <2> QED BY <2>1, <2>2
<1> QED BY <1>7, <1>8, <1>9 DEF IInv

\* A request inserts the next job and works on it; nobody else knows the job yet.
LEMMA EnqueueStep == ASSUME IInv, NEW r \in Requests, Enqueue(r) PROVE IInv'
<1> DEFINE j == born + 1
<1>0. Sound /\ CopiesAccounted /\ OpenJobHasWorker /\ req[r].pc = "next" /\ Fit(req[r])
  BY DEF IInv, Enqueue, At, Sound
<1>1. PICK i \in req[r].todo :
        /\ jobs' = [jobs EXCEPT ![j] = [status |-> "pending", role |-> req[r].role, tries |-> 0,
                                        printer |-> PrintersOf[req[r].role][i]]]
        /\ req' = [req EXCEPT ![r].pc = "read", ![r].job = j, ![r].todo = @ \ {i}]
  BY DEF Enqueue
<1>2. born < MaxJobs /\ born' = j /\ UNCHANGED <<copies, stale, left, faults>>
  BY DEF Enqueue, Unseen
<1>3. born \in Nat /\ j \in Jobs /\ j \in 1..MaxJobs /\ j \in 0..MaxJobs /\ born < j
  BY <1>0, <1>2, PrintAssumption DEF Sound, Types, Jobs
<1> HIDE DEF j
<1>4. req[r] \in ReqRow /\ req[r].role \in Roles /\ i \in DOMAIN PrintersOf[req[r].role]
      /\ req[r].todo \subseteq DOMAIN PrintersOf[req[r].role]
  BY <1>0, <1>1 DEF Sound, Types, Fit
<1>5. PrintersOf[req[r].role][i] \in Printers
  BY <1>4, PrintAssumption
<1>6. PICK row \in Row : /\ jobs' = [jobs EXCEPT ![j] = row]
                         /\ row.status = "pending" /\ row.role \in Roles /\ row.printer \in Printers
  <2> DEFINE row == [status |-> "pending", role |-> req[r].role, tries |-> 0,
                     printer |-> PrintersOf[req[r].role][i]]
  <2>1. row \in Row /\ row.status = "pending" /\ row.role \in Roles /\ row.printer \in Printers
    BY <1>4, <1>5, PrintAssumption DEF Row, Open
  <2>2. jobs' = [jobs EXCEPT ![j] = row]
    BY <1>1
  <2> HIDE DEF row
  <2> QED BY <2>1, <2>2
<1>7. PICK q \in ReqRow :
        /\ req' = [req EXCEPT ![r] = q]
        /\ q.pc = "read" /\ q.job = j /\ q.role = req[r].role /\ q.todo \subseteq req[r].todo
  <2> DEFINE q == [req[r] EXCEPT !.pc = "read", !.job = j, !.todo = @ \ {i}]
  <2>1. "read" \in PCs
    BY DEF PCs, Holding, Working
  <2>2. req[r].todo \ {i} \in SUBSET Nat
    BY <1>4 DEF ReqRow
  <2>3. q \in ReqRow /\ q.pc = "read" /\ q.job = j /\ q.role = req[r].role /\ q.todo \subseteq req[r].todo
    BY <1>3, <1>4, <2>1, <2>2 DEF ReqRow
  <2>4. req' = [req EXCEPT ![r] = q]
    BY <1>1
  <2> HIDE DEF q
  <2> QED BY <2>3, <2>4
<1>9. \A k \in Jobs : jobs'[k] = IF k = j THEN row ELSE jobs[k]
  BY <1>0, <1>3, <1>6 DEF Sound, Types
<1>8. q.pc \in Working
  BY <1>7 DEF Working
<1>10. \A s \in Requests : req'[s] = IF s = r THEN q ELSE req[s]
  BY <1>0, <1>7 DEF Sound, Types
<1>11. Sound'
  <2>1. j \in 1..j
    BY <1>3
  <2>2. born' \in 0..MaxJobs /\ born <= born' /\ Fit(q)'
    BY <1>0, <1>2, <1>3, <1>4, <1>7, <2>1 DEF Fit
  <2>3. req' \in [Requests -> ReqRow] /\ \A s \in Requests : Fit(req[s])'
    BY <1>0, <1>7, <2>2, RequestsKept
  <2>4. jobs' \in [Jobs -> Row]
    BY <1>0, <1>3, <1>6 DEF Sound, Types
  <2>5. Rows'
    <3> SUFFICES ASSUME NEW k \in Jobs
                 PROVE  /\ jobs'[k].status = "none" <=> k > j
                        /\ k <= j => jobs'[k].role \in Roles /\ jobs'[k].printer \in Printers
                        /\ k > j => copies[k] = 0
      BY <1>2 DEF Rows
    <3>1. k \in Int
      BY DEF Jobs
    <3>2. CASE k = j
      BY <1>3, <1>6, <1>9, <3>1, <3>2
    <3>3. CASE k # j
      <4>1. jobs'[k] = jobs[k] /\ (k > born <=> k > j) /\ (k <= born <=> k <= j)
        BY <1>3, <1>9, <3>1, <3>3 DEF j
      <4> QED BY <1>0, <4>1 DEF Sound, Rows
    <3> QED BY <3>2, <3>3
  <2> QED BY <1>0, <1>2, <2>2, <2>3, <2>4, <2>5 DEF Sound, Types
<1>12. r \notin Workers(j) /\ Workers(j) = {}
  <2>1. ASSUME NEW s \in Requests, s \in Workers(j) PROVE FALSE
    <3>1. req[s].job = j /\ req[s].pc \in Holding
      BY <2>1 DEF Workers, Holding
    <3>2. j <= born
      BY <1>0, <3>1, HeldJob
    <3> QED BY <1>3, <3>2
  <2>2. Workers(j) \subseteq Requests
    BY DEF Workers
  <2> QED BY <2>1, <2>2
<1>13. CopiesAccounted'
  <2> SUFFICES ASSUME NEW k \in Jobs
               PROVE  copies'[k] + Cardinality(Workers(k))'
                        + (IF jobs'[k].status = "failed" THEN 1 ELSE 0) <= 1 + stale'[k]
    BY DEF CopiesAccounted
  <2>1. /\ copies[k] \in Nat /\ stale[k] \in Nat /\ Cardinality(Workers(k)) \in Nat
        /\ copies'[k] = copies[k] /\ stale'[k] = stale[k]
        /\ copies[k] + Cardinality(Workers(k))
             + (IF jobs[k].status = "failed" THEN 1 ELSE 0) <= 1 + stale[k]
    BY <1>0, <1>2, WorkersFinite DEF Sound, Types, CopiesAccounted
  <2>2. CASE k = j
    <3>1. Cardinality(Workers(k))' = Cardinality(Workers(k)) + 1
      BY <1>0, <1>7, <1>8, <1>12, <2>2, WorkersJoin DEF Sound
    <3>2. Cardinality(Workers(k)) = 0
      BY <1>12, <2>2, FS_EmptySet
    <3>3. copies[k] = 0
      BY <1>0, <1>3, <2>2 DEF Sound, Rows, Jobs
    <3>4. jobs'[k].status # "failed"
      BY <1>6, <1>9, <2>2
    <3> QED BY <2>1, <3>1, <3>2, <3>3, <3>4
  <2>3. CASE k # j
    <3>1. r \notin Workers(k)
      BY <1>0 DEF Workers, Working
    <3>2. Workers(k)' = Workers(k)
      BY <1>0, <1>7, <2>3, <3>1, WorkersStay DEF Sound
    <3> QED BY <1>9, <2>1, <2>3, <3>2
  <2> QED BY <2>2, <2>3
<1>14. OpenJobHasWorker'
  <2> SUFFICES ASSUME NEW k \in Jobs, jobs'[k].status \in Open, k \notin left
               PROVE  \E s \in Requests : Holds(s, k)'
    BY <1>2 DEF OpenJobHasWorker
  <2>1. CASE k = j
    <3>1. Holds(r, k)'
      BY <1>7, <1>10, <2>1 DEF Holds, Working
    <3> QED BY <3>1
  <2>2. CASE k # j
    <3>1. jobs[k].status \in Open /\ ~Holds(r, k)
      BY <1>0, <1>9, <2>2 DEF Holds, Working
    <3> QED BY <1>0, <1>10, <3>1, HoldersKept
  <2> QED BY <2>1, <2>2
<1> QED BY <1>11, <1>13, <1>14 DEF IInv

\* A confirmed copy takes the place of the worker that reserved it.
LEMMA ConfirmStep == ASSUME IInv, NEW r \in Requests, PrinterConfirms(r) PROVE IInv'
<1> DEFINE j == req[r].job
<1>0. Sound /\ CopiesAccounted /\ OpenJobHasWorker /\ req[r].pc = "sending" /\ Fit(req[r])
  BY DEF IInv, PrinterConfirms, At, Sound
<1>1. j \in Jobs /\ r \in Workers(j)
  BY <1>0, HeldJob DEF Holding, Working, Workers
<1>2. PICK q \in ReqRow : /\ req' = [req EXCEPT ![r] = q] /\ q.pc = "confirm" /\ q.job = j
                          /\ q.todo = req[r].todo /\ q.role = req[r].role
  BY <1>0, GotoFacts DEF Sound, PrinterConfirms, PCs, Holding
<1>3. copies' = [copies EXCEPT ![j] = @ + 1] /\ UNCHANGED <<jobs, born, stale, left, faults>>
  BY DEF PrinterConfirms, Unseen, Job
<1>4. j <= born
  BY <1>0, HeldJob DEF Holding, Working
<1> HIDE DEF j
<1>5. \A s \in Requests : req'[s] = IF s = r THEN q ELSE req[s]
  BY <1>0, <1>2 DEF Sound, Types
<1>6. \A k \in Jobs : copies'[k] = IF k = j THEN copies[k] + 1 ELSE copies[k]
  BY <1>0, <1>3 DEF Sound, Types
<1>7. Sound'
  <2>1. born' \in 0..MaxJobs /\ born <= born' /\ Fit(q)'
    BY <1>0, <1>2, <1>3, PrintAssumption DEF Sound, Types, Fit, Holding, Working, j
  <2>2. req' \in [Requests -> ReqRow] /\ \A s \in Requests : Fit(req[s])'
    BY <1>0, <1>2, <2>1, RequestsKept
  <2>3. copies' \in [Jobs -> Nat]
    BY <1>0, <1>1, <1>3 DEF Sound, Types
  <2>4. Rows'
    <3>1. j \in Int /\ born \in Int
      BY <1>0, <1>1, PrintAssumption DEF Jobs, Sound, Types
    <3>2. ASSUME NEW k \in Jobs, k > born PROVE copies'[k] = 0
      BY <1>0, <1>4, <1>6, <3>1, <3>2 DEF Sound, Rows
    <3> QED BY <1>0, <1>3, <3>2 DEF Sound, Rows
  <2> QED BY <1>0, <1>3, <2>2, <2>3, <2>4 DEF Sound, Types
<1>8. CopiesAccounted'
  <2> SUFFICES ASSUME NEW k \in Jobs
               PROVE  copies'[k] + Cardinality(Workers(k))'
                        + (IF jobs[k].status = "failed" THEN 1 ELSE 0) <= 1 + stale[k]
    BY <1>3 DEF CopiesAccounted
  <2>1. /\ copies[k] \in Nat /\ stale[k] \in Nat /\ Cardinality(Workers(k)) \in Nat
        /\ copies[k] + Cardinality(Workers(k))
             + (IF jobs[k].status = "failed" THEN 1 ELSE 0) <= 1 + stale[k]
    BY <1>0, WorkersFinite DEF Sound, Types, CopiesAccounted
  <2>2. q.pc \notin Working
    BY <1>2 DEF Working
  <2>3. CASE k = j
    <3>1. Cardinality(Workers(k))' = Cardinality(Workers(k)) - 1
      BY <1>0, <1>1, <1>2, <2>2, <2>3, WorkersLeave DEF Sound
    <3> QED BY <1>6, <2>1, <2>3, <3>1
  <2>4. CASE k # j
    <3>1. r \notin Workers(k)
      BY <2>4 DEF Workers, j
    <3>2. Workers(k)' = Workers(k)
      BY <1>0, <1>2, <2>2, <3>1, WorkersStay DEF Sound
    <3> QED BY <1>6, <2>1, <2>4, <3>2
  <2> QED BY <2>3, <2>4
<1>9. OpenJobHasWorker'
  <2> SUFFICES ASSUME NEW k \in Jobs, jobs[k].status \in Open, k \notin left
               PROVE  \E s \in Requests : Holds(s, k)'
    BY <1>3 DEF OpenJobHasWorker
  <2>1. Holds(r, k) => Holds(r, k)'
    BY <1>2, <1>5 DEF Holds, j
  <2> QED BY <1>0, <1>5, <2>1, HoldersKept
<1> QED BY <1>7, <1>8, <1>9 DEF IInv

\* A final write ends the job, and with 'failed' passes the reservation on to a reprint.
LEMMA FinalStep ==
  ASSUME IInv, NEW r \in Requests, NextPrinter(r), req[r].pc \in Working \cup {"confirm"},
         NEW status \in Ended, NEW tries \in 0..MaxRetry, Write(req[r].job, status, tries),
         status = "failed" => req[r].pc \in Working,
         UNCHANGED <<born, copies, stale, left, faults>>
  PROVE  IInv'
<1> DEFINE j == req[r].job
<1>0. Sound /\ CopiesAccounted /\ OpenJobHasWorker /\ Fit(req[r])
  BY DEF IInv, Sound
<1>1. j \in Jobs /\ j <= born
  BY <1>0, HeldJob DEF Holding
<1>2. PICK q \in ReqRow : /\ req' = [req EXCEPT ![r] = q] /\ q.pc \in {"next", "done"}
                          /\ q.todo # {} => q.todo = req[r].todo /\ q.role = req[r].role
  BY <1>0, ReleaseFacts DEF Sound
<1>3. Write(j, status, tries) /\ (r \in Workers(j) <=> req[r].pc \in Working)
  BY DEF Workers
<1> HIDE DEF j
<1>4. /\ jobs' \in [Jobs -> Row]
      /\ \A k \in Jobs :
           /\ jobs'[k].status = IF k = j THEN status ELSE jobs[k].status
           /\ jobs'[k].role = jobs[k].role /\ jobs'[k].printer = jobs[k].printer
  BY <1>0, <1>1, <1>3, WriteFacts DEF Sound
<1>5. \A s \in Requests : req'[s] = IF s = r THEN q ELSE req[s]
  BY <1>0, <1>2 DEF Sound, Types
<1>6. q.pc \notin Working /\ q.pc \notin Holding /\ q.pc \notin {"attempt", "retry"}
  BY <1>2 DEF Working, Holding
<1>7. Sound'
  <2>1. born' \in 0..MaxJobs /\ born <= born' /\ Fit(q)'
    BY <1>0, <1>2, <1>6, PrintAssumption DEF Sound, Types, Fit
  <2>2. req' \in [Requests -> ReqRow] /\ \A s \in Requests : Fit(req[s])'
    BY <1>0, <1>2, <2>1, RequestsKept
  <2>3. Rows'
    BY <1>0, <1>1, <1>4, RowsKept
  <2> QED BY <1>0, <1>4, <2>2, <2>3 DEF Sound, Types
<1>8. CopiesAccounted'
  <2> SUFFICES ASSUME NEW k \in Jobs
               PROVE  copies[k] + Cardinality(Workers(k))'
                        + (IF jobs'[k].status = "failed" THEN 1 ELSE 0) <= 1 + stale[k]
    BY DEF CopiesAccounted
  <2>1. /\ copies[k] \in Nat /\ stale[k] \in Nat /\ Cardinality(Workers(k)) \in Nat
        /\ copies[k] + Cardinality(Workers(k))
             + (IF jobs[k].status = "failed" THEN 1 ELSE 0) <= 1 + stale[k]
    BY <1>0, WorkersFinite DEF Sound, Types, CopiesAccounted
  <2>2. CASE k = j /\ req[r].pc \in Working
    <3>1. Cardinality(Workers(k))' = Cardinality(Workers(k)) - 1
      BY <1>0, <1>2, <1>3, <1>6, <2>2, WorkersLeave DEF Sound
    <3> QED BY <2>1, <3>1
  <2>3. CASE k = j /\ req[r].pc \notin Working
    <3>1. Workers(k)' = Workers(k)
      BY <1>0, <1>2, <1>3, <1>6, <2>3, WorkersStay DEF Sound
    <3>2. jobs'[k].status # "failed"
      BY <1>4, <2>3
    <3> QED BY <2>1, <3>1, <3>2
  <2>4. CASE k # j
    <3>1. r \notin Workers(k)
      BY <2>4 DEF Workers, j
    <3>2. Workers(k)' = Workers(k)
      BY <1>0, <1>2, <1>6, <3>1, WorkersStay DEF Sound
    <3> QED BY <1>4, <2>1, <2>4, <3>2
  <2> QED BY <2>2, <2>3, <2>4
<1>9. OpenJobHasWorker'
  <2> SUFFICES ASSUME NEW k \in Jobs, jobs'[k].status \in Open, k \notin left
               PROVE  \E s \in Requests : Holds(s, k)'
    BY DEF OpenJobHasWorker
  <2>1. k # j /\ jobs[k].status \in Open
    BY <1>4 DEF Open, Ended
  <2>2. ~Holds(r, k)
    BY <2>1 DEF Holds, j
  <2> QED BY <1>0, <1>5, <2>1, <2>2, HoldersKept
<1> QED BY <1>7, <1>8, <1>9 DEF IInv

\* A request that fails, or dies, leaves its job behind and gives its reservation up.
LEMMA StopStep ==
  ASSUME IInv, NEW r \in Requests, Leave(r),
         left' = IF req[r].pc \in Working \cup {"confirm"} THEN left \cup {req[r].job} ELSE left,
         faults' \in 0..MaxFaults, UNCHANGED <<jobs, born, copies, stale>>
  PROVE  IInv'
<1>0. Sound /\ CopiesAccounted /\ OpenJobHasWorker /\ Fit(req[r])
  BY DEF IInv, Sound
<1>1. PICK q \in ReqRow : /\ req' = [req EXCEPT ![r] = q] /\ q.pc \in {"next", "done"}
                          /\ q.todo # {} => q.todo = req[r].todo /\ q.role = req[r].role
  BY <1>0, ReleaseFacts DEF Sound
<1>2. \A s \in Requests : req'[s] = IF s = r THEN q ELSE req[s]
  BY <1>0, <1>1 DEF Sound, Types
<1>3. q.pc \notin Working /\ q.pc \notin Holding /\ q.pc \notin {"attempt", "retry"}
  BY <1>1 DEF Working, Holding
<1>4. Sound'
  <2>1. born' \in 0..MaxJobs /\ born <= born' /\ Fit(q)'
    BY <1>0, <1>1, <1>3, PrintAssumption DEF Sound, Types, Fit
  <2>2. req' \in [Requests -> ReqRow] /\ \A s \in Requests : Fit(req[s])'
    BY <1>0, <1>1, <2>1, RequestsKept
  <2>3. req[r].pc \in Working \cup {"confirm"} => req[r].job \in Jobs
    BY <1>0, HeldJob DEF Holding
  <2>4. left' \subseteq Jobs
    BY <1>0, <2>3 DEF Sound, Types
  <2> QED BY <1>0, <2>2, <2>4 DEF Sound, Types, Rows
<1>5. CopiesAccounted'
  <2> SUFFICES ASSUME NEW k \in Jobs
               PROVE  copies[k] + Cardinality(Workers(k))'
                        + (IF jobs[k].status = "failed" THEN 1 ELSE 0) <= 1 + stale[k]
    BY DEF CopiesAccounted
  <2>1. /\ copies[k] \in Nat /\ stale[k] \in Nat /\ Cardinality(Workers(k)) \in Nat
        /\ copies[k] + Cardinality(Workers(k))
             + (IF jobs[k].status = "failed" THEN 1 ELSE 0) <= 1 + stale[k]
    BY <1>0, WorkersFinite DEF Sound, Types, CopiesAccounted
  <2>2. CASE r \in Workers(k)
    <3>1. Cardinality(Workers(k))' = Cardinality(Workers(k)) - 1
      BY <1>0, <1>1, <1>3, <2>2, WorkersLeave DEF Sound
    <3> QED BY <2>1, <3>1
  <2>3. CASE r \notin Workers(k)
    <3>1. Workers(k)' = Workers(k)
      BY <1>0, <1>1, <1>3, <2>3, WorkersStay DEF Sound
    <3> QED BY <2>1, <3>1
  <2> QED BY <2>2, <2>3
<1>6. OpenJobHasWorker'
  <2> SUFFICES ASSUME NEW k \in Jobs, jobs[k].status \in Open, k \notin left'
               PROVE  \E s \in Requests : Holds(s, k)'
    BY DEF OpenJobHasWorker
  <2>1. k \notin left /\ ~Holds(r, k)
    BY DEF Holds
  <2> QED BY <1>0, <1>2, <2>1, HoldersKept
<1> QED BY <1>4, <1>5, <1>6 DEF IInv

-----------------------------------------------------------------------------
(* The steps that write no row                                                *)

LEMMA RolesOfType == \A kind \in Kinds : RolesOf(kind) \in Seq(Roles)
<1> SUFFICES ASSUME NEW kind \in Kinds PROVE RolesOf(kind) \in Seq(Roles)
  OBVIOUS
<1>1. RolesOf(kind) \in {<<"receipt", "kitchen">>, <<"kitchen">>, <<"receipt">>}
  BY DEF RolesOf
<1>2. "receipt" \in Roles /\ "kitchen" \in Roles
  BY DEF Roles
<1>3. <<"receipt", "kitchen">> \in Seq(Roles) /\ <<"kitchen">> \in Seq(Roles) /\ <<"receipt">> \in Seq(Roles)
  BY <1>2
<1> QED BY <1>1, <1>3

\* A request begins: a payment may find the queue full.
LEMMA StartStep == ASSUME IInv, NEW r \in Requests, Start(r) PROVE IInv'
<1>1. Sound /\ Fit(req[r]) /\ req[r] \in ReqRow /\ req[r].pc = "idle"
  BY DEF IInv, Sound, Types, Start, At
<1>2. UNCHANGED <<jobs, born, copies, stale, left, faults>>
  BY DEF Start, Unseen
<1>3. CASE Leave(r)
  <2>1. PICK q \in ReqRow : /\ req' = [req EXCEPT ![r] = q] /\ q.pc \in {"next", "done"}
                            /\ q.todo # {} => q.todo = req[r].todo /\ q.role = req[r].role
    BY <1>1, <1>3, ReleaseFacts DEF Sound
  <2>2. Fit(q)
    BY <1>1, <2>1 DEF Fit, Holding, Working
  <2> QED BY <1>1, <1>2, <2>1, <2>2, QuietStep DEF Working
<1>4. CASE req' = [req EXCEPT ![r].pc = "next", ![r].roles = RolesOf(Kind[r])]
  <2> DEFINE q == [req[r] EXCEPT !.pc = "next", !.roles = RolesOf(Kind[r])]
  <2>1. RolesOf(Kind[r]) \in Seq(Roles) /\ "next" \in PCs
    BY RolesOfType, PrintAssumption DEF PCs
  <2>2. q \in ReqRow /\ q.pc = "next" /\ q.todo = req[r].todo /\ q.role = req[r].role
    BY <1>1, <2>1 DEF ReqRow
  <2>3. req' = [req EXCEPT ![r] = q]
    BY <1>4
  <2> HIDE DEF q
  <2>4. Fit(q)
    BY <1>1, <2>2 DEF Fit, Holding, Working
  <2> QED BY <1>1, <1>2, <2>2, <2>3, <2>4, QuietStep DEF Working
<1> QED BY <1>3, <1>4 DEF Start

\* A reprint chooses a failed receipt, which is a row that exists.
LEMMA StartReprintStep == ASSUME IInv, NEW r \in Requests, StartReprint(r) PROVE IInv'
<1>1. Sound /\ Fit(req[r]) /\ req[r] \in ReqRow /\ req[r].pc = "idle"
  BY DEF IInv, Sound, Types, StartReprint, At
<1>2. UNCHANGED <<jobs, born, copies, stale, left, faults>>
  BY DEF StartReprint, Unseen
<1>3. ASSUME NEW j \in FailedReceipts, req' = [req EXCEPT ![r].pc = "retake", ![r].job = j]
      PROVE  IInv'
  <2>1. j \in Jobs /\ j <= born
    BY <1>1 DEF FailedReceipts, Sound, Rows, Types, Jobs
  <2>2. j \in 1..born /\ j \in 0..MaxJobs
    BY <1>1, <2>1, PrintAssumption DEF Jobs, Sound, Types
  <2> DEFINE q == [req[r] EXCEPT !.pc = "retake", !.job = j]
  <2>3. "retake" \in PCs
    BY DEF PCs, Holding
  <2>4. q \in ReqRow /\ q.pc = "retake" /\ q.job = j /\ q.todo = req[r].todo /\ q.role = req[r].role
    BY <1>1, <2>2, <2>3 DEF ReqRow
  <2>5. req' = [req EXCEPT ![r] = q]
    BY <1>3
  <2> HIDE DEF q
  <2>6. Fit(q)
    BY <1>1, <2>2, <2>4 DEF Fit
  <2> QED BY <1>1, <1>2, <2>4, <2>5, <2>6, QuietStep DEF Working
<1>4. CASE req' = [req EXCEPT ![r].pc = "next", ![r].roles = RolesOf("reprint")]
  <2> DEFINE q == [req[r] EXCEPT !.pc = "next", !.roles = RolesOf("reprint")]
  <2>1. RolesOf("reprint") \in Seq(Roles) /\ "next" \in PCs
    BY RolesOfType DEF Kinds, PCs
  <2>2. q \in ReqRow /\ q.pc = "next" /\ q.todo = req[r].todo /\ q.role = req[r].role
    BY <1>1, <2>1 DEF ReqRow
  <2>3. req' = [req EXCEPT ![r] = q]
    BY <1>4
  <2> HIDE DEF q
  <2>4. Fit(q)
    BY <1>1, <2>2 DEF Fit, Holding, Working
  <2> QED BY <1>1, <1>2, <2>2, <2>3, <2>4, QuietStep DEF Working
<1> QED BY <1>3, <1>4 DEF StartReprint

\* The printers of the next role are among those of the branch.
LEMMA LookupStep == ASSUME IInv, NEW r \in Requests, Lookup(r) PROVE IInv'
<1> DEFINE role == Head(req[r].roles)
           todo == {i \in DOMAIN PrintersOf[role] : enabled[PrintersOf[role][i]]}
           q == [req[r] EXCEPT !.roles = Tail(@), !.role = role, !.todo = todo]
<1>1. Sound /\ Fit(req[r]) /\ req[r] \in ReqRow /\ req[r].pc = "next"
  BY DEF IInv, Sound, Types, Lookup, At
<1>2. UNCHANGED <<jobs, born, copies, stale, left, faults>>
  BY DEF Lookup, Unseen
<1>3. role \in Roles /\ Tail(req[r].roles) \in Seq(Roles)
  <2>1. req[r].roles \in Seq(Roles) /\ req[r].roles # <<>>
    BY <1>1 DEF ReqRow, Lookup
  <2> QED BY <2>1
<1>4. todo \in SUBSET Nat /\ todo \subseteq DOMAIN PrintersOf[role]
  <2>1. PrintersOf[role] \in Seq(Printers)
    BY <1>3, PrintAssumption
  <2>2. DOMAIN PrintersOf[role] \subseteq Nat
    BY <2>1
  <2> QED BY <2>2
<1>5. req' = [req EXCEPT ![r] = q]
  BY DEF Lookup
<1> HIDE DEF role, todo
<1>6. q \in ReqRow /\ q.pc = "next" /\ q.todo = todo /\ q.role = role
  BY <1>1, <1>3, <1>4 DEF ReqRow
<1> HIDE DEF q
<1>7. Fit(q)
  BY <1>3, <1>4, <1>6 DEF Fit, Holding, Working
<1> QED BY <1>1, <1>2, <1>5, <1>6, <1>7, QuietStep DEF Working

LEMMA FinishStep == ASSUME IInv, NEW r \in Requests, Finish(r) PROVE IInv'
<1>1. Sound /\ Fit(req[r]) /\ req[r].pc = "next"
  BY DEF IInv, Sound, Finish, At
<1>2. Leave(r) /\ UNCHANGED <<jobs, born, copies, stale, left, faults>>
  BY DEF Finish, Unseen
<1>3. PICK q \in ReqRow : /\ req' = [req EXCEPT ![r] = q] /\ q.pc \in {"next", "done"}
                          /\ q.todo # {} => q.todo = req[r].todo /\ q.role = req[r].role
  BY <1>1, <1>2, ReleaseFacts DEF Sound
<1>4. Fit(q)
  BY <1>1, <1>3 DEF Fit, Holding, Working
<1> QED BY <1>1, <1>2, <1>3, <1>4, QuietStep DEF Working

\* The row is read: what was tried before is taken from it.
LEMMA ReadJobStep == ASSUME IInv, NEW r \in Requests, ReadJob(r) PROVE IInv'
<1> DEFINE row == jobs[req[r].job]
           pc == IF ~enabled[row.printer] THEN "refuse"
                 ELSE IF row.tries < MaxRetry THEN "attempt" ELSE "fail"
           q == [req[r] EXCEPT !.tries = row.tries, !.pc = pc]
<1>1. Sound /\ Fit(req[r]) /\ req[r] \in ReqRow /\ req[r].pc = "read"
  BY DEF IInv, Sound, Types, ReadJob, At
<1>2. UNCHANGED <<jobs, born, copies, stale, left, faults>>
  BY DEF ReadJob, Unseen
<1>3. row.tries \in 0..MaxRetry
  <2>1. req[r].job \in Jobs
    BY <1>1, HeldJob DEF Holding, Working
  <2> QED BY <1>1, <2>1 DEF Sound, Types, Row
<1>4. pc \in {"refuse", "attempt", "fail"} /\ (pc = "attempt" => row.tries < MaxRetry)
  OBVIOUS
<1>5. pc \in Working /\ pc \in PCs /\ pc # "confirm" /\ pc # "retry"
  BY <1>4 DEF Working, PCs, Holding
<1>6. req' = [req EXCEPT ![r] = q]
  BY DEF ReadJob, Job
<1> HIDE DEF pc, row
<1>7. q \in ReqRow /\ q.pc = pc /\ q.tries = row.tries /\ q.job = req[r].job
      /\ q.todo = req[r].todo /\ q.role = req[r].role
  BY <1>1, <1>3, <1>5 DEF ReqRow
<1> HIDE DEF q
<1>8. Fit(q)
  BY <1>1, <1>4, <1>5, <1>7 DEF Fit, Holding, Working
<1> QED BY <1>1, <1>2, <1>5, <1>6, <1>7, <1>8, QuietStep DEF Working

LEMMA PrinterFailsStep == ASSUME IInv, NEW r \in Requests, PrinterFails(r) PROVE IInv'
<1> DEFINE pc == IF req[r].tries < MaxRetry THEN "retry" ELSE "fail"
<1>1. Sound /\ Fit(req[r]) /\ req[r].pc = "sending"
  BY DEF IInv, Sound, PrinterFails, At
<1>2. Goto(r, pc) /\ UNCHANGED <<jobs, born, copies, stale, left, faults>>
  BY DEF PrinterFails, Unseen
<1>3. pc \in {"retry", "fail"} /\ (pc = "retry" => req[r].tries < MaxRetry)
  OBVIOUS
<1> HIDE DEF pc
<1>4. pc \in PCs /\ pc \in Working /\ pc # "confirm" /\ pc # "attempt"
  BY <1>3 DEF PCs, Holding, Working
<1>5. PICK q \in ReqRow : /\ req' = [req EXCEPT ![r] = q]
                          /\ q.pc = pc /\ q.job = req[r].job /\ q.tries = req[r].tries
                          /\ q.todo = req[r].todo /\ q.role = req[r].role
  BY <1>1, <1>2, <1>4, GotoFacts DEF Sound
<1>6. Fit(q)
  BY <1>1, <1>3, <1>4, <1>5 DEF Fit, Holding, Working
<1> QED BY <1>1, <1>2, <1>4, <1>5, <1>6, QuietStep DEF Working

-----------------------------------------------------------------------------
(* The invariant and the theorems                                             *)

LEMMA InitIInv == Init => IInv
<1> SUFFICES ASSUME Init PROVE IInv
  OBVIOUS
<1>1. /\ jobs = [j \in Jobs |-> NoJob] /\ born = 0 /\ req = [r \in Requests |-> Idle]
      /\ copies = [j \in Jobs |-> 0] /\ stale = [j \in Jobs |-> 0] /\ left = {} /\ faults = 0
  BY DEF Init
<1>2. NoJob \in Row /\ NoJob.status = "none"
  BY PrintAssumption DEF NoJob, Row
<1>3. Idle \in ReqRow /\ Idle.pc = "idle" /\ Idle.todo = {}
  <2>1. <<>> \in Seq(Roles) /\ 0 \in 0..MaxJobs /\ 0 \in 0..MaxRetry
    BY PrintAssumption
  <2> QED BY <2>1 DEF Idle, ReqRow, PCs
<1>4. Types
  BY <1>1, <1>2, <1>3, PrintAssumption DEF Types
<1>5. Rows
  BY <1>1, <1>2, PrintAssumption DEF Rows, Jobs
<1>6. \A r \in Requests : Fit(req[r])
  BY <1>1, <1>3 DEF Fit, Holding, Working
<1>7. CopiesAccounted
  <2> SUFFICES ASSUME NEW j \in Jobs
               PROVE  copies[j] + Cardinality(Workers(j))
                        + (IF jobs[j].status = "failed" THEN 1 ELSE 0) <= 1 + stale[j]
    BY DEF CopiesAccounted
  <2>1. Workers(j) = {}
    BY <1>1, <1>3 DEF Workers, Working
  <2>2. Cardinality(Workers(j)) = 0
    BY <2>1, FS_EmptySet
  <2> QED BY <1>1, <1>2, <2>2
<1>8. OpenJobHasWorker
  BY <1>1, <1>2 DEF OpenJobHasWorker, Open
<1> QED BY <1>4, <1>5, <1>6, <1>7, <1>8 DEF IInv, Sound

\* Every action keeps the invariant.
LEMMA NextIInv == IInv /\ [Next]_vars => IInv'
<1> SUFFICES ASSUME IInv, [Next]_vars PROVE IInv'
  OBVIOUS
<1>0. Sound
  BY DEF IInv
<1>1. ASSUME NEW r \in Requests, Step(r) PROVE IInv'
  <2>1. ASSUME NEW pc \in PCs, Goto(r, pc)
        PROVE  \E q \in ReqRow : /\ req' = [req EXCEPT ![r] = q]
                                 /\ q.pc = pc /\ q.job = req[r].job /\ q.tries = req[r].tries
                                 /\ q.todo = req[r].todo /\ q.role = req[r].role
    BY <1>0, <2>1, GotoFacts DEF Sound
  <2>2. Fit(req[r]) /\ req[r] \in ReqRow
    BY <1>0 DEF Sound, Types
  <2>3. CASE MarkPrinting(r)
    <3> DEFINE q == [req[r] EXCEPT !.pc = "sending", !.tries = @ + 1]
    <3>1. req[r].pc = "attempt" /\ req[r].tries + 1 \in 0..MaxRetry /\ req[r].job \in 1..born
      BY <2>2, <2>3, PrintAssumption DEF MarkPrinting, At, Fit, Holding, Working, ReqRow
    <3>2. "sending" \in PCs /\ "sending" \in Working /\ "printing" \in Open
      BY DEF PCs, Holding, Working, Open
    <3>3. q \in ReqRow /\ q.pc = "sending" /\ q.job = req[r].job
          /\ q.todo = req[r].todo /\ q.role = req[r].role
      BY <2>2, <3>1, <3>2 DEF ReqRow
    <3>4. req' = [req EXCEPT ![r] = q]
      BY <2>3 DEF MarkPrinting
    <3>5. Write(req[r].job, "printing", req[r].tries + 1)
          /\ UNCHANGED <<born, copies, stale, left, faults>>
      BY <2>3 DEF MarkPrinting, Job, Unseen
    <3> HIDE DEF q
    <3>6. Fit(q)
      BY <2>2, <3>1, <3>3 DEF Fit
    <3>7. req[r].pc \in Working
      BY <3>1 DEF Working
    <3> QED BY <3>1, <3>2, <3>3, <3>4, <3>5, <3>6, <3>7, WorkStep
  <2>4. CASE MarkRetrying(r)
    <3>1. req[r].pc = "retry" /\ req[r].tries \in 0..MaxRetry
          /\ req[r].job \in 1..born /\ req[r].tries < MaxRetry
      BY <2>2, <2>4 DEF MarkRetrying, At, Fit, Holding, Working, ReqRow
    <3>2. "attempt" \in PCs /\ "attempt" \in Working /\ "retrying" \in Open /\ req[r].pc \in Working
      BY <3>1 DEF PCs, Holding, Working, Open
    <3>3. PICK q \in ReqRow : /\ req' = [req EXCEPT ![r] = q]
                              /\ q.pc = "attempt" /\ q.job = req[r].job /\ q.tries = req[r].tries
                              /\ q.todo = req[r].todo /\ q.role = req[r].role
      BY <2>1, <2>4, <3>2 DEF MarkRetrying
    <3>4. Fit(q)
      BY <2>2, <3>1, <3>3 DEF Fit
    <3>5. Write(req[r].job, "retrying", req[r].tries)
          /\ UNCHANGED <<born, copies, stale, left, faults>>
      BY <2>4 DEF MarkRetrying, Job, Unseen
    <3> QED BY <3>1, <3>2, <3>3, <3>4, <3>5, WorkStep
  <2>5. CASE MarkPrinted(r)
    <3>1. req[r].pc = "confirm" /\ "printed" \in Ended /\ NextPrinter(r)
          /\ UNCHANGED <<born, copies, stale, left, faults>>
      BY <2>5 DEF MarkPrinted, At, Ended, Unseen
    <3>2. req[r].job \in Jobs
      BY <1>0, <3>1, HeldJob DEF Holding
    <3>3. jobs[req[r].job].tries \in 0..MaxRetry
      BY <1>0, <3>2 DEF Sound, Types, Row
    <3>4. Write(req[r].job, "printed", jobs[req[r].job].tries)
      BY <2>5 DEF MarkPrinted, Job
    <3> QED BY <3>1, <3>3, <3>4, FinalStep
  <2>6. CASE MarkFailed(r)
    <3> DEFINE n == IF req[r].pc = "refuse" THEN jobs[req[r].job].tries ELSE req[r].tries
    <3>1. req[r].pc \in Working /\ "failed" \in Ended /\ NextPrinter(r)
          /\ UNCHANGED <<born, copies, stale, left, faults>>
      BY <2>6 DEF MarkFailed, Working, Ended, Unseen
    <3>2. req[r].job \in Jobs
      BY <1>0, <3>1, HeldJob DEF Holding
    <3>3. n \in 0..MaxRetry
      BY <1>0, <2>2, <3>2 DEF Sound, Types, Row, ReqRow
    <3>4. Write(req[r].job, "failed", n)
      BY <2>6 DEF MarkFailed, Job, At
    <3> HIDE DEF n
    <3> QED BY <3>1, <3>3, <3>4, FinalStep
  <2> QED BY <1>1, <2>3, <2>4, <2>5, <2>6, StartStep, StartReprintStep, RetakeStep, LookupStep,
             EnqueueStep, FinishStep, ReadJobStep, ConfirmStep, PrinterFailsStep DEF Step
<1>2. ASSUME NEW r \in Requests, CallFails(r) \/ Dies(r) PROVE IInv'
  <2>1. faults \in 0..MaxFaults /\ faults < MaxFaults /\ faults' = faults + 1
    BY <1>0, <1>2 DEF Sound, Types, CallFails, Dies
  <2>2. Leave(r) /\ UNCHANGED <<jobs, born, copies, stale>>
    BY <1>2 DEF CallFails, Dies
  <2>3. left' = IF req[r].pc \in Working \cup {"confirm"} THEN left \cup {req[r].job} ELSE left
    BY <1>2 DEF CallFails, Dies, Job, At, Working
  <2>4. faults' \in 0..MaxFaults
    BY <2>1, PrintAssumption
  <2> QED BY <2>2, <2>3, <2>4, StopStep
<1>3. ASSUME NEW p \in Printers, SwitchPrinter(p) PROVE IInv'
  <2>1. UNCHANGED <<jobs, born, req, copies, stale, left>> /\ faults' \in 0..MaxFaults
    BY <1>0, <1>3, PrintAssumption DEF Sound, Types, SwitchPrinter
  <2> QED BY <2>1 DEF IInv, Sound, Types, Rows, Fit, CopiesAccounted, Workers, OpenJobHasWorker, Holds
<1>4. CASE UNCHANGED vars
  BY <1>4 DEF vars, IInv, Sound, Types, Rows, Fit, CopiesAccounted, Workers, OpenJobHasWorker, Holds
<1> QED BY <1>1, <1>2, <1>3, <1>4 DEF Next

LEMMA Invariance == Spec => []IInv
<1> QED BY InitIInv, NextIInv, PTL DEF Spec

\* A row of print_jobs exists exactly from its insertion on and belongs to a
\* printer of the branch, and who processes one never tries more often than allowed.
THEOREM PrintTypes == Spec => []TypeOK
<1>1. IInv => TypeOK
  <2> SUFFICES ASSUME IInv PROVE TypeOK
    OBVIOUS
  <2>1. Types /\ Rows /\ \A r \in Requests : Fit(req[r])
    BY DEF IInv, Sound
  <2>2. \A j \in Jobs : jobs[j].tries \in 0..MaxRetry
    BY <2>1 DEF Types, Row
  <2>3. \A r \in Requests : req[r].tries \in 0..MaxRetry
    BY <2>1 DEF Types, ReqRow
  <2> QED BY <2>1, <2>2, <2>3 DEF TypeOK, Types, Rows, Fit, Holding
<1> QED BY <1>1, Invariance, PTL

\* However the requests and reprints of an order interleave, whatever call fails and
\* whoever dies: every copy a printer confirmed is one of the job's own processing
\* or of a reprint that took the job after it had stopped being failed.
THEOREM CopiesHaveReasons == Spec => []CopiesAccounted
<1>1. IInv => CopiesAccounted
  BY DEF IInv
<1> QED BY <1>1, Invariance, PTL

\* A job in 'pending', 'printing' or 'retrying' that no request failed on is in
\* somebody's hands.
THEOREM OpenJobsAreWorkedOn == Spec => []OpenJobHasWorker
<1>1. IInv => OpenJobHasWorker
  BY DEF IInv
<1> QED BY <1>1, Invariance, PTL
=============================================================================
