----------------------------- MODULE PrintQueue -----------------------------
(***************************************************************************)
(* The print jobs of one order (lib/printing/print-service.ts).  A request *)
(* that took a payment, accepted a guest's order, sent a Bluetooth receipt *)
(* or asks for a reprint inserts one row of print_jobs per printer and     *)
(* processes it at once, printer after printer.  There is no worker: a row *)
(* is worked on by the request that made it, and afterwards only by a      *)
(* reprint, which takes the newest failed receipt of the order back to     *)
(* 'pending'.  Nothing is claimed, and every write of a row is by id alone.*)
(* One action is one statement on print_jobs or one call of the printer.   *)
(***************************************************************************)
EXTENDS Integers, Sequences, FiniteSets

CONSTANTS Requests,         \* the requests that ever print something
          Kind,             \* what each request does: a function to Kinds
          Printers,         \* the printers of the branch
          PrintersOf,       \* role -> the sequence of its printers, oldest first
          MaxRetry,         \* max_retry_count of a job
          QueueLimit,       \* POS_GUARDS.printQueueHardLimit
          MaxJobs,          \* bound: rows of print_jobs of this order
          MaxFaults         \* bound: failed calls, dying requests, switched printers

VARIABLES jobs,             \* print_jobs: job -> its row
          born,             \* how many rows were inserted
          enabled,          \* printer_profiles.enabled
          req,              \* the requests' own state
          copies,           \* history: how often a printer confirmed the job
          stale,            \* history: how often a reprint took a job that had not failed (any more)
          left,             \* history: jobs a request gave up on without a final write
          faults            \* history: faults so far

vars == <<jobs, born, enabled, req, copies, stale, left, faults>>

Kinds == {"payment", "guest", "html", "reprint"}
Roles == {"receipt", "kitchen"}
Jobs  == 1..MaxJobs

ASSUME PrintAssumption ==
  /\ IsFiniteSet(Requests) /\ Kind \in [Requests -> Kinds]
  /\ PrintersOf \in [Roles -> Seq(Printers)]
  /\ MaxRetry \in Nat /\ QueueLimit \in Nat /\ MaxJobs \in Nat /\ MaxFaults \in Nat

Open  == {"pending", "printing", "retrying"}
Ended == {"printed", "failed"}

NoJob == [status |-> "none", role |-> "none", printer |-> "none", tries |-> 0]
Idle  == [pc |-> "idle", roles |-> <<>>, role |-> "none", todo |-> {}, job |-> 0, tries |-> 0]

Init == /\ jobs = [j \in Jobs |-> NoJob]
        /\ born = 0
        /\ enabled = [p \in Printers |-> TRUE]
        /\ req = [r \in Requests |-> Idle]
        /\ copies = [j \in Jobs |-> 0]
        /\ stale = [j \in Jobs |-> 0]
        /\ left = {}
        /\ faults = 0

\* The places in processPrintJob between the insert (or the take-over) of a
\* job and either the printer's confirmation or the write of 'failed'.
Working == {"read", "attempt", "sending", "retry", "fail", "refuse"}
Workers(j) == {r \in Requests : req[r].pc \in Working /\ req[r].job = j}
Holds(r, j) == req[r].job = j /\ req[r].pc \in Working \cup {"confirm"}

At(r, pc)    == req[r].pc = pc
Job(r)       == req[r].job
Leave(r)     == req' = [req EXCEPT ![r] = [Idle EXCEPT !.pc = "done"]]
Goto(r, pc)  == req' = [req EXCEPT ![r].pc = pc]
Write(j, status, tries) ==
  jobs' = [jobs EXCEPT ![j].status = status, ![j].tries = tries]
Unseen == UNCHANGED <<left, faults>>
-----------------------------------------------------------------------------
Depth == Cardinality({j \in Jobs : jobs[j].status \in Open})
RolesOf(kind) == CASE kind = "payment" -> <<"receipt", "kitchen">>
                   [] kind = "guest"   -> <<"kitchen">>
                   [] OTHER            -> <<"receipt">>
FailedReceipts == {j \in Jobs : jobs[j].status = "failed" /\ jobs[j].role = "receipt"}

\* A payment prints only while the queue of the branch is below its limit.
Start(r) ==
  /\ At(r, "idle") /\ Kind[r] # "reprint"
  /\ IF Kind[r] = "payment" /\ Depth >= QueueLimit
     THEN Leave(r)
     ELSE req' = [req EXCEPT ![r].pc = "next", ![r].roles = RolesOf(Kind[r])]
  /\ UNCHANGED <<jobs, born, enabled, copies, stale>> /\ Unseen

\* A reprint asks for the newest failed receipt of the order.
StartReprint(r) ==
  /\ At(r, "idle") /\ Kind[r] = "reprint"
  /\ IF FailedReceipts # {}
     THEN \E j \in FailedReceipts :
            /\ \A k \in FailedReceipts : k <= j
            /\ req' = [req EXCEPT ![r].pc = "retake", ![r].job = j]
     ELSE req' = [req EXCEPT ![r].pc = "next", ![r].roles = RolesOf("reprint")]
  /\ UNCHANGED <<jobs, born, enabled, copies, stale>> /\ Unseen

\* ... and sets it back to 'pending', whatever became of it since.
Retake(r) ==
  /\ At(r, "retake")
  /\ Write(Job(r), "pending", 0)
  /\ stale' = IF jobs[Job(r)].status = "failed" THEN stale
              ELSE [stale EXCEPT ![Job(r)] = @ + 1]
  /\ Goto(r, "read")
  /\ UNCHANGED <<born, enabled, copies>> /\ Unseen

\* The enabled printers of the next role ...
Lookup(r) ==
  /\ At(r, "next") /\ req[r].todo = {} /\ req[r].roles # <<>>
  /\ LET role == Head(req[r].roles)
     IN  req' = [req EXCEPT ![r].roles = Tail(@), ![r].role = role,
                   ![r].todo = {i \in DOMAIN PrintersOf[role] : enabled[PrintersOf[role][i]]}]
  /\ UNCHANGED <<jobs, born, enabled, copies, stale>> /\ Unseen

\* ... get one job each, oldest printer first; the job is processed before the next is inserted.
Enqueue(r) ==
  /\ At(r, "next") /\ born < MaxJobs
  /\ \E i \in req[r].todo :
       /\ \A k \in req[r].todo : i <= k
       /\ jobs' = [jobs EXCEPT ![born + 1] =
                    [status |-> "pending", role |-> req[r].role, tries |-> 0,
                     printer |-> PrintersOf[req[r].role][i]]]
       /\ req' = [req EXCEPT ![r].pc = "read", ![r].job = born + 1, ![r].todo = @ \ {i}]
  /\ born' = born + 1
  /\ UNCHANGED <<enabled, copies, stale>> /\ Unseen

Finish(r) ==
  /\ At(r, "next") /\ req[r].todo = {} /\ req[r].roles = <<>>
  /\ Leave(r)
  /\ UNCHANGED <<jobs, born, enabled, copies, stale>> /\ Unseen
-----------------------------------------------------------------------------
\* Mutant: a disabled printer ends the function without a word in the row.
ReadJobSilent(r) ==
  /\ At(r, "read")
  /\ LET row == jobs[Job(r)]
     IN  req' = [req EXCEPT ![r].tries = row.tries,
                            ![r].pc = IF ~enabled[row.printer] THEN "next"
                                      ELSE IF row.tries < MaxRetry THEN "attempt" ELSE "fail"]
  /\ UNCHANGED <<jobs, born, enabled, copies, stale>> /\ Unseen

\* processPrintJob: the row and its printer are read once; the retries are
\* counted from the row read here.
ReadJob(r) ==
  /\ At(r, "read")
  /\ LET row == jobs[Job(r)]
     IN  req' = [req EXCEPT ![r].tries = row.tries,
                            ![r].pc = IF ~enabled[row.printer] THEN "refuse"
                                      ELSE IF row.tries < MaxRetry THEN "attempt" ELSE "fail"]
  /\ UNCHANGED <<jobs, born, enabled, copies, stale>> /\ Unseen

\* Mutant: an attempt is not counted.
MarkPrintingUncounted(r) ==
  /\ At(r, "attempt")
  /\ Write(Job(r), "printing", req[r].tries)
  /\ Goto(r, "sending")
  /\ UNCHANGED <<born, enabled, copies, stale>> /\ Unseen

MarkPrinting(r) ==
  /\ At(r, "attempt")
  /\ Write(Job(r), "printing", req[r].tries + 1)
  /\ req' = [req EXCEPT ![r].pc = "sending", ![r].tries = @ + 1]
  /\ UNCHANGED <<born, enabled, copies, stale>> /\ Unseen

\* The printer, or the bridge in front of it, answers.
PrinterConfirms(r) ==
  /\ At(r, "sending")
  /\ copies' = [copies EXCEPT ![Job(r)] = @ + 1]
  /\ Goto(r, "confirm")
  /\ UNCHANGED <<jobs, born, enabled, stale>> /\ Unseen

\* ... or the adapter throws: no connection, a bad answer, a time-out.
PrinterFails(r) ==
  /\ At(r, "sending")
  /\ Goto(r, IF req[r].tries < MaxRetry THEN "retry" ELSE "fail")
  /\ UNCHANGED <<jobs, born, enabled, copies, stale>> /\ Unseen
\* The request goes on with its next printer, if it has one.
NextPrinter(r) == req' = [req EXCEPT ![r].pc = "next", ![r].job = 0, ![r].tries = 0]

MarkPrinted(r) ==
  /\ At(r, "confirm")
  /\ Write(Job(r), "printed", jobs[Job(r)].tries)
  /\ NextPrinter(r)
  /\ UNCHANGED <<born, enabled, copies, stale>> /\ Unseen

MarkRetrying(r) ==
  /\ At(r, "retry")
  /\ Write(Job(r), "retrying", req[r].tries)
  /\ Goto(r, "attempt")
  /\ UNCHANGED <<born, enabled, copies, stale>> /\ Unseen

MarkFailed(r) ==
  /\ req[r].pc \in {"fail", "refuse"}
  /\ Write(Job(r), "failed", IF At(r, "refuse") THEN jobs[Job(r)].tries ELSE req[r].tries)
  /\ NextPrinter(r)
  /\ UNCHANGED <<born, enabled, copies, stale>> /\ Unseen
-----------------------------------------------------------------------------
\* Mutant: the write of 'printed' is awaited inside the try block, so its
\* failure counts as a failure of the printer.
CallFailsCaught(r) ==
  /\ faults < MaxFaults
  /\ req[r].pc \in {"next", "retake", "read", "attempt", "confirm", "retry", "fail", "refuse"}
  /\ IF At(r, "confirm") THEN Goto(r, IF req[r].tries < MaxRetry THEN "retry" ELSE "fail")
                          ELSE Leave(r)
  /\ left' = IF req[r].pc \in Working THEN left \cup {Job(r)} ELSE left
  /\ faults' = faults + 1
  /\ UNCHANGED <<jobs, born, enabled, copies, stale>>
\* A statement on print_jobs raises: the error leaves processPrintJob, and
\* the request with it.  (The last two writes are returned without an await, so the
\* catch around the printer does not see them either.)
CallFails(r) ==
  /\ faults < MaxFaults
  /\ req[r].pc \in {"next", "retake", "read", "attempt", "confirm", "retry", "fail", "refuse"}
  /\ Leave(r)
  /\ left' = IF req[r].pc \in Working \cup {"confirm"} THEN left \cup {Job(r)} ELSE left
  /\ faults' = faults + 1
  /\ UNCHANGED <<jobs, born, enabled, copies, stale>>

\* The process dies while the printer works.  (Elsewhere it leaves the same
\* rows as a failed call.)
Dies(r) ==
  /\ faults < MaxFaults
  /\ At(r, "sending")
  /\ Leave(r)
  /\ left' = left \cup {Job(r)}
  /\ faults' = faults + 1
  /\ UNCHANGED <<jobs, born, enabled, copies, stale>>

\* A printer profile is switched on or off.
SwitchPrinter(p) ==
  /\ faults < MaxFaults
  /\ enabled' = [enabled EXCEPT ![p] = ~@]
  /\ faults' = faults + 1
  /\ UNCHANGED <<jobs, born, req, copies, stale, left>>

Step(r) == \/ Start(r) \/ StartReprint(r) \/ Retake(r) \/ Lookup(r) \/ Enqueue(r)
           \/ Finish(r) \/ ReadJob(r) \/ MarkPrinting(r) \/ PrinterConfirms(r)
           \/ PrinterFails(r) \/ MarkPrinted(r) \/ MarkRetrying(r) \/ MarkFailed(r)

Next == \/ \E r \in Requests : Step(r) \/ CallFails(r) \/ Dies(r)
        \/ \E p \in Printers : SwitchPrinter(p)

\* A request that was begun is carried on; it need not ever be begun.
Fairness == \A r \in Requests : WF_vars(req[r].pc # "idle" /\ Step(r))

Spec == Init /\ [][Next]_vars /\ Fairness
-----------------------------------------------------------------------------
TypeOK ==
  /\ born \in 0..MaxJobs /\ faults \in 0..MaxFaults /\ left \subseteq Jobs
  /\ \A j \in Jobs :
       /\ jobs[j].tries \in 0..MaxRetry
       /\ jobs[j].status = "none" <=> j > born
       /\ j <= born => jobs[j].role \in Roles /\ jobs[j].printer \in Printers
  /\ \A r \in Requests :
       /\ req[r].tries \in 0..MaxRetry
       /\ req[r].pc \in Working \cup {"retake", "confirm"} => req[r].job \in 1..born

\* Every confirmed copy of a job has a reason: one processing of its own, and
\* one for each reprint that set it back after it had stopped being 'failed'.
\* A call that fails, a request that dies and a reprint of a failed job never
\* add a copy.  (What a request still working on the job, or a reprint of a
\* job that is 'failed', may print is reserved here.)
CopiesAccounted ==
  \A j \in Jobs : copies[j] + Cardinality(Workers(j))
                    + (IF jobs[j].status = "failed" THEN 1 ELSE 0) <= 1 + stale[j]

\* A job is left in 'pending', 'printing' or 'retrying' only when a request
\* failed on it: otherwise somebody is working on it.
OpenJobHasWorker ==
  \A j \in Jobs : jobs[j].status \in Open /\ j \notin left =>
    \E r \in Requests : Holds(r, j)

\* Every job that no request failed on ends 'printed' or 'failed', also when
\* two reprints work on it.
EveryJobEnds ==
  \A j \in Jobs : jobs[j].status \in Open ~> jobs[j].status \in Ended \/ j \in left
=============================================================================
