--------------------------- MODULE PosLoginProofs ---------------------------
(***************************************************************************)
(* Proofs about PosLogin for every number of employees, devices, contexts  *)
(* and requests.  The sessions only ever grow by an insert that the unique *)
(* indexes let through; every other step is a function of single rows that *)
(* makes none of them active again.                                        *)
(***************************************************************************)
EXTENDS PosLogin, FiniteSetTheorems, SequenceTheorems, TLAPS

Holding == {"answer", "consume", "undo"}

\* What a handler holds between two calls.
Fit(q) ==
  /\ q.pc = "idle" => q = Idle
  /\ q.pc # "idle" => q.user \in Users
  /\ q.pc = "evict" => q.user \in Managers
  /\ q.s # 0 <=> q.pc \in Holding
  /\ q.s # 0 => /\ q.s \in DOMAIN session
                /\ session[q.s].user = q.user /\ session[q.s].ctx = q.ctx
  /\ q.pc = "answer" => q.ctx = NoContext
  /\ q.pc \in {"consume", "undo"} => q.ctx \in Contexts

Types == /\ session \in Seq(SessionRow)
         /\ context \in [Contexts -> {"active", "consumed", "expired"}]
         /\ request \in [Requests -> Login]

\* The session of a successful login under a context has consumed it, and is the only one.
Wins ==
  /\ \A s \in DOMAIN session : session[s].login = "in" /\ session[s].ctx \in Contexts
                                 => context[session[s].ctx] = "consumed"
  /\ \A s1, s2 \in DOMAIN session :
       /\ session[s1].login = "in" /\ session[s2].login = "in"
       /\ session[s1].ctx = session[s2].ctx /\ session[s1].ctx \in Contexts
       => s1 = s2

Sound == Types /\ \A r \in Requests : Fit(request[r])

\* The session of a login that has not ended is held by its handler.
Unanswered(row) == row.login = "open" /\ row.status # "revoked"
Held == \A s \in DOMAIN session : Unanswered(session[s]) => \E r \in Requests : request[r].s = s

IInv == Sound /\ OneSeat /\ Wins /\ Held

-----------------------------------------------------------------------------
(* Steps that change rows and insert none                                     *)

\* What a step may do to one row without harm to the seats and the logins.
RowStep(a, b) ==
  /\ b.user = a.user /\ b.device = a.device /\ b.ctx = a.ctx
  /\ a.status = "revoked" => b.status = "revoked"
  /\ b.login = "open" => a.login = "open"

RowsStep ==
  /\ session' \in Seq(SessionRow) /\ DOMAIN session' = DOMAIN session
  /\ \A s \in DOMAIN session : RowStep(session[s], session'[s])

LEMMA Rows == ASSUME Types PROVE \A s \in DOMAIN session : session[s] \in SessionRow
<1> QED BY DEF Types

\* A function on the places of the sessions is a sequence of rows if its values are rows.
LEMMA IsSessions ==
  ASSUME Types, NEW f, f \in [DOMAIN session -> SessionRow]
  PROVE  f \in Seq(SessionRow) /\ DOMAIN f = DOMAIN session
<1>1. DOMAIN session = 1 .. Len(session) /\ Len(session) \in Nat
  BY DEF Types
<1>2. f \in [1 .. Len(session) -> SessionRow]
  BY <1>1
<1> QED BY <1>1, <1>2, SeqDef

LEMMA SeatKept == ASSUME OneSeat, RowsStep PROVE OneSeat'
<1>1. Active' \subseteq Active
  BY DEF Active, RowsStep, RowStep
<1> QED BY <1>1 DEF OneSeat, RowsStep, RowStep, Active

\* The update to 'revoked' leaves the logins alone.
LEMMA RevokeFacts ==
  ASSUME Types, NEW S, Revoke(S)
  PROVE  RowsStep /\ \A s \in DOMAIN session : session'[s].login = session[s].login
<1> DEFINE row(s) == IF s \in S \intersect Active THEN [session[s] EXCEPT !.status = "revoked"]
                                                 ELSE session[s]
<1>1. session' = [s \in DOMAIN session |-> row(s)]
  BY DEF Revoke
<1>2. ASSUME NEW s \in DOMAIN session
      PROVE  row(s) \in SessionRow /\ RowStep(session[s], row(s)) /\ row(s).login = session[s].login
  <2>1. session[s] \in SessionRow
    BY Rows
  <2> QED BY <2>1 DEF SessionRow, RowStep
<1> HIDE DEF row
<1>3. session' \in [DOMAIN session -> SessionRow]
  BY <1>1, <1>2
<1> QED BY <1>1, <1>2, <1>3, IsSessions DEF RowsStep

\* The answer of a login notes what became of it.
LEMMA EndsFacts ==
  ASSUME Types, NEW r \in Requests, NEW how \in {"in", "lost"},
         Ends(r, how), request[r].s \in DOMAIN session
  PROVE  /\ RowsStep
         /\ \A s \in DOMAIN session :
              session'[s].login = IF s = request[r].s /\ session[s].login = "open"
                                  THEN how ELSE session[s].login
<1> DEFINE k == request[r].s
           row == [session[k] EXCEPT !.login = IF @ = "open" THEN how ELSE @]
<1>1. session[k] \in SessionRow
  BY Rows
<1>2. row \in SessionRow /\ RowStep(session[k], row)
      /\ row.login = IF session[k].login = "open" THEN how ELSE session[k].login
  BY <1>1 DEF SessionRow, RowStep
<1>3. session' = [session EXCEPT ![k] = row]
  BY DEF Ends
<1> HIDE DEF row
<1>4. session \in [DOMAIN session -> SessionRow]
  BY DEF Types
<1>5. session' \in [DOMAIN session -> SessionRow]
      /\ \A s \in DOMAIN session : session'[s] = IF s = k THEN row ELSE session[s]
  BY <1>2, <1>3, <1>4
<1>6. \A s \in DOMAIN session : RowStep(session[s], session'[s])
  BY <1>2, <1>5 DEF RowStep
<1>7. session' \in Seq(SessionRow) /\ DOMAIN session' = DOMAIN session
  BY <1>5, IsSessions
<1> QED BY <1>2, <1>5, <1>6, <1>7 DEF RowsStep

-----------------------------------------------------------------------------
(* The handlers                                                               *)

\* The other handlers keep what they hold when rows change and none is taken away.
LEMMA SoundKept ==
  ASSUME Sound, NEW r \in Requests, NEW q \in Login, request' = [request EXCEPT ![r] = q],
         context' \in [Contexts -> {"active", "consumed", "expired"}],
         session' \in Seq(SessionRow), DOMAIN session \subseteq DOMAIN session',
         \A s \in DOMAIN session : session'[s].user = session[s].user /\ session'[s].ctx = session[s].ctx,
         Fit(q)'
  PROVE  Sound'
<1>1. \A s \in Requests : request'[s] = IF s = r THEN q ELSE request[s]
  BY DEF Sound, Types
<1>2. request' \in [Requests -> Login]
  BY DEF Sound, Types
<1>3. ASSUME NEW s \in Requests PROVE Fit(request[s])'
  <2>1. CASE s = r
    BY <1>1, <2>1 DEF Fit
  <2>2. CASE s # r
    <3>1. request'[s] = request[s] /\ Fit(request[s])
      BY <1>1, <2>2 DEF Sound
    <3> QED BY <3>1 DEF Fit
  <2> QED BY <2>1, <2>2
<1> QED BY <1>2, <1>3 DEF Sound, Types

\* A handler that goes on, or starts, without a session.
LEMMA EarlyFacts ==
  ASSUME Sound, NEW r \in Requests, NEW pc \in {"revoke", "insert", "expired", "insertAgain"},
         Go(r, pc), request[r].pc \in {"evict", "revoke", "insert", "expired"}
  PROVE  \E q \in Login : /\ request' = [request EXCEPT ![r] = q]
                          /\ q.pc = pc /\ q.s = 0 /\ q.user \in Users
<1> DEFINE q == [request[r] EXCEPT !.pc = pc]
<1>1. request[r] \in Login /\ Fit(request[r])
  BY DEF Sound, Types
<1>2. request[r].s = 0 /\ request[r].user \in Users
  BY <1>1 DEF Fit, Holding
<1>3. q \in Login /\ q.pc = pc /\ q.s = 0 /\ q.user \in Users
  BY <1>1, <1>2 DEF Login
<1>4. request' = [request EXCEPT ![r] = q]
  BY DEF Go
<1> HIDE DEF q
<1> QED BY <1>3, <1>4

LEMMA IdleFacts == Idle \in Login /\ Idle.pc = "idle" /\ Idle.s = 0 /\ Fit(Idle)
<1> QED BY DEF Idle, Login, Fit, Holding

LEMMA StatusesKept ==
  ASSUME Types, NEW c \in Contexts, NEW status \in {"consumed", "expired"},
         context' = [context EXCEPT ![c] = status]
  PROVE  context' \in [Contexts -> {"active", "consumed", "expired"}]
<1> QED BY DEF Types

\* Logins under a context stay as they are.
LEMMA WinsKept ==
  ASSUME Types, Wins, RowsStep,
         \A s \in DOMAIN session :
           session'[s].login = "in" => session[s].login = "in" \/ session[s].ctx \notin Contexts,
         \A c \in Contexts : context[c] = "consumed" => context'[c] = "consumed"
  PROVE  Wins'
<1>1. \A s \in DOMAIN session : session'[s].ctx = session[s].ctx
  BY DEF RowsStep, RowStep
<1> QED BY <1>1 DEF Wins, RowsStep

\* No row becomes unanswered again, and a handler lets go of its session only when it is answered.
LEMMA HeldKept ==
  ASSUME Sound, Held, RowsStep, NEW r \in Requests,
         \A t \in Requests \ {r} : request'[t] = request[t],
         \/ request'[r].s = request[r].s
         \/ request[r].s # 0 => ~Unanswered(session'[request[r].s])
  PROVE  Held'
<1>1. SUFFICES ASSUME NEW s \in DOMAIN session, Unanswered(session'[s]) PROVE \E t \in Requests : request'[t].s = s
  BY DEF Held, RowsStep
<1>2. Unanswered(session[s])
  BY <1>1 DEF Unanswered, RowsStep, RowStep
<1>3. PICK t \in Requests : request[t].s = s
  BY <1>2 DEF Held
<1>4. s # 0
  BY DEF Sound, Types
<1> QED BY <1>1, <1>3, <1>4

\* A handler whose step changes rows at most and lets nobody in under a context.
LEMMA RowsHandler ==
  ASSUME IInv, NEW r \in Requests, NEW q \in Login, request' = [request EXCEPT ![r] = q], Fit(q)',
         RowsStep, UNCHANGED context,
         \A s \in DOMAIN session :
           session'[s].login = "in" => session[s].login = "in" \/ session[s].ctx \notin Contexts,
         q.s = request[r].s \/ (request[r].s # 0 => ~Unanswered(session'[request[r].s]))
  PROVE  IInv'
<1>1. Types /\ Sound /\ OneSeat /\ Wins /\ Held
  BY DEF IInv, Sound
<1>2. Sound'
  BY <1>1, SoundKept DEF RowsStep, RowStep, Types
<1>3. OneSeat'
  BY <1>1, SeatKept
<1>4. Wins'
  BY <1>1, WinsKept
<1>5. request'[r] = q /\ \A t \in Requests \ {r} : request'[t] = request[t]
  BY <1>1 DEF Types
<1>6. Held'
  BY <1>1, <1>5, HeldKept
<1> QED BY <1>2, <1>3, <1>4, <1>6 DEF IInv

\* The same for the steps that no handler takes.
LEMMA RowsOnly ==
  ASSUME IInv, RowsStep, UNCHANGED <<context, request>>,
         \A s \in DOMAIN session : session'[s].login = session[s].login
  PROVE  IInv'
<1>1. Types /\ Sound /\ OneSeat /\ Wins
  BY DEF IInv, Sound
<1>2. Sound'
  <2>1. ASSUME NEW s \in Requests PROVE Fit(request[s])'
    <3>1. Fit(request[s]) /\ request'[s] = request[s]
      BY <1>1 DEF Sound
    <3> QED BY <3>1 DEF Fit, RowsStep, RowStep
  <2> QED BY <1>1, <2>1 DEF Sound, Types, RowsStep
<1>3. OneSeat'
  BY <1>1, SeatKept
<1>4. Wins'
  BY <1>1, WinsKept
<1>5. Held'
  BY DEF IInv, Held, Unanswered, RowsStep, RowStep
<1> QED BY <1>2, <1>3, <1>4, <1>5 DEF IInv

\* A row that is left alone takes a RowStep, and so do all rows together.
LEMMA NoRows == ASSUME Types, UNCHANGED session PROVE RowsStep
<1> QED BY DEF RowsStep, RowStep, Types

LEMMA FitEarly ==
  ASSUME NEW q \in Login, q.pc \in {"revoke", "insert", "expired", "insertAgain"}, q.s = 0, q.user \in Users
  PROVE  Fit(q)'
<1> QED BY DEF Fit, Holding

\* A handler that answers holds nothing.
LEMMA AnswerStep ==
  ASSUME IInv, NEW r \in Requests, Answer(r), RowsStep, UNCHANGED context,
         \A s \in DOMAIN session :
           session'[s].login = "in" => session[s].login = "in" \/ session[s].ctx \notin Contexts,
         request[r].s # 0 => ~Unanswered(session'[request[r].s])
  PROVE  IInv'
<1>1. Fit(Idle)'
  BY DEF Idle, Fit, Holding
<1> QED BY <1>1, IdleFacts, RowsHandler DEF Answer

\* A handler that goes on without a session.
LEMMA EarlyStep ==
  ASSUME IInv, NEW r \in Requests, NEW pc \in {"revoke", "insert", "expired", "insertAgain"},
         Go(r, pc), request[r].pc \in {"evict", "revoke", "insert", "expired"},
         RowsStep, UNCHANGED context, \A s \in DOMAIN session : session'[s].login = session[s].login
  PROVE  IInv'
<1>1. PICK q \in Login : /\ request' = [request EXCEPT ![r] = q]
                         /\ q.pc = pc /\ q.s = 0 /\ q.user \in Users
  BY EarlyFacts DEF IInv
<1>2. Fit(q)'
  BY <1>1, FitEarly
<1>3. request[r].s = 0
  BY DEF IInv, Sound, Fit, Holding
<1> QED BY <1>1, <1>2, <1>3, RowsHandler

LEMMA EvictStep == ASSUME IInv, NEW r \in Requests, Evict(r) PROVE IInv'
<1>1. Types /\ request[r].pc = "evict"
  BY DEF IInv, Sound, Evict
<1>2. RowsStep /\ \A s \in DOMAIN session : session'[s].login = session[s].login
  BY <1>1, RevokeFacts DEF Evict
<1> QED BY <1>1, <1>2, EarlyStep DEF Evict

LEMMA RevokeOwnStep == ASSUME IInv, NEW r \in Requests, RevokeOwn(r) PROVE IInv'
<1>1. Types /\ request[r].pc = "revoke"
  BY DEF IInv, Sound, RevokeOwn
<1>2. CASE Revoke(OfUser(request[r].user))
  <2>1. RowsStep /\ \A s \in DOMAIN session : session'[s].login = session[s].login
    BY <1>1, <1>2, RevokeFacts
  <2> QED BY <1>1, <2>1, EarlyStep DEF RevokeOwn
<1>3. CASE UNCHANGED session
  BY <1>1, <1>3, NoRows, EarlyStep DEF RevokeOwn
<1> QED BY <1>2, <1>3 DEF RevokeOwn

LEMMA RevokeExpiredStep == ASSUME IInv, NEW r \in Requests, RevokeExpired(r) PROVE IInv'
<1>1. Types /\ request[r].pc = "expired"
  BY DEF IInv, Sound, RevokeExpired
<1>2. RowsStep /\ \A s \in DOMAIN session : session'[s].login = session[s].login
  BY <1>1, RevokeFacts DEF RevokeExpired
<1> QED BY <1>1, <1>2, EarlyStep DEF RevokeExpired

\* The indexes let a session in only where nobody sits.
LEMMA InsertStep == ASSUME IInv, NEW r \in Requests, Insert(r) PROVE IInv'
<1> DEFINE row == NewSession(request[r])
<1>1. Types /\ Sound /\ OneSeat /\ Wins /\ Fit(request[r]) /\ request[r] \in Login
  BY DEF IInv, Sound, Types
<1>2. request[r].user \in Users /\ request[r].pc \in {"insert", "insertAgain"}
  BY <1>1 DEF Fit, Insert
<1>3. row \in SessionRow /\ row.user = request[r].user /\ row.device = request[r].device
      /\ row.ctx = request[r].ctx /\ row.status = "live" /\ row.login = "open"
  BY <1>1, <1>2 DEF NewSession, SessionRow, Login
<1>4. session' = Append(session, row) /\ ~Conflict(request[r]) /\ UNCHANGED context
  BY DEF Insert
<1> DEFINE n == Len(session) + 1
<1>5. n \in Nat /\ n # 0 /\ n \notin DOMAIN session /\ DOMAIN session = 1 .. Len(session)
  BY <1>1 DEF Types
<1> HIDE DEF row
<1>6. session' \in Seq(SessionRow) /\ DOMAIN session' = DOMAIN session \union {n}
      /\ session'[n] = row /\ \A s \in DOMAIN session : session'[s] = session[s]
  <2>1. session \in Seq(SessionRow) /\ Len(session) \in Nat
    BY <1>1 DEF Types
  <2>2. session' \in Seq(SessionRow) /\ Len(session') = n /\ session'[n] = row
    BY <1>3, <1>4, <2>1
  <2>3. DOMAIN session' = 1 .. n
    BY <2>2
  <2>4. 1 .. n = (1 .. Len(session)) \union {n}
    BY <2>1
  <2>5. \A s \in 1 .. Len(session) : session'[s] = session[s]
    BY <1>4, <2>1
  <2> QED BY <1>5, <2>2, <2>3, <2>4, <2>5
<1>7. PICK q \in Login : /\ request' = [request EXCEPT ![r] = q]
                         /\ q.pc = (IF request[r].ctx = NoContext THEN "answer" ELSE "consume")
                         /\ q.s = n /\ q.user = request[r].user /\ q.ctx = request[r].ctx
  <2> DEFINE q == [request[r] EXCEPT !.pc = IF request[r].ctx = NoContext THEN "answer" ELSE "consume",
                                     !.s = n]
  <2>1. q \in Login /\ q.pc = (IF request[r].ctx = NoContext THEN "answer" ELSE "consume")
        /\ q.s = n /\ q.user = request[r].user /\ q.ctx = request[r].ctx
    BY <1>1, <1>5 DEF Login
  <2>2. request' = [request EXCEPT ![r] = q]
    BY DEF Insert
  <2> HIDE DEF q
  <2> QED BY <2>1, <2>2
<1>8. n \in DOMAIN session' /\ session'[n].user = q.user /\ session'[n].ctx = q.ctx
  BY <1>3, <1>6, <1>7
<1> HIDE DEF n
<1>9. Fit(q)'
  <2>1. q.ctx \in Contexts \union {NoContext} /\ q.pc \in {"answer", "consume"}
    BY <1>7 DEF Login
  <2>2. q.pc = "answer" <=> q.ctx = NoContext
    BY <1>7
  <2> QED BY <1>2, <1>5, <1>7, <1>8, <2>1, <2>2 DEF Fit, Holding
<1>10. Sound'
  BY <1>1, <1>4, <1>6, <1>7, <1>9, SoundKept DEF Types
<1>11. Active' = Active \union {n}
  BY <1>3, <1>6 DEF Active
<1>12. OneSeat'
  <2> SUFFICES ASSUME NEW s1 \in Active', NEW s2 \in Active', s1 # s2
               PROVE  /\ session'[s1].user # session'[s2].user
                      /\ session'[s1].device # session'[s2].device \/ session'[s1].device = NoDevice
    BY DEF OneSeat
  <2>1. \A s \in Active : session[s].user # row.user
                          /\ (session[s].device # row.device \/ session[s].device = NoDevice)
    BY <1>3, <1>4 DEF Conflict, OfUser, OnDevice
  <2>2. \A s \in Active : s \in DOMAIN session /\ session'[s] = session[s]
    BY <1>6 DEF Active
  <2>3. CASE s1 \in Active /\ s2 \in Active
    BY <1>1, <2>2, <2>3 DEF OneSeat
  <2>4. CASE s1 = n
    BY <1>6, <1>11, <2>1, <2>2, <2>4
  <2>5. CASE s2 = n
    BY <1>6, <1>11, <2>1, <2>2, <2>5
  <2> QED BY <1>11, <2>3, <2>4, <2>5
<1>14. Wins'
  <2>1. \A s \in DOMAIN session' : session'[s].login = "in" => s \in DOMAIN session /\ session'[s] = session[s]
    BY <1>3, <1>6
  <2> QED BY <1>1, <1>4, <2>1 DEF Wins
<1>15. Held'
  <2>1. request'[r].s = n /\ \A t \in Requests \ {r} : request'[t] = request[t]
    BY <1>1, <1>7 DEF Types
  <2>2. request[r].s = 0
    BY <1>1, <1>2 DEF Fit, Holding
  <2> SUFFICES ASSUME NEW s \in DOMAIN session, Unanswered(session'[s]) PROVE \E t \in Requests : request'[t].s = s
    BY <1>6, <2>1 DEF Held
  <2>3. PICK t \in Requests : request[t].s = s
    BY <1>6 DEF IInv, Held, Unanswered
  <2>4. s # 0
    BY <1>5
  <2> QED BY <2>1, <2>2, <2>3, <2>4
<1> QED BY <1>10, <1>12, <1>14, <1>15 DEF IInv

-----------------------------------------------------------------------------
(* The end of a login                                                         *)

LEMMA HeldSession ==
  ASSUME Sound, NEW r \in Requests, request[r].pc \in Holding
  PROVE  /\ request[r].s \in DOMAIN session /\ request[r].user \in Users
         /\ session[request[r].s].ctx = request[r].ctx
<1> QED BY DEF Sound, Fit, Holding

LEMMA SelectAnswersStep == ASSUME IInv, NEW r \in Requests, SelectAnswers(r) PROVE IInv'
<1> DEFINE k == request[r].s
<1>1. Types /\ Sound /\ request[r].pc = "answer" /\ request[r].ctx = NoContext
  BY DEF IInv, Sound, Fit, SelectAnswers
<1>2. k \in DOMAIN session /\ session[k].ctx \notin Contexts
  BY <1>1, HeldSession, ConstantsAssumption DEF Holding
<1>3. PICK how \in {"in", "lost"} : Ends(r, how)
  BY DEF SelectAnswers
<1>4. /\ RowsStep
      /\ \A s \in DOMAIN session :
           session'[s].login = IF s = k /\ session[s].login = "open" THEN how ELSE session[s].login
  BY <1>1, <1>2, <1>3, EndsFacts
<1>5. \A s \in DOMAIN session :
        session'[s].login = "in" => session[s].login = "in" \/ session[s].ctx \notin Contexts
  BY <1>2, <1>4
<1>6. ~Unanswered(session'[k])
  BY <1>2, <1>4 DEF Unanswered
<1> QED BY <1>4, <1>5, <1>6, AnswerStep DEF SelectAnswers

\* The login that consumes the context is let in; no session of the context was before.
LEMMA ConsumeStep == ASSUME IInv, NEW r \in Requests, Consume(r) PROVE IInv'
<1> DEFINE k == request[r].s
           c == request[r].ctx
<1>1. Types /\ Sound /\ OneSeat /\ Wins /\ request[r].pc = "consume" /\ c \in Contexts
  BY DEF IInv, Sound, Fit, Consume
<1>2. k \in DOMAIN session /\ session[k].ctx = c
  BY <1>1, HeldSession DEF Holding
<1>3. context[c] = "active" /\ context' = [context EXCEPT ![c] = "consumed"] /\ Answer(r)
  BY DEF Consume, IsActiveContext
<1>4. /\ RowsStep
      /\ \A s \in DOMAIN session :
           session'[s].login = IF s = k /\ session[s].login = "open" THEN "in" ELSE session[s].login
  BY <1>1, <1>2, EndsFacts DEF Consume
<1>5. Fit(Idle)'
  BY DEF Idle, Fit, Holding
<1>6. context' \in [Contexts -> {"active", "consumed", "expired"}]
  BY <1>1, <1>3, StatusesKept
<1>7. Sound'
  BY <1>1, <1>3, <1>4, <1>5, <1>6, IdleFacts, SoundKept DEF Answer, RowsStep, RowStep
<1>8. OneSeat'
  BY <1>1, <1>4, SeatKept
<1>9. Wins'
  <2>1. \A s \in DOMAIN session : session'[s].ctx = session[s].ctx
    BY <1>4 DEF RowsStep, RowStep
  <2>2. \A s \in DOMAIN session : session[s].login = "in" => session[s].ctx # c
    BY <1>1, <1>3 DEF Wins
  <2>3. \A d \in Contexts : context'[d] = IF d = c THEN "consumed" ELSE context[d]
    BY <1>1, <1>3 DEF Types
  <2>4. \A s \in DOMAIN session : session'[s].login = "in" => session[s].login = "in" \/ s = k
    BY <1>4
  <2> HIDE DEF k, c
  <2>5. DOMAIN session' = DOMAIN session
    BY <1>4 DEF RowsStep
  <2>6. ASSUME NEW s \in DOMAIN session, session'[s].login = "in", session'[s].ctx \in Contexts
        PROVE  context'[session'[s].ctx] = "consumed"
    BY <1>1, <1>2, <2>1, <2>3, <2>4, <2>6 DEF Wins
  <2>7. ASSUME NEW s1 \in DOMAIN session, NEW s2 \in DOMAIN session,
               session'[s1].login = "in", session'[s2].login = "in",
               session'[s1].ctx = session'[s2].ctx, session'[s1].ctx \in Contexts
        PROVE  s1 = s2
    BY <1>1, <1>2, <2>1, <2>2, <2>4, <2>7 DEF Wins
  <2> QED BY <2>5, <2>6, <2>7 DEF Wins
<1>10. Held'
  <2>1. ~Unanswered(session'[k])
    BY <1>2, <1>4 DEF Unanswered
  <2>2. \A t \in Requests \ {r} : request'[t] = request[t]
    BY <1>1, <1>3 DEF Answer, Types
  <2> QED BY <1>1, <1>4, <2>1, <2>2, HeldKept DEF IInv
<1> QED BY <1>7, <1>8, <1>9, <1>10 DEF IInv

LEMMA ConsumeFailsStep == ASSUME IInv, NEW r \in Requests, ConsumeFails(r) PROVE IInv'
<1>1. Types /\ request[r].pc = "consume" /\ Fit(request[r]) /\ request[r] \in Login
  BY DEF IInv, Sound, Types, ConsumeFails
<1>2. UNCHANGED <<session, context>>
  BY DEF ConsumeFails
<1>3. PICK q \in Login : /\ request' = [request EXCEPT ![r] = q] /\ q.pc = "undo"
                         /\ q.user = request[r].user /\ q.s = request[r].s /\ q.ctx = request[r].ctx
  <2> DEFINE q == [request[r] EXCEPT !.pc = "undo"]
  <2>1. q \in Login /\ q.pc = "undo" /\ q.user = request[r].user /\ q.s = request[r].s
        /\ q.ctx = request[r].ctx
    BY <1>1 DEF Login
  <2>2. request' = [request EXCEPT ![r] = q]
    BY DEF ConsumeFails, Go
  <2> HIDE DEF q
  <2> QED BY <2>1, <2>2
<1>4. Fit(q)'
  BY <1>1, <1>2, <1>3 DEF Fit, Holding
<1> QED BY <1>1, <1>2, <1>3, <1>4, NoRows, RowsHandler

\* The handler lets go of a session that it has revoked, or that counts as lost.
LEMMA UndoStep == ASSUME IInv, NEW r \in Requests, Undo(r) PROVE IInv'
<1> DEFINE k == request[r].s
<1>1. Types /\ Sound /\ k \in DOMAIN session /\ Answer(r) /\ UNCHANGED context
  BY HeldSession DEF IInv, Sound, Undo, Holding
<1>2. CASE session' = [session EXCEPT ![k].status = "revoked"]
  <2> DEFINE row == [session[k] EXCEPT !.status = "revoked"]
  <2>1. session[k] \in SessionRow
    BY <1>1, Rows
  <2>2. row \in SessionRow /\ RowStep(session[k], row) /\ row.login = session[k].login /\ row.status = "revoked"
    BY <2>1 DEF SessionRow, RowStep
  <2>3. session' = [session EXCEPT ![k] = row]
    BY <1>2
  <2> HIDE DEF row
  <2>4. session \in [DOMAIN session -> SessionRow]
    BY <1>1 DEF Types
  <2>5. session' \in [DOMAIN session -> SessionRow]
        /\ \A s \in DOMAIN session : session'[s] = IF s = k THEN row ELSE session[s]
    BY <1>1, <2>2, <2>3, <2>4
  <2>6. \A s \in DOMAIN session : RowStep(session[s], session'[s])
    BY <2>2, <2>5 DEF RowStep
  <2>7. RowsStep
    BY <1>1, <2>5, <2>6, IsSessions DEF RowsStep
  <2>8. ~Unanswered(session'[k])
    BY <1>1, <2>2, <2>5 DEF Unanswered
  <2> QED BY <1>1, <2>2, <2>5, <2>7, <2>8, AnswerStep
<1>3. CASE Ends(r, "lost")
  <2>1. ~Unanswered(session'[k])
    BY <1>1, <1>3, EndsFacts DEF Unanswered
  <2> QED BY <1>1, <1>3, <2>1, EndsFacts, AnswerStep
<1> QED BY <1>2, <1>3 DEF Undo

LEMMA DiesStep == ASSUME IInv, NEW r \in Requests, Dies(r) PROVE IInv'
<1>1. Types /\ Sound /\ Answer(r) /\ UNCHANGED context
  BY DEF IInv, Sound, Dies
<1>2. CASE request[r].s = 0
  BY <1>1, <1>2, NoRows, AnswerStep DEF Dies
<1>3. CASE request[r].s # 0
  <2>1. request[r].s \in DOMAIN session
    BY <1>1, <1>3 DEF Sound, Fit
  <2>2. Ends(r, "lost")
    BY <1>3 DEF Dies
  <2>3. ~Unanswered(session'[request[r].s])
    BY <1>1, <2>1, <2>2, EndsFacts DEF Unanswered
  <2> QED BY <1>1, <2>1, <2>2, <2>3, EndsFacts, AnswerStep
<1> QED BY <1>2, <1>3

-----------------------------------------------------------------------------
(* The starts, and the other ends of a session                                *)

LEMMA StartStep ==
  ASSUME IInv, NEW r \in Requests, NEW q \in Login, request' = [request EXCEPT ![r] = q],
         request[r] = Idle, q.pc \in {"evict", "revoke"}, q.user \in Users, q.s = 0,
         q.pc = "evict" => q.user \in Managers, UNCHANGED <<session, context>>
  PROVE  IInv'
<1>1. Fit(q)'
  BY DEF Fit, Holding
<1>2. Types
  BY DEF IInv, Sound
<1>3. q.s = request[r].s
  BY IdleFacts
<1> QED BY <1>1, <1>2, <1>3, NoRows, RowsHandler

LEMMA MethodStartStep ==
  ASSUME IInv, NEW r \in Requests, NEW u \in Users, NEW c \in Contexts, MethodStart(r, u, c)
  PROVE  IInv'
<1> DEFINE q == [Idle EXCEPT !.pc = "revoke", !.user = u, !.device = DeviceOf[c], !.ctx = c]
<1>1. DeviceOf[c] \in Devices \union {NoDevice}
  BY ConstantsAssumption
<1>2. request' = [request EXCEPT ![r] = q] /\ request[r] = Idle /\ UNCHANGED <<session, context>>
  BY DEF MethodStart
<1>3. q \in Login /\ q.pc = "revoke" /\ q.user = u /\ q.s = 0
  BY <1>1 DEF Idle, Login
<1> HIDE DEF q
<1> QED BY <1>2, <1>3, StartStep

\* The choice of a device in use goes on for one who may take it over only.
LEMMA SelectStartStep ==
  ASSUME IInv, NEW r \in Requests, NEW u \in Users, NEW d \in Devices, SelectStart(r, u, d)
  PROVE  IInv'
<1>1. Types
  BY DEF IInv, Sound
<1>2. CASE Access(u, d) = "refuse"
  BY <1>1, <1>2, NoRows, RowsOnly DEF SelectStart
<1>3. CASE Access(u, d) # "refuse"
  <2> DEFINE pc == Access(u, d)
             q == [Idle EXCEPT !.pc = pc, !.user = u, !.device = d]
  <2>1. pc \in {"evict", "revoke"} /\ (pc = "evict" => u \in Managers)
    BY <1>3 DEF Access
  <2>2. request' = [request EXCEPT ![r] = q] /\ request[r] = Idle /\ UNCHANGED <<session, context>>
    BY <1>3 DEF SelectStart
  <2> HIDE DEF pc
  <2>3. q \in Login /\ q.pc = pc /\ q.user = u /\ q.s = 0
    BY <2>1 DEF Idle, Login
  <2> HIDE DEF q
  <2> QED BY <2>1, <2>2, <2>3, StartStep
<1> QED BY <1>2, <1>3

LEMMA ContextExpiresStep == ASSUME IInv, NEW c \in Contexts, ContextExpires(c) PROVE IInv'
<1>1. Types /\ Sound /\ OneSeat /\ Wins /\ UNCHANGED <<session, request>>
  BY DEF IInv, Sound, ContextExpires
<1>2. context' \in [Contexts -> {"active", "consumed", "expired"}]
  BY <1>1, StatusesKept DEF ContextExpires
<1>3. \A d \in Contexts : context[d] = "consumed" => context'[d] = "consumed"
  BY <1>1 DEF ContextExpires, Types
<1>4. Sound'
  BY <1>1, <1>2 DEF Sound, Types, Fit
<1>5. Held'
  BY <1>1 DEF IInv, Held, Unanswered
<1> QED BY <1>1, <1>3, <1>4, <1>5, NoRows, SeatKept, WinsKept DEF IInv

LEMMA ExpireStep == ASSUME IInv, NEW s \in DOMAIN session, Expire(s) PROVE IInv'
<1> DEFINE row == [session[s] EXCEPT !.status = "past"]
<1>1. Types /\ session[s] \in SessionRow
  BY Rows DEF IInv, Sound
<1>2. session[s].status = "live" /\ session' = [session EXCEPT ![s] = row] /\ UNCHANGED <<context, request>>
  BY DEF Expire, IsLive
<1>3. row \in SessionRow /\ row.login = session[s].login /\ RowStep(session[s], row)
  BY <1>1, <1>2 DEF SessionRow, RowStep
<1> HIDE DEF row
<1>4. session \in [DOMAIN session -> SessionRow]
  BY <1>1 DEF Types
<1>5. session' \in [DOMAIN session -> SessionRow]
      /\ \A t \in DOMAIN session : session'[t] = IF t = s THEN row ELSE session[t]
  BY <1>2, <1>3, <1>4
<1>6. \A t \in DOMAIN session : RowStep(session[t], session'[t])
  BY <1>3, <1>5 DEF RowStep
<1>7. RowsStep
  BY <1>1, <1>5, <1>6, IsSessions DEF RowsStep
<1> QED BY <1>2, <1>3, <1>5, <1>7, RowsOnly

LEMMA LogOutStep == ASSUME IInv, NEW s \in DOMAIN session, LogOut(s) PROVE IInv'
<1>1. Types
  BY DEF IInv, Sound
<1>2. PICK S : Revoke(S)
  BY DEF LogOut
<1>3. RowsStep /\ \A t \in DOMAIN session : session'[t].login = session[t].login
  BY <1>1, <1>2, RevokeFacts
<1> QED BY <1>3, RowsOnly DEF LogOut

LEMMA AdminRevokesStep == ASSUME IInv, AdminRevokes PROVE IInv'
<1>1. Types
  BY DEF IInv, Sound
<1>2. PICK S : Revoke(S)
  BY DEF AdminRevokes
<1>3. RowsStep /\ \A s \in DOMAIN session : session'[s].login = session[s].login
  BY <1>1, <1>2, RevokeFacts
<1> QED BY <1>3, RowsOnly DEF AdminRevokes

-----------------------------------------------------------------------------
(* The invariant and the theorems                                             *)

LEMMA InitIInv == Init => IInv
<1> SUFFICES ASSUME Init PROVE IInv
  OBVIOUS
<1>1. session = <<>> /\ context = [c \in Contexts |-> "active"] /\ request = [r \in Requests |-> Idle]
  BY DEF Init
<1>2. DOMAIN session = {} /\ session \in Seq(SessionRow)
  BY <1>1
<1>3. Sound
  BY <1>1, <1>2, IdleFacts DEF Sound, Types
<1> QED BY <1>2, <1>3 DEF IInv, Wins, Held, OneSeat, Active

LEMMA NextIInv == IInv /\ [Next]_vars => IInv'
<1> SUFFICES ASSUME IInv, [Next]_vars PROVE IInv'
  OBVIOUS
<1>1. Types
  BY DEF IInv, Sound
<1>2. ASSUME NEW r \in Requests, Serves(r) PROVE IInv'
  <2>1. CASE InsertConflict(r)
    <3>1. Go(r, "expired") /\ request[r].pc = "insert" /\ UNCHANGED <<session, context>>
      BY <2>1 DEF InsertConflict
    <3> QED BY <1>1, <3>1, NoRows, EarlyStep
  <2>2. CASE Refused(r)
    <3>1. request[r].s = 0
      BY <2>2 DEF IInv, Sound, Fit, Holding, Refused
    <3> QED BY <1>1, <2>2, <3>1, NoRows, AnswerStep DEF Refused
  <2> QED BY <1>2, <2>1, <2>2, EvictStep, RevokeOwnStep, InsertStep, RevokeExpiredStep,
             SelectAnswersStep, ConsumeStep, ConsumeFailsStep, UndoStep DEF Serves
<1>3. CASE UNCHANGED vars
  BY <1>1, <1>3, NoRows, RowsOnly DEF vars
<1> QED BY <1>2, <1>3, DiesStep, MethodStartStep, SelectStartStep, ContextExpiresStep, ExpireStep,
           LogOutStep, AdminRevokesStep DEF Next

LEMMA Invariance == Spec => []IInv
<1> QED BY InitIInv, NextIInv, PTL DEF Spec

\* A handler never holds a session that does not exist or is another user's.
THEOREM LoginTypes == Spec => []TypeOK
<1>1. IInv => TypeOK
  BY DEF IInv, Sound, Types, Fit, Holding, TypeOK
<1> QED BY <1>1, Invariance, PTL

\* However many logins overlap, of whoever and under whatever context: one session per
\* employee and one employee per device.
THEOREM SeatsAreTakenOnce == Spec => []OneSeat
<1>1. IInv => OneSeat
  BY DEF IInv
<1> QED BY <1>1, Invariance, PTL

\* A set without two members has one at most.
LEMMA AtMostOne ==
  ASSUME NEW S, \A x, y \in S : x = y
  PROVE  Cardinality(S) \in {0, 1}
<1>1. CASE S = {}
  BY <1>1, FS_EmptySet, Zenon
<1>2. ASSUME NEW x \in S PROVE Cardinality(S) = 1
  <2>1. S = {x}
    OBVIOUS
  <2> QED BY <2>1, FS_Singleton, Zenon
<1> QED BY <1>1, <1>2

\* A login context is consumed by one login, which is the only one let in under it.
THEOREM ContextsWinOnce == Spec => []ContextWinsOnce
<1>1. ASSUME IInv, NEW c \in Contexts
      PROVE  Cardinality({s \in DOMAIN session : session[s].ctx = c /\ session[s].login = "in"}) <= 1
  <2> DEFINE S == {s \in DOMAIN session : session[s].ctx = c /\ session[s].login = "in"}
  <2>1. \A s1, s2 \in S : s1 = s2
    BY <1>1 DEF IInv, Wins
  <2>2. Cardinality(S) \in {0, 1}
    BY <2>1, AtMostOne, Zenon
  <2> DEFINE n == Cardinality(S)
  <2> HIDE DEF n
  <2>3. n <= 1
    BY <2>2 DEF n
  <2> QED BY <2>3, Zenon DEF n
<1>2. IInv => ContextWinsOnce
  BY <1>1 DEF ContextWinsOnce
<1> QED BY <1>2, Invariance, PTL

\* Who is put out, and by whom, in one step.
LEMMA RevokedOnly ==
  ASSUME NEW S, Revoke(S), NEW s \in DOMAIN session, IsLive(s), session'[s].status = "revoked"
  PROVE  s \in S
<1> QED BY DEF Revoke, IsLive

LEMMA AnsweredOnly ==
  ASSUME NEW r \in Requests, NEW how, Ends(r, how), NEW s \in DOMAIN session
  PROVE  session'[s].status = session[s].status
<1> QED BY DEF Ends

LEMMA EvictionStep ==
  ASSUME IInv, [Next]_vars, NEW s \in DOMAIN session, NEW r \in Requests,
         IsLive(s), session'[s].status = "revoked", request'[r] # request[r]
  PROVE  request[r].user \in Managers \union {session[s].user}
<1>1. Types /\ Fit(request[r]) /\ session[s].status = "live"
  BY DEF IInv, Sound, IsLive
<1>2. ~UNCHANGED session
  BY <1>1
<1>3. ASSUME NEW t \in Requests, Go(t, "revoke") \/ Go(t, "insert") \/ Go(t, "insertAgain") \/ Answer(t)
      PROVE  t = r
  BY <1>1, <1>3 DEF Go, Answer, Types
<1>4. ASSUME NEW t \in Requests, Serves(t) PROVE request[r].user \in Managers \union {session[s].user}
  <2>1. CASE Evict(t)
    <3>1. t = r /\ request[r].pc = "evict"
      BY <1>3, <2>1 DEF Evict
    <3> QED BY <1>1, <3>1 DEF Fit
  <2>2. CASE RevokeOwn(t)
    <3>1. t = r /\ Revoke(OfUser(request[r].user))
      BY <1>2, <1>3, <2>2 DEF RevokeOwn
    <3> QED BY <3>1, RevokedOnly DEF OfUser
  <2>3. CASE RevokeExpired(t)
    <3>1. PICK d : Revoke(OnDevice(d) \ InUse(d))
      BY <2>3 DEF RevokeExpired
    <3>2. s \in OnDevice(d) \ InUse(d)
      BY <3>1, RevokedOnly
    <3> QED BY <3>2 DEF InUse
  <2>4. CASE Insert(t)
    <3>1. session'[s] = session[s]
      BY <1>1, <2>4 DEF Insert, Types
    <3> QED BY <1>1, <3>1
  <2>5. CASE SelectAnswers(t) \/ Consume(t)
    <3>1. PICK how : Ends(t, how)
      BY <2>5 DEF SelectAnswers, Consume
    <3> QED BY <1>1, <3>1, AnsweredOnly
  <2>6. CASE Undo(t)
    <3>1. t = r /\ request[r].pc = "undo"
      BY <1>3, <2>6 DEF Undo
    <3>2. CASE Ends(t, "lost")
      BY <1>1, <3>2, AnsweredOnly
    <3>3. CASE session' = [session EXCEPT ![request[r].s].status = "revoked"]
      <4>1. s = request[r].s
        BY <1>1, <3>3
      <4> QED BY <1>1, <3>1, <4>1 DEF Fit, Holding
    <3> QED BY <2>6, <3>1, <3>2, <3>3 DEF Undo
  <2>7. CASE InsertConflict(t) \/ Refused(t) \/ ConsumeFails(t)
    BY <1>2, <2>7 DEF InsertConflict, Refused, ConsumeFails
  <2> QED BY <1>4, <2>1, <2>2, <2>3, <2>4, <2>5, <2>6, <2>7 DEF Serves
<1>5. ASSUME NEW t \in Requests, Dies(t) PROVE FALSE
  <2>1. Ends(t, "lost")
    BY <1>2, <1>5 DEF Dies
  <2> QED BY <1>1, <2>1, AnsweredOnly
<1>6. ASSUME NEW t \in DOMAIN session, Expire(t) PROVE FALSE
  BY <1>6 DEF Expire
<1>7. ASSUME NEW t \in DOMAIN session, LogOut(t) PROVE FALSE
  BY <1>7 DEF LogOut
<1>8. ~AdminRevokes
  BY DEF AdminRevokes
<1>9. ASSUME NEW t \in Requests, NEW u \in Users, \/ \E c \in Contexts : MethodStart(t, u, c)
                                                \/ \E d \in Devices : SelectStart(t, u, d)
      PROVE  FALSE
  BY <1>2, <1>9 DEF MethodStart, SelectStart
<1>10. \A c \in Contexts : ~ContextExpires(c)
  BY <1>2 DEF ContextExpires
<1>11. Next
  BY <1>2 DEF vars
<1> QED BY <1>4, <1>5, <1>6, <1>7, <1>8, <1>9, <1>10, <1>11 DEF Next

\* A live session is ended by its own user, a manager or an administrator only, although
\* the device is looked at in one call and cleared in a later one.
THEOREM EvictionsAreRightful == Spec => EvictedByRight
<1> DEFINE Rightful == \A s \in DOMAIN session, r \in Requests :
      IsLive(s) /\ session'[s].status = "revoked" /\ request'[r] # request[r]
      => request[r].user \in Managers \union {session[s].user}
<1>1. IInv /\ [Next]_vars => [Rightful]_vars
  BY EvictionStep
<1> QED BY <1>1, Invariance, PTL DEF Spec, EvictedByRight

\* Whichever logins race for a context, a device or an employee, every active session is that of a
\* login that succeeded, is held by a handler, or is one of which a call was lost.
THEOREM SessionsHaveOwners == Spec => []SessionHasOwner
<1>1. IInv => SessionHasOwner
  <2> SUFFICES ASSUME IInv, NEW s \in Active
               PROVE  \/ session[s].login = "lost"
                      \/ /\ session[s].login = "in"
                         /\ session[s].ctx \in Contexts => context[session[s].ctx] = "consumed"
                      \/ \E r \in Requests : request[r].s = s
    BY DEF SessionHasOwner
  <2>1. s \in DOMAIN session /\ session[s].status # "revoked"
    BY DEF Active
  <2>2. session[s].login \in {"open", "in", "lost"}
    BY <2>1, Rows DEF IInv, Sound, SessionRow
  <2>3. CASE session[s].login = "open"
    BY <2>1, <2>3 DEF IInv, Held, Unanswered
  <2>4. CASE session[s].login = "in"
    BY <2>1, <2>4 DEF IInv, Wins
  <2> QED BY <2>2, <2>3, <2>4
<1> QED BY <1>1, Invariance, PTL
=============================================================================
