------------------------------ MODULE PosLogin ------------------------------
(***************************************************************************)
(* The sessions of the tills of one branch: logins by PIN or staff card    *)
(* under a login context (POST /api/auth/pin/verify and                    *)
(* staff-card/verify, handleMethodVerification), logins by the choice of a *)
(* device (POST /api/auth/devices/select), log-outs and the ways of an     *)
(* administrator to end sessions.  A login is a handler that makes one     *)
(* database call after the other; handlers interleave between any two      *)
(* calls, calls fail, handlers die, and the client may have been answered  *)
(* with a time-out while its handler goes on.                              *)
(***************************************************************************)
EXTENDS Naturals, Sequences, FiniteSets

CONSTANTS Users,         \* employees of the branch
          Managers,      \* those with pos.device.override_in_use
          Devices,
          NoDevice,      \* a context without a device
          Contexts,      \* pos_login_contexts made by POST /api/store/login-context
          NoContext,     \* devices/select makes a context of its own for each login
          DeviceOf,      \* DeviceOf[c]: the device of a context
          Nobody,
          Requests,      \* slots for logins that are served at the same time
          MaxSessions    \* bound: sessions that are ever created

ASSUME ConstantsAssumption ==
  /\ Managers \subseteq Users
  /\ NoDevice \notin Devices
  /\ NoContext \notin Contexts
  /\ DeviceOf \in [Contexts -> Devices \union {NoDevice}]
  /\ Nobody \notin Users
  /\ MaxSessions \in Nat

VARIABLES
  session,  \* the rows of pos_sessions in the order of their insertion: active and to expire
            \* ("live"), active and past expires_at ("past"), or revoked; history: whether their
            \* login was answered with success ("in"), not so yet, or not any more ("open"), or
            \* its handler died, was answered for too late, or failed to take the session back
            \* without noticing ("lost")
  context,  \* context[c]: status of the login context
  request   \* request[r]: the next call of the handler and what it holds

vars == <<session, context, request>>

Idle == [pc |-> "idle", user |-> Nobody, device |-> NoDevice, ctx |-> NoContext, s |-> 0]

Init ==
  /\ session = <<>>
  /\ context = [c \in Contexts |-> "active"]
  /\ request = [r \in Requests |-> Idle]

Active == {s \in DOMAIN session : session[s].status # "revoked"}
IsLive(s) == session[s].status = "live"
OfUser(u) == {s \in Active : session[s].user = u}
OnDevice(d) == {s \in Active : session[s].device = d /\ d # NoDevice}
InUse(d) == {s \in OnDevice(d) : IsLive(s)}

Go(r, pc) == request' = [request EXCEPT ![r].pc = pc]
Answer(r) == request' = [request EXCEPT ![r] = Idle]

\* update ... set status = 'revoked' where ... and status = 'active'
Revoke(S) ==
  session' = [s \in DOMAIN session |->
    IF s \in S \intersect Active THEN [session[s] EXCEPT !.status = "revoked"] ELSE session[s]]

-----------------------------------------------------------------------------
(* handleMethodVerification: PIN or staff card under a context                *)

\* validateLoginContext; the PIN or the card is checked afterwards.
MethodStart(r, u, c) ==
  /\ request[r] = Idle
  /\ context[c] = "active"
  /\ request' = [request EXCEPT ![r] = [Idle EXCEPT !.pc = "revoke", !.user = u,
                                                    !.device = DeviceOf[c], !.ctx = c]]
  /\ UNCHANGED <<session, context>>

\* Ten minutes have passed; every reader writes the status it would have found.
ContextExpires(c) ==
  /\ context[c] = "active"
  /\ context' = [context EXCEPT ![c] = "expired"]
  /\ UNCHANGED <<session, request>>

-----------------------------------------------------------------------------
(* POST /api/auth/devices/select                                              *)

\* resolveDeviceSessionAccess
Access(u, d) ==
  IF \A s \in InUse(d) : session[s].user = u THEN "revoke"
  ELSE IF u \in Managers THEN "evict" ELSE "refuse"

SelectStart(r, u, d) ==
  /\ request[r] = Idle
  /\ IF Access(u, d) = "refuse" THEN UNCHANGED request
     ELSE request' = [request EXCEPT ![r] = [Idle EXCEPT !.pc = Access(u, d), !.user = u, !.device = d]]
  /\ UNCHANGED <<session, context>>

\* Whoever is on the device by now, not only the session that was read.
Evict(r) ==
  /\ request[r].pc = "evict"
  /\ Revoke(OnDevice(request[r].device))
  /\ Go(r, "revoke")
  /\ UNCHANGED context

-----------------------------------------------------------------------------
(* createPosSession                                                           *)

\* An error of this call is logged and ignored.
RevokeOwn(r) ==
  /\ request[r].pc = "revoke"
  /\ Revoke(OfUser(request[r].user)) \/ UNCHANGED session
  /\ Go(r, "insert")
  /\ UNCHANGED context

\* Mutant: without the unique indexes on user and device.
ConflictOnContext(q) == \E s \in Active : session[s].ctx = q.ctx /\ q.ctx # NoContext

\* The unique indexes over active sessions: of a user, a device and a context.  They do not know
\* expires_at.
Conflict(q) ==
  \/ OfUser(q.user) # {} \/ OnDevice(q.device) # {}
  \/ \E s \in Active : session[s].ctx = q.ctx /\ q.ctx # NoContext

NewSession(q) == [user |-> q.user, device |-> q.device, ctx |-> q.ctx, status |-> "live",
                  login |-> "open"]

Insert(r) ==
  /\ request[r].pc \in {"insert", "insertAgain"}
  /\ ~Conflict(request[r])
  /\ Len(session) < MaxSessions
  /\ session' = Append(session, NewSession(request[r]))
  /\ request' = [request EXCEPT ![r].pc = IF request[r].ctx = NoContext THEN "answer" ELSE "consume",
                                ![r].s = Len(session) + 1]
  /\ UNCHANGED context

InsertConflict(r) ==
  /\ request[r].pc = "insert"
  /\ Conflict(request[r])
  /\ Go(r, "expired")
  /\ UNCHANGED <<session, context>>

\* Mutant: whoever is on the device makes room.
RevokeDevice(r) ==
  /\ request[r].pc = "expired"
  /\ Revoke(OnDevice(request[r].device))
  /\ Go(r, "insertAgain")
  /\ UNCHANGED context

\* Mutant: the rows of the past are looked for on the wrong side of expires_at.
RevokeNone(r) ==
  /\ request[r].pc = "expired"
  /\ Go(r, "insertAgain")
  /\ UNCHANGED <<session, context>>

\* Only then the sessions of the past are taken off the device, and the insert is tried again.
RevokeExpired(r) ==
  /\ request[r].pc = "expired"
  /\ Revoke(OnDevice(request[r].device) \ InUse(request[r].device))
  /\ Go(r, "insertAgain")
  /\ UNCHANGED context

\* session_scope_conflict, or any other error of the insert.
Refused(r) ==
  /\ \/ request[r].pc = "insertAgain"
     \/ request[r].pc = "insert" /\ ~Conflict(request[r])
  /\ Answer(r)
  /\ UNCHANGED <<session, context>>

-----------------------------------------------------------------------------
(* The end of a login                                                         *)

Ends(r, how) ==
  session' = [session EXCEPT ![request[r].s].login = IF @ = "open" THEN how ELSE @]

\* devices/select answers, and consumes its own context without waiting for it; the client may have
\* been answered with a time-out long before (30 s), and createPosSession went on.
SelectAnswers(r) ==
  /\ request[r].pc = "answer"
  /\ Ends(r, "in") \/ Ends(r, "lost")
  /\ Answer(r)
  /\ UNCHANGED context

\* Mutant: the update does not ask for an active context.
Consumable(c) == TRUE

IsActiveContext(c) == context[c] = "active"

\* consumeLoginContext: the login succeeds for the one that changes the row.
Consume(r) ==
  /\ request[r].pc = "consume"
  /\ IsActiveContext(request[r].ctx)
  /\ context' = [context EXCEPT ![request[r].ctx] = "consumed"]
  /\ Ends(r, "in")
  /\ Answer(r)

\* Replayed, expired, or an error of the database.
ConsumeFails(r) ==
  /\ request[r].pc = "consume"
  /\ Go(r, "undo")
  /\ UNCHANGED <<session, context>>

\* Mutant: the refusal is answered without a look at the session.
UndoNothing(r) ==
  /\ request[r].pc = "undo"
  /\ Answer(r)
  /\ UNCHANGED <<session, context>>

\* revokeSession; nobody looks at its error.
Undo(r) ==
  /\ request[r].pc = "undo"
  /\ session' = [session EXCEPT ![request[r].s].status = "revoked"] \/ Ends(r, "lost")
  /\ Answer(r)
  /\ UNCHANGED context

\* The process goes down, or throws past the handler's own clean-up.
Dies(r) ==
  /\ request[r].pc # "idle"
  /\ IF request[r].s = 0 THEN UNCHANGED session ELSE Ends(r, "lost")
  /\ Answer(r)
  /\ UNCHANGED context

-----------------------------------------------------------------------------
(* Other ends of a session                                                    *)

\* 12 hours have passed.
Expire(s) ==
  /\ IsLive(s)
  /\ session' = [session EXCEPT ![s].status = "past"]
  /\ UNCHANGED <<context, request>>

\* POST /api/auth/session/logout and DELETE /api/auth/session/context by the one who holds the cookie;
\* the guard lets live sessions only.  To switch the employee ends every session of the user.
LogOut(s) ==
  /\ session[s].login = "in" /\ IsLive(s)
  /\ \E S \in {{s}, OfUser(session[s].user)} : Revoke(S)
  /\ UNCHANGED <<context, request>>

\* IT ends one session; the settings end those of a device that is renamed, moved or deleted.
AdminRevokes ==
  /\ \E S \in {{s} : s \in Active} \union {OnDevice(d) : d \in Devices} : S # {} /\ Revoke(S)
  /\ UNCHANGED <<context, request>>

-----------------------------------------------------------------------------
Serves(r) ==
  \/ Evict(r) \/ RevokeOwn(r) \/ Insert(r) \/ InsertConflict(r) \/ RevokeExpired(r) \/ Refused(r)
  \/ SelectAnswers(r) \/ Consume(r) \/ ConsumeFails(r) \/ Undo(r)

Next ==
  \/ \E r \in Requests :
       \/ \E u \in Users : \E c \in Contexts : MethodStart(r, u, c)
       \/ \E u \in Users : \E d \in Devices : SelectStart(r, u, d)
       \/ Serves(r) \/ Dies(r)
  \/ \E c \in Contexts : ContextExpires(c)
  \/ \E s \in DOMAIN session : Expire(s) \/ LogOut(s)
  \/ AdminRevokes

\* Somebody keeps choosing each device, and neither the process nor the database fails for good.
Fairness ==
  /\ \A r \in Requests : WF_vars(Serves(r))
  /\ \A d \in Devices :
       /\ SF_vars(\E r \in Requests, u \in Users : SelectStart(r, u, d))
       /\ SF_vars(\E r \in Requests : request[r].device = d /\ RevokeOwn(r))
       /\ SF_vars(\E r \in Requests : request[r].device = d /\ InsertConflict(r))
       /\ SF_vars(\E r \in Requests : request[r].device = d /\ RevokeExpired(r))

Spec == Init /\ [][Next]_vars /\ Fairness

-----------------------------------------------------------------------------
SessionRow == [user : Users, device : Devices \union {NoDevice}, ctx : Contexts \union {NoContext},
               status : {"live", "past", "revoked"}, login : {"open", "in", "lost"}]
Login == [pc : {"idle", "evict", "revoke", "insert", "expired", "insertAgain", "answer", "consume", "undo"},
          user : Users \union {Nobody}, device : Devices \union {NoDevice},
          ctx : Contexts \union {NoContext}, s : Nat]

\* Every variable has its type; a handler that holds a session holds one of its own user.
TypeOK ==
  /\ session \in Seq(SessionRow)
  /\ context \in [Contexts -> {"active", "consumed", "expired"}]
  /\ request \in [Requests -> Login]
  /\ \A r \in Requests :
       /\ request[r] # Idle => request[r].user \in Users
       /\ request[r].pc \in {"answer", "consume", "undo"} => request[r].s \in DOMAIN session
       /\ request[r].s # 0 => /\ request[r].s \in DOMAIN session
                              /\ session[request[r].s].user = request[r].user

\* An employee has one session in the branch and a device one employee, however logins overlap
\* (202605250005: "Guardrail against accidental duplicate active sessions").
OneSeat ==
  \A s1, s2 \in Active :
    session[s1].user = session[s2].user
      \/ (session[s1].device = session[s2].device /\ session[s1].device # NoDevice)
    => s1 = s2

\* A login context lets one login in: two that were verified under it at once do not both succeed
\* (docs/pos-login-context-handoff.md: "Replay protection").
ContextWinsOnce ==
  \A c \in Contexts : Cardinality({s \in DOMAIN session : session[s].ctx = c /\ session[s].login = "in"}) <= 1

\* A session that has not expired is ended by its own employee, by one who may take devices
\* over, or by an administrator: a cashier's login never puts a colleague out, although a device
\* is looked at in one call and cleared in a later one.  (r is the handler whose step it is.)
EvictedByRight ==
  [][\A s \in DOMAIN session, r \in Requests :
       IsLive(s) /\ session'[s].status = "revoked" /\ request'[r] # request[r]
       => request[r].user \in Managers \union {session[s].user}]_vars

\* Nobody's session keeps an employee or a device out: an active one belongs to a login that was
\* answered with success, and that has consumed its context if it came under one, or a handler
\* still holds it and will either succeed or take it back.  A login that loses the race for the
\* context has by then revoked sessions and inserted its own.  Set apart are the sessions whose
\* handler died, was late, or had its update refused by the database.
SessionHasOwner ==
  \A s \in Active :
    \/ session[s].login = "lost"
    \/ session[s].login = "in" /\ (session[s].ctx \in Contexts => context[session[s].ctx] = "consumed")
    \/ \E r \in Requests : request[r].s = s

\* The sessions of a device that have expired, which still fill its place in the indexes, give
\* way to the employees who try to use it.
ExpiredGivesWay ==
  \A d \in Devices : OnDevice(d) \ InUse(d) # {} ~> OnDevice(d) \ InUse(d) = {}
=============================================================================
