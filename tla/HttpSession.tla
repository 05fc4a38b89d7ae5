----------------------------- MODULE HttpSession -----------------------------
(***************************************************************************)
(* AuthenticatedClient of src/client/http.rs as src/client/qbittorrent.rs  *)
(* uses it: concurrent calls that share one session behind a tokio RwLock. *)
(* A call sends its request with the session's client, and once more after *)
(* renewing the session if the first answer is 401 or 403.                 *)
(*                                                                         *)
(* All clones of the reqwest client share one cookie jar, so what decides  *)
(* an answer is the one cookie the jar holds (jarAccepted), not the client *)
(* the call was handed; the session id only tells whether to log in again. *)
(*                                                                         *)
(* The write lock is held exactly while its owner awaits a login, and the  *)
(* read lock is never held across an await.  Which waiter is next is left  *)
(* open, where tokio's lock goes by arrival.  A Caller is one call: the    *)
(* set bounds how many there are.                                          *)
(***************************************************************************)
EXTENDS Naturals

CONSTANTS
  Caller,
  MaxExpiries,    \* how often the server forgets a session, at most
  MaxHollow       \* how often a login ends well without one, at most

ASSUME BoundsAssumption == MaxExpiries \in Nat /\ MaxHollow \in Nat

VARIABLES
  session,       \* [id, client]: the guarded Session, client tells if it is Some
  jarAccepted,   \* the server accepts the cookie the jar holds
  pc,            \* [Caller -> where with_auth is]
  sid,           \* [Caller -> id of the session it was handed last]
  served,        \* [Caller -> how often the server carried its request out]
  outcome,       \* [Caller -> what with_auth returned]
  renewals,      \* logins renew_session has completed
  expiries,      \* sessions the server has forgotten
  hollow         \* logins that ended well and brought none

vars == <<session, jarAccepted, pc, sid, served, outcome, renewals, expiries, hollow>>

LoggingIn == {"login", "relogin"}    \* holds the write lock

PC == {"idle", "session", "login_wait", "send", "answer", "refused", "resend", "done"}
        \cup LoggingIn

Outcome == {"none", "response", "auth_failed", "client_error", "dropped"}

\* The types of the state; the session id of http.rs is unsigned and only grows.
TypeOK ==
  /\ session \in [id : Nat, client : BOOLEAN]
  /\ jarAccepted \in BOOLEAN
  /\ pc \in [Caller -> PC]
  /\ sid \in [Caller -> Nat]
  /\ served \in [Caller -> Nat]
  /\ outcome \in [Caller -> Outcome]
  /\ renewals \in Nat
  /\ expiries \in 0..MaxExpiries
  /\ hollow \in 0..MaxHollow

Init ==
  /\ session = [id |-> 0, client |-> FALSE]
  /\ jarAccepted = FALSE
  /\ pc = [c \in Caller |-> "idle"]
  /\ sid = [c \in Caller |-> 0]
  /\ served = [c \in Caller |-> 0]
  /\ outcome = [c \in Caller |-> "none"]
  /\ renewals = 0
  /\ expiries = 0
  /\ hollow = 0

LockFree == \A c \in Caller : pc[c] \notin LoggingIn

-----------------------------------------------------------------------------

Goto(c, from, to) ==
  /\ pc[c] \in from
  /\ pc' = [pc EXCEPT ![c] = to]

Return(c, from, o) ==
  /\ Goto(c, from, "done")
  /\ outcome' = [outcome EXCEPT ![c] = o]

Start(c) ==
  /\ Goto(c, {"idle"}, "session")
  /\ UNCHANGED <<session, jarAccepted, sid, served, outcome, renewals, expiries, hollow>>

\* session() under the read lock.
SessionFound(c) ==
  /\ LockFree
  /\ session.client
  /\ Goto(c, {"session"}, "send")
  /\ sid' = [sid EXCEPT ![c] = session.id]
  /\ UNCHANGED <<session, jarAccepted, served, outcome, renewals, expiries, hollow>>

\* The read lock is given up before the write lock is asked for.
SessionMissing(c) ==
  /\ LockFree
  /\ ~session.client
  /\ Goto(c, {"session"}, "login_wait")
  /\ UNCHANGED <<session, jarAccepted, sid, served, outcome, renewals, expiries, hollow>>

\* Mutant of LoginBegin: the read guard lives on while the write lock is awaited.
LoginBeginUnderRead(c) ==
  /\ LockFree
  /\ \A d \in Caller : pc[d] # "login_wait"
  /\ Goto(c, {"login_wait"}, "login")
  /\ UNCHANGED <<session, jarAccepted, sid, served, outcome, renewals, expiries, hollow>>

\* Under the write lock session() does not look again: it logs in even if the
\* call that had the lock before it just did.
LoginBegin(c) ==
  /\ LockFree
  /\ Goto(c, {"login_wait"}, "login")
  /\ UNCHANGED <<session, jarAccepted, sid, served, outcome, renewals, expiries, hollow>>

\* What a login that ends well does for the jar; its cookie may still be good.
Granted == jarAccepted' = TRUE /\ UNCHANGED hollow

NotGranted ==
  /\ ~jarAccepted /\ UNCHANGED jarAccepted
  /\ hollow < MaxHollow
  /\ hollow' = hollow + 1

\* Mutant of LoginEnd: the id is not increased.
LoginEndSameId(c) ==
  /\ Goto(c, LoggingIn, IF pc[c] = "login" THEN "send" ELSE "resend")
  /\ session' = [session EXCEPT !.client = TRUE]
  /\ sid' = [sid EXCEPT ![c] = session.id]
  /\ Granted \/ NotGranted
  /\ renewals' = IF pc[c] = "relogin" THEN renewals + 1 ELSE renewals
  /\ UNCHANGED <<served, outcome, expiries>>

\* The answer to the login is neither 401 nor 403: a new session, although an
\* answer such as 500, or 200 with a text that says no, brings no cookie.
LoginEnd(c) ==
  /\ Goto(c, LoggingIn, IF pc[c] = "login" THEN "send" ELSE "resend")
  /\ session' = [id |-> session.id + 1, client |-> TRUE]
  /\ sid' = [sid EXCEPT ![c] = session.id + 1]
  /\ Granted \/ NotGranted
  /\ renewals' = IF pc[c] = "relogin" THEN renewals + 1 ELSE renewals
  /\ UNCHANGED <<served, outcome, expiries>>

\* Mutant of LoginFails: the id goes back, as if to give the failed one up.
LoginFailsBack(c) ==
  /\ \E o \in {"auth_failed", "client_error"} : Return(c, LoggingIn, o)
  /\ session' = [session EXCEPT !.id = @ - 1]
  /\ UNCHANGED <<jarAccepted, sid, served, renewals, expiries, hollow>>

\* 401, 403 or no answer: the guard is dropped, the session stays as it was.
LoginFails(c) ==
  /\ \E o \in {"auth_failed", "client_error"} : Return(c, LoggingIn, o)
  /\ UNCHANGED <<session, jarAccepted, sid, served, renewals, expiries, hollow>>

\* The server lets the request through and carries it out.
Serve(c) ==
  /\ jarAccepted
  /\ Goto(c, {"send", "resend"}, "answer")
  /\ served' = [served EXCEPT ![c] = @ + 1]
  /\ UNCHANGED <<session, jarAccepted, sid, outcome, renewals, expiries, hollow>>

Answer(c) ==
  /\ Return(c, {"answer"}, "response")
  /\ UNCHANGED <<session, jarAccepted, sid, served, renewals, expiries, hollow>>

\* Mutant of AnswerLost: a broken connection is taken for an expired session.
AnswerLostRetried(c) ==
  /\ Goto(c, {"answer"}, "refused")
  /\ UNCHANGED <<session, jarAccepted, sid, served, outcome, renewals, expiries, hollow>>

\* f fails: before the server had the request, or after.
AnswerLost(c) ==
  /\ Return(c, {"send", "resend", "answer"}, "client_error")
  /\ UNCHANGED <<session, jarAccepted, sid, served, renewals, expiries, hollow>>

Refuse(c) ==
  /\ ~jarAccepted
  /\ Goto(c, {"send"}, "refused")
  /\ UNCHANGED <<session, jarAccepted, sid, served, outcome, renewals, expiries, hollow>>

\* Mutant of RefuseAgain: the second answer goes back unexamined.
RefuseAgainReturned(c) ==
  /\ ~jarAccepted
  /\ Return(c, {"resend"}, "response")
  /\ UNCHANGED <<session, jarAccepted, sid, served, renewals, expiries, hollow>>

RefuseAgain(c) ==
  /\ ~jarAccepted
  /\ Return(c, {"resend"}, "auth_failed")
  /\ UNCHANGED <<session, jarAccepted, sid, served, renewals, expiries, hollow>>

\* renew_session: another call has renewed since this one was handed its session.
Reuse(c) ==
  /\ LockFree
  /\ session.id # sid[c] /\ session.client
  /\ Goto(c, {"refused"}, "resend")
  /\ sid' = [sid EXCEPT ![c] = session.id]
  /\ UNCHANGED <<session, jarAccepted, served, outcome, renewals, expiries, hollow>>

\* Mutant of RenewBegin: every refused call logs in.
RenewBeginAlways(c) ==
  /\ LockFree
  /\ Goto(c, {"refused"}, "relogin")
  /\ UNCHANGED <<session, jarAccepted, sid, served, outcome, renewals, expiries, hollow>>

RenewBegin(c) ==
  /\ LockFree
  /\ session.id = sid[c] \/ ~session.client
  /\ Goto(c, {"refused"}, "relogin")
  /\ UNCHANGED <<session, jarAccepted, sid, served, outcome, renewals, expiries, hollow>>

\* The caller goes away at an await; a guard it holds is dropped with it.
Drop(c) ==
  /\ Return(c, PC \ {"idle", "done"}, "dropped")
  /\ UNCHANGED <<session, jarAccepted, sid, served, renewals, expiries, hollow>>

\* The server forgets the session the jar's cookie names.
Expire ==
  /\ jarAccepted
  /\ expiries < MaxExpiries
  /\ jarAccepted' = FALSE
  /\ expiries' = expiries + 1
  /\ UNCHANGED <<session, pc, sid, served, outcome, renewals, hollow>>

CallStep(c) ==
  \/ SessionFound(c) \/ SessionMissing(c)
  \/ LoginBegin(c) \/ LoginEnd(c) \/ LoginFails(c)
  \/ Serve(c) \/ Answer(c) \/ AnswerLost(c) \/ Refuse(c) \/ RefuseAgain(c)
  \/ Reuse(c) \/ RenewBegin(c)

\* When every call has ended the service is idle.
Idle == (\A c \in Caller : pc[c] = "done") /\ UNCHANGED vars

Next ==
  \/ \E c \in Caller : Start(c) \/ CallStep(c) \/ Drop(c)
  \/ Expire
  \/ Idle

Spec == Init /\ [][Next]_vars

\* The runtime runs every call that can go on; the server answers, or the
\* connection breaks.
FairSpec == Spec /\ \A c \in Caller : WF_vars(CallStep(c))

-----------------------------------------------------------------------------

\* A call as its caller sees it.
Call ==
  INSTANCE ClientCall
  WITH taken  <- {c \in Caller : served[c] > 0},
       result <- [c \in Caller |-> CASE outcome[c] = "none"     -> "pending"
                                     [] outcome[c] = "response" -> "ok"
                                     [] OTHER                   -> "error"]

\* A request is carried out at most once: with_auth repeats only a request the
\* server has refused, never one whose answer was lost.
ServedOnce == \A c \in Caller : served[c] <= 1

\* To its caller a call is one request, which succeeds only if the server carried
\* it out and may fail also after that (with_auth and ensure_authenticated).
ImplementsClientCall == Call!Spec

\* However many calls find their session expired, one of them renews it: there
\* are never more renewals than sessions forgotten by the server, and logins that
\* did not bring any (renew_session compares the id under the write lock).
RenewedOncePerExpiry == renewals <= expiries + hollow

\* A request is repeated only with a session newer than the one it was refused
\* with.
RetriedWithNewer ==
  [][\A c \in Caller : pc[c] # "resend" /\ pc'[c] = "resend" => sid'[c] > sid[c]]_vars

\* Every call ends, also if the one that holds the lock fails or goes away.
CallsEnd == \A c \in Caller : pc[c] = "session" ~> pc[c] = "done"

=============================================================================
