-------------------------- MODULE HttpSessionProofs --------------------------
(***************************************************************************)
(* The safety properties of HttpSession, proved for every set of calls and *)
(* every bound on the expiries.                                            *)
(***************************************************************************)
EXTENDS HttpSession, TLAPS

\* Where a call is, what it was handed and what the server did for it.
CallInv ==
  /\ \A c \in Caller : sid[c] <= session.id
  /\ \A c \in Caller : pc[c] \in {"send", "answer", "refused", "relogin", "resend"} =>
       session.client
  /\ \A c \in Caller : served[c] <= 1
  /\ \A c \in Caller :
       pc[c] \in {"idle", "session", "login_wait", "send", "refused", "resend"} \cup LoggingIn =>
         served[c] = 0
  /\ \A c \in Caller : pc[c] = "answer" => served[c] = 1
  /\ \A c \in Caller : outcome[c] = "none" <=> pc[c] # "done"

\* The write lock has one owner.
OneWriter ==
  \A c, d \in Caller : pc[c] \in LoggingIn /\ pc[d] \in LoggingIn => c = d

\* A call holding the lock to renew still has the current session's id.
RenewerCurrent == \A c \in Caller : pc[c] = "relogin" => sid[c] = session.id

\* A renewal is still to come for the current session.  RenewedOncePerExpiry is
\* not inductive without an expiry, or a login in vain, set aside for it.
RenewalDue ==
  /\ session.client
  /\ \/ ~jarAccepted
     \/ \E c \in Caller : pc[c] \in {"refused", "relogin"} /\ sid[c] = session.id

RenewalInv ==
  /\ renewals <= expiries + hollow
  /\ RenewalDue => renewals + 1 <= expiries + hollow

IInv == TypeOK /\ CallInv /\ OneWriter /\ RenewerCurrent /\ RenewalInv

-----------------------------------------------------------------------------

LEMMA TypeStep == TypeOK /\ [Next]_vars => TypeOK'
<1> SUFFICES ASSUME TypeOK, [Next]_vars PROVE TypeOK'
  OBVIOUS
<1> USE BoundsAssumption DEF TypeOK, PC, LoggingIn, Outcome, Goto, Return
<1>1. ASSUME NEW c \in Caller, Start(c) PROVE TypeOK'
  BY <1>1 DEF Start
<1>2. ASSUME NEW c \in Caller, SessionFound(c) \/ SessionMissing(c) PROVE TypeOK'
  BY <1>2 DEF SessionFound, SessionMissing
<1>3. ASSUME NEW c \in Caller, LoginBegin(c) PROVE TypeOK'
  BY <1>3 DEF LoginBegin
<1>4. ASSUME NEW c \in Caller, LoginEnd(c) PROVE TypeOK'
  <2>1. session' \in [id : Nat, client : BOOLEAN]
    BY <1>4 DEF LoginEnd
  <2>2. jarAccepted' \in BOOLEAN /\ hollow' \in 0..MaxHollow
    <3>1. CASE Granted
      BY <3>1 DEF Granted
    <3>2. CASE NotGranted
      BY <3>2 DEF NotGranted
    <3> QED
      BY <1>4, <3>1, <3>2 DEF LoginEnd
  <2>3. pc' \in [Caller -> PC] /\ sid' \in [Caller -> Nat] /\ renewals' \in Nat
    BY <1>4 DEF LoginEnd
  <2> QED
    BY <1>4, <2>1, <2>2, <2>3 DEF LoginEnd
<1>5. ASSUME NEW c \in Caller, LoginFails(c) PROVE TypeOK'
  BY <1>5 DEF LoginFails
<1>6. ASSUME NEW c \in Caller, Serve(c) \/ Answer(c) \/ AnswerLost(c) PROVE TypeOK'
  BY <1>6 DEF Serve, Answer, AnswerLost
<1>7. ASSUME NEW c \in Caller, Refuse(c) \/ RefuseAgain(c) PROVE TypeOK'
  BY <1>7 DEF Refuse, RefuseAgain
<1>8. ASSUME NEW c \in Caller, Reuse(c) \/ RenewBegin(c) PROVE TypeOK'
  BY <1>8 DEF Reuse, RenewBegin
<1>9. ASSUME NEW c \in Caller, Drop(c) PROVE TypeOK'
  BY <1>9 DEF Drop
<1>10. CASE Expire
  <2>1. expiries' \in 0..MaxExpiries
    BY <1>10 DEF Expire
  <2>2. jarAccepted' \in BOOLEAN
    BY <1>10 DEF Expire
  <2> QED
    BY <1>10, <2>1, <2>2 DEF Expire
<1>11. CASE UNCHANGED vars
  BY <1>11 DEF vars
<1> QED
  BY <1>1, <1>2, <1>3, <1>4, <1>5, <1>6, <1>7, <1>8, <1>9, <1>10, <1>11
  DEF Next, CallStep, Idle

LEMMA InvInit == Init => IInv
<1> SUFFICES ASSUME Init PROVE IInv
  OBVIOUS
<1>1. TypeOK
  <2>1. session \in [id : Nat, client : BOOLEAN] /\ jarAccepted \in BOOLEAN
    BY DEF Init
  <2>2. /\ pc \in [Caller -> PC]
        /\ sid \in [Caller -> Nat]
        /\ served \in [Caller -> Nat]
        /\ outcome \in [Caller -> Outcome]
    BY DEF Init, PC, Outcome
  <2>3. renewals \in Nat /\ expiries \in 0..MaxExpiries /\ hollow \in 0..MaxHollow
    BY BoundsAssumption DEF Init
  <2> QED
    BY <2>1, <2>2, <2>3 DEF TypeOK
<1>2. CallInv /\ OneWriter /\ RenewerCurrent
  BY DEF Init, CallInv, OneWriter, RenewerCurrent, LoggingIn
<1>3. RenewalInv
  BY DEF Init, RenewalInv, RenewalDue
<1> QED
  BY <1>1, <1>2, <1>3 DEF IInv

\* A login in vain pays for the renewal that it makes due.
LEMMA OneMore ==
  \A r, e, h, k \in Nat : k = h + 1 /\ r <= e + h => r <= e + k /\ r + 1 <= e + k
  OBVIOUS

LEMMA InvStep == IInv /\ [Next]_vars => IInv'
<1> SUFFICES ASSUME IInv, [Next]_vars PROVE IInv'
  OBVIOUS
<1> DEFINE Goal == CallInv' /\ OneWriter' /\ RenewerCurrent' /\ RenewalInv'
<1>t. TypeOK /\ TypeOK'
  BY TypeStep DEF IInv
<1> USE <1>t DEF IInv, TypeOK, CallInv, OneWriter, RenewerCurrent, LoggingIn, LockFree,
                 Goto, Return, PC
<1>1. ASSUME NEW c \in Caller, Start(c) PROVE Goal
  BY <1>1 DEF Start, RenewalInv, RenewalDue
<1>2. ASSUME NEW c \in Caller, SessionFound(c) PROVE Goal
  BY <1>2 DEF SessionFound, RenewalInv, RenewalDue
<1>3. ASSUME NEW c \in Caller, SessionMissing(c) PROVE Goal
  BY <1>3 DEF SessionMissing, RenewalInv, RenewalDue
<1>4. ASSUME NEW c \in Caller, LoginBegin(c) PROVE Goal
  BY <1>4 DEF LoginBegin, RenewalInv, RenewalDue
<1>5. ASSUME NEW c \in Caller, LoginEnd(c) PROVE Goal
  <2>1. /\ session' = [id |-> session.id + 1, client |-> TRUE]
        /\ session'.id = session.id + 1 /\ session'.client
        /\ \/ jarAccepted' /\ hollow' = hollow
           \/ ~jarAccepted' /\ hollow' = hollow + 1
    BY <1>5 DEF LoginEnd, Granted, NotGranted
  <2>2. CallInv' /\ OneWriter' /\ RenewerCurrent'
    BY <1>5, <2>1 DEF LoginEnd
  <2>3. jarAccepted' => ~RenewalDue'
    BY <1>5, <2>1 DEF LoginEnd, RenewalDue
  <2>4. renewals' <= expiries' + hollow
    BY <1>5 DEF LoginEnd, RenewalInv, RenewalDue
  <2>5. RenewalInv'
    <3>1. hollow' \in Nat /\ hollow \in Nat /\ renewals' \in Nat /\ expiries' \in Nat
      BY <1>t, BoundsAssumption
    <3>2. CASE jarAccepted' /\ hollow' = hollow
      <4>1. renewals' <= expiries' + hollow'
        BY <2>4, <3>2
      <4>2. ~RenewalDue'
        BY <2>3, <3>2
      <4> QED
        BY <4>1, <4>2 DEF RenewalInv
    <3>3. CASE hollow' = hollow + 1
      <4>1. renewals' <= expiries' + hollow' /\ renewals' + 1 <= expiries' + hollow'
        BY ONLY <2>4, <3>1, <3>3, OneMore
      <4> QED
        BY ONLY <4>1 DEF RenewalInv
    <3>4. (jarAccepted' /\ hollow' = hollow) \/ hollow' = hollow + 1
      BY ONLY <2>1
    <3> QED
      BY ONLY <3>2, <3>3, <3>4
  <2> QED
    BY <2>2, <2>5
<1>6. ASSUME NEW c \in Caller, LoginFails(c) PROVE Goal
  BY <1>6 DEF LoginFails, RenewalInv, RenewalDue
<1>7. ASSUME NEW c \in Caller, Serve(c) PROVE Goal
  BY <1>7 DEF Serve, RenewalInv, RenewalDue
<1>8. ASSUME NEW c \in Caller, Answer(c) \/ AnswerLost(c) PROVE Goal
  <2>1. CASE Answer(c)
    BY <2>1 DEF Answer, RenewalInv, RenewalDue
  <2>2. CASE AnswerLost(c)
    BY <2>2 DEF AnswerLost, RenewalInv, RenewalDue
  <2> QED
    BY <1>8, <2>1, <2>2
<1>9. ASSUME NEW c \in Caller, Refuse(c) PROVE Goal
  BY <1>9 DEF Refuse, RenewalInv, RenewalDue
<1>10. ASSUME NEW c \in Caller, RefuseAgain(c) PROVE Goal
  BY <1>10 DEF RefuseAgain, RenewalInv, RenewalDue
<1>11. ASSUME NEW c \in Caller, Reuse(c) PROVE Goal
  BY <1>11 DEF Reuse, RenewalInv, RenewalDue
<1>12. ASSUME NEW c \in Caller, RenewBegin(c) PROVE Goal
  BY <1>12 DEF RenewBegin, RenewalInv, RenewalDue
<1>13. ASSUME NEW c \in Caller, Drop(c) PROVE Goal
  BY <1>13 DEF Drop, RenewalInv, RenewalDue
<1>14. CASE Expire
  BY <1>14, BoundsAssumption DEF Expire, RenewalInv, RenewalDue
<1>15. CASE UNCHANGED vars
  BY <1>15 DEF vars, RenewalInv, RenewalDue
<1> QED
  BY <1>1, <1>2, <1>3, <1>4, <1>5, <1>6, <1>7, <1>8, <1>9, <1>10, <1>11, <1>12, <1>13,
     <1>14, <1>15
  DEF Next, CallStep, Idle

\* Every reachable state satisfies the inductive invariant IInv: the write lock
\* of http.rs has one owner, and a renewal that is still due for the current
\* session has an expiry or a login in vain that no renewal has used yet.
THEOREM Invariance == Spec => []IInv
  BY InvInit, InvStep, PTL DEF Spec

\* Every variable of HttpSession keeps its type.
THEOREM TypeCorrect == Spec => []TypeOK
<1>1. IInv => TypeOK
  BY DEF IInv
<1> QED
  BY <1>1, Invariance, PTL

\* The server carries a call's request out at most once.
THEOREM NoDoubleService == Spec => []ServedOnce
<1>1. IInv => ServedOnce
  BY DEF IInv, CallInv, ServedOnce
<1> QED
  BY <1>1, Invariance, PTL

\* Calls that find the session expired together cause one renewal, not one each.
THEOREM RenewalsBounded == Spec => []RenewedOncePerExpiry
<1>1. IInv => RenewedOncePerExpiry
  BY DEF IInv, RenewalInv, RenewedOncePerExpiry
<1> QED
  BY <1>1, Invariance, PTL

-----------------------------------------------------------------------------

NewerStep == \A c \in Caller : pc[c] # "resend" /\ pc'[c] = "resend" => sid'[c] > sid[c]

\* The second attempt never uses the session the first was refused with.
THEOREM NewerSession == Spec => RetriedWithNewer
<1>1. IInv /\ [Next]_vars => [NewerStep]_vars
  <2> SUFFICES ASSUME IInv, Next,
                      NEW c \in Caller, pc[c] # "resend", pc'[c] = "resend"
               PROVE  sid'[c] > sid[c]
    BY DEF NewerStep
  <2>t. TypeOK /\ sid[c] <= session.id
    BY DEF IInv, CallInv
  <2>1. CASE LoginEnd(c)
    BY <2>1, <2>t DEF LoginEnd, TypeOK
  <2>2. CASE Reuse(c)
    BY <2>2, <2>t DEF Reuse, TypeOK
  <2>3. LoginEnd(c) \/ Reuse(c)
    <3>1. ASSUME NEW d \in Caller, d # c, Start(d) \/ CallStep(d) \/ Drop(d)
          PROVE  FALSE
      BY <2>t, <3>1
      DEF TypeOK, Start, CallStep, Drop, SessionFound, SessionMissing, LoginBegin,
          LoginEnd, LoginFails, Serve, Answer, AnswerLost, Refuse, RefuseAgain, Reuse,
          RenewBegin, Goto, Return
    <3>2. Start(c) \/ CallStep(c) \/ Drop(c)
      BY <3>1 DEF Next, Expire, Idle, vars
    <3> QED
      BY <2>t, <3>2
      DEF TypeOK, Start, CallStep, Drop, SessionFound, SessionMissing, LoginBegin,
          LoginFails, Serve, Answer, AnswerLost, Refuse, RefuseAgain, RenewBegin, Goto,
          Return
  <2> QED
    BY <2>1, <2>2, <2>3
<1> QED
  BY <1>1, Invariance, PTL DEF Spec, RetriedWithNewer, NewerStep

-----------------------------------------------------------------------------
(* HttpSession implements ClientCall. *)

taken == {c \in Caller : served[c] > 0}

ResultOf(o) ==
  CASE o = "none" -> "pending" [] o = "response" -> "ok" [] OTHER -> "error"

result == [c \in Caller |-> ResultOf(outcome[c])]

LEMMA MappedStep ==
  ASSUME IInv, [Next]_vars
  PROVE  [Call!Next]_(Call!vars)
<1> DEFINE Goal == [Call!Next]_(Call!vars)
<1>t. TypeOK /\ CallInv
  BY DEF IInv
<1>1. ASSUME NEW c \in Caller, Serve(c) PROVE Goal
  <2>1. served[c] = 0 /\ outcome[c] = "none"
    BY <1>1, <1>t DEF Serve, Goto, CallInv
  <2>2. served'[c] = 1 /\ \A d \in Caller \ {c} : served'[d] = served[d]
    BY <1>1, <1>t, <2>1 DEF Serve, TypeOK
  <2>3. taken' = taken \cup {c} /\ c \notin taken
    BY <1>t, <2>1, <2>2 DEF taken, TypeOK
  <2>4. result[c] = "pending" /\ result' = result
    BY <1>1, <2>1 DEF Serve, result, ResultOf
  <2>5. Call!Take(c)
    BY <2>3, <2>4 DEF Call!Take, taken, result, ResultOf
  <2> QED
    BY <2>5 DEF Call!Next
<1>2. ASSUME NEW c \in Caller, NEW o \in Outcome \ {"none"},
             pc[c] # "done", outcome' = [outcome EXCEPT ![c] = o], served' = served,
             o = "response" => served[c] = 1
      PROVE  Goal
  <2>1. outcome[c] = "none" /\ result[c] = "pending"
    BY <1>2, <1>t DEF CallInv, result, ResultOf
  <2>2. result' = [result EXCEPT ![c] = ResultOf(o)] /\ taken' = taken
    BY <1>2, <1>t DEF result, TypeOK, taken
  <2>3. CASE o = "response"
    <3>1. c \in taken
      BY <1>2, <2>3 DEF taken
    <3>2. ResultOf(o) = "ok"
      BY <2>3 DEF ResultOf
    <3>3. Call!Succeed(c)
      BY <2>1, <2>2, <3>1, <3>2 DEF Call!Succeed, taken, result, ResultOf
    <3> QED
      BY <3>3 DEF Call!Next
  <2>4. CASE o # "response"
    <3>1. ResultOf(o) = "error"
      BY <1>2, <2>4 DEF ResultOf
    <3>2. Call!Fail(c)
      BY <2>1, <2>2, <3>1 DEF Call!Fail, taken, result, ResultOf
    <3> QED
      BY <3>2 DEF Call!Next
  <2> QED
    BY <2>3, <2>4
<1>3. ASSUME NEW c \in Caller,
             LoginFails(c) \/ Answer(c) \/ AnswerLost(c) \/ RefuseAgain(c) \/ Drop(c)
      PROVE  Goal
  <2>1. PICK o \in Outcome \ {"none"} :
          /\ pc[c] # "done"
          /\ outcome' = [outcome EXCEPT ![c] = o]
          /\ served' = served
          /\ o = "response" => served[c] = 1
    BY <1>3, <1>t
    DEF LoginFails, Answer, AnswerLost, RefuseAgain, Drop, Return, Goto, CallInv, Outcome,
        LoggingIn
  <2> QED
    BY <1>2, <2>1
<1>4. ASSUME UNCHANGED <<served, outcome>> PROVE Goal
  BY <1>4 DEF Call!vars
<1>5. \/ UNCHANGED <<served, outcome>>
      \/ \E c \in Caller : Serve(c)
      \/ \E c \in Caller :
           LoginFails(c) \/ Answer(c) \/ AnswerLost(c) \/ RefuseAgain(c) \/ Drop(c)
  BY DEF Next, vars, Start, CallStep, SessionFound, SessionMissing, LoginBegin, LoginEnd,
      Refuse, Reuse, RenewBegin, Expire, Idle
<1> QED
  BY <1>1, <1>3, <1>4, <1>5

\* Sessions, logins, renewals and repeated requests are invisible to a caller:
\* it sees one request, carried out at most once, that succeeds or fails.
THEOREM Refinement == Spec => ImplementsClientCall
<1>1. Init => Call!Init
  BY DEF Init, Call!Init
<1>2. IInv /\ [Next]_vars => [Call!Next]_(Call!vars)
  BY MappedStep
<1> QED
  BY <1>1, <1>2, Invariance, PTL DEF Spec, ImplementsClientCall, Call!Spec

=============================================================================
