---------------------------- MODULE SessionProofs ----------------------------
(***************************************************************************)
(* Proofs about module Session: for any set of operations, any lifetimes   *)
(* and any margin of more than two message delays, one login at a time, no *)
(* needless login, and no token that dies on its way to the server.        *)
(***************************************************************************)
EXTENDS Session, TLAPS

USE SessionAssumption

\* The token of a usable session is one the server issued.
LEMMA UsableToken ==
  ASSUME TypeOK, HasSession
  PROVE  session.token \in Token
BY DEF TypeOK, HasSession

\* The type invariant of Session.tla.
THEOREM TypeCorrect == Spec => []TypeOK
<1>1. Init => TypeOK
  BY DEF Init, TypeOK, PC, Token, NoToken
<1>2. TypeOK /\ [Next]_vars => TypeOK'
  <2> SUFFICES ASSUME TypeOK, [Next]_vars PROVE TypeOK'
    OBVIOUS
  <2> USE DEF TypeOK, PC, Goto
  <2>0. NoToken \in Token
    BY DEF NoToken, Token
  <2>1. CASE Tick
    BY <2>1 DEF Tick
  <2>2. ASSUME NEW t \in Task, AuthToken(t) PROVE TypeOK'
    BY <2>2 DEF AuthToken
  <2>3. ASSUME NEW t \in Task, EnsureSession(t) PROVE TypeOK'
    <3>1. CASE HasSession
      BY <2>3, <3>1, UsableToken DEF EnsureSession, UseCached
    <3>2. CASE ~HasSession
      BY <2>3, <3>2 DEF EnsureSession
    <3> QED BY <3>1, <3>2
  <2>4. ASSUME NEW t \in Task, Login(t) PROVE TypeOK'
    <3>1. CASE HasSession
      BY <2>4, <3>1, UsableToken DEF Login, UseCached
    <3>2. CASE ~HasSession
      BY <2>4, <3>2 DEF Login
    <3> QED BY <3>1, <3>2
  <2>5. ASSUME NEW t \in Task, ServerIssues(t) PROVE TypeOK'
    BY <2>5 DEF ServerIssues, Token
  <2>6. ASSUME NEW t \in Task, LoginSucceeds(t) PROVE TypeOK'
    <3>1. now + SaturatingSub(life[t], Margin) \in Nat
      BY DEF SaturatingSub
    <3> QED BY <2>6, <3>1 DEF LoginSucceeds
  <2>7. ASSUME NEW t \in Task, LoginFails(t) PROVE TypeOK'
    BY <2>0, <2>7 DEF LoginFails, Return
  <2>8. ASSUME NEW t \in Task, RequestArrives(t) PROVE TypeOK'
    BY <2>8 DEF RequestArrives
  <2>9. ASSUME NEW t \in Task, NextPage(t) PROVE TypeOK'
    BY <2>9 DEF NextPage
  <2>10. ASSUME NEW t \in Task, Finish(t) PROVE TypeOK'
    BY <2>0, <2>10 DEF Finish, Return
  <2>11. CASE Revoke
    BY <2>11 DEF Revoke
  <2>12. CASE UNCHANGED vars
    BY <2>12 DEF vars
  <2> QED
    BY <2>1, <2>2, <2>3, <2>4, <2>5, <2>6, <2>7, <2>8, <2>9, <2>10, <2>11, <2>12
    DEF Next, TaskNext
<1> QED BY <1>1, <1>2, PTL DEF Spec

\* As long as the cached session stays, time can only make it unusable.
LEMMA SessionAges ==
  ASSUME TypeOK, TypeOK', session' = session, now' >= now, ~HasSession
  PROVE  ~HasSession'
BY DEF TypeOK, HasSession

\* What the cache holds to be usable lives longer than a message takes.
LEMMA UsableIsGood ==
  ASSUME TypeOK, CacheMargin, HasSession
  PROVE  now + MaxDelay < session.token.expires
BY DEF TypeOK, Token, CacheMargin, HasSession

\* A token that just came is cached, and sent, with time to spare.
LEMMA FreshIsGood ==
  ASSUME TypeOK, AnswerYoung, NEW t \in Task, pc[t] = "authAnswered"
  PROVE  /\ now + MaxDelay < token[t].expires
         /\ now + SaturatingSub(life[t], Margin) + MaxDelay <= token[t].expires
<1>1. /\ token[t].expires = since[t] + life[t]
      /\ life[t] > 2 * MaxDelay /\ now <= since[t] + MaxDelay
  BY DEF AnswerYoung
<1>2. now \in Nat /\ since[t] \in Nat /\ life[t] \in Nat
  BY DEF TypeOK
<1> QED BY <1>1, <1>2 DEF SaturatingSub

LEMMA InvInit == Init => SessionInv
BY DEF Init, SessionInv, MutexHeld, NoRedundantLogin, CacheMargin, AnswerYoung,
       RequestYoung, GenerationsOK, FirstAccepted, Holding, NoToken

\* The mutex, and with it who logs in.
LEMMA MutexNext ==
  ASSUME TypeOK, TypeOK', SessionInv, [Next]_vars
  PROVE  MutexHeld' /\ NoRedundantLogin'
<1> USE DEF SessionInv, Goto, Holding
<1>1. TypeOK /\ TypeOK'
  OBVIOUS
<1>2. ASSUME session' = session, now' >= now, ~HasSession PROVE ~HasSession'
  BY <1>1, <1>2, SessionAges
<1>3. now \in Nat /\ now >= now
  BY DEF TypeOK
<1>4. CASE Tick \/ Revoke
  <2>1. now' >= now /\ session' = session /\ pc' = pc /\ holder' = holder
    BY <1>3, <1>4 DEF Tick, Revoke
  <2> QED BY <2>1, <1>2 DEF MutexHeld, NoRedundantLogin
<1>5. ASSUME NEW t \in Task, AuthToken(t) PROVE MutexHeld' /\ NoRedundantLogin'
  BY <1>5, <1>2, <1>3 DEF AuthToken, MutexHeld, NoRedundantLogin, TypeOK, PC
<1>6. ASSUME NEW t \in Task, EnsureSession(t) PROVE MutexHeld' /\ NoRedundantLogin'
  BY <1>6, <1>2, <1>3
  DEF EnsureSession, UseCached, MutexHeld, NoRedundantLogin, TypeOK, PC
<1>7. ASSUME NEW t \in Task, Login(t) PROVE MutexHeld' /\ NoRedundantLogin'
  BY <1>7, <1>2, <1>3
  DEF Login, UseCached, MutexHeld, NoRedundantLogin, TypeOK, PC
<1>8. ASSUME NEW t \in Task, ServerIssues(t) PROVE MutexHeld' /\ NoRedundantLogin'
  BY <1>8, <1>2, <1>3 DEF ServerIssues, MutexHeld, NoRedundantLogin, TypeOK, PC
<1>9. ASSUME NEW t \in Task, LoginSucceeds(t) PROVE MutexHeld' /\ NoRedundantLogin'
  BY <1>9 DEF LoginSucceeds, MutexHeld, NoRedundantLogin, TypeOK, PC
<1>10. ASSUME NEW t \in Task, LoginFails(t) PROVE MutexHeld' /\ NoRedundantLogin'
  BY <1>10 DEF LoginFails, Return, MutexHeld, NoRedundantLogin, TypeOK, PC
<1>11. ASSUME NEW t \in Task, RequestArrives(t) PROVE MutexHeld' /\ NoRedundantLogin'
  BY <1>11, <1>2, <1>3 DEF RequestArrives, MutexHeld, NoRedundantLogin, TypeOK, PC
<1>12. ASSUME NEW t \in Task, NextPage(t) PROVE MutexHeld' /\ NoRedundantLogin'
  BY <1>12, <1>2, <1>3 DEF NextPage, MutexHeld, NoRedundantLogin, TypeOK, PC
<1>13. ASSUME NEW t \in Task, Finish(t) PROVE MutexHeld' /\ NoRedundantLogin'
  BY <1>13, <1>2, <1>3 DEF Finish, Return, MutexHeld, NoRedundantLogin, TypeOK, PC
<1>14. CASE UNCHANGED vars
  BY <1>14 DEF vars, MutexHeld, NoRedundantLogin, HasSession
<1> QED
  BY <1>4, <1>5, <1>6, <1>7, <1>8, <1>9, <1>10, <1>11, <1>12, <1>13, <1>14
  DEF Next, TaskNext

\* The times, and with them what the server refuses.
LEMMA TimesNext ==
  ASSUME TypeOK, TypeOK', SessionInv, [Next]_vars
  PROVE  CacheMargin' /\ AnswerYoung' /\ RequestYoung' /\ GenerationsOK' /\ FirstAccepted'
<1> DEFINE Times == /\ CacheMargin /\ AnswerYoung /\ RequestYoung
                  /\ GenerationsOK /\ FirstAccepted
<1> USE DEF SessionInv, Goto, Token, NoToken, Revoked
<1>1. Times /\ TypeOK
  OBVIOUS
<1>2. SUFFICES Times'
  OBVIOUS
<1>3. CASE Tick
  BY <1>3 DEF Tick, CacheMargin, AnswerYoung, RequestYoung, GenerationsOK,
      FirstAccepted, TypeOK
<1>4. ASSUME NEW t \in Task, AuthToken(t) PROVE Times'
  BY <1>4 DEF AuthToken, CacheMargin, AnswerYoung, RequestYoung, GenerationsOK,
      FirstAccepted, TypeOK
<1>5. ASSUME NEW t \in Task, pc[t] \in {"ensure", "login"}, HasSession,
             UseCached(t), UNCHANGED <<now, session, refused, revoked>>
      PROVE  Times'
  <2>1. now + MaxDelay < session.token.expires
    BY <1>5, UsableIsGood
  <2>2. session.token.gen <= revoked /\ session.token \in Token
    BY <1>5, UsableToken DEF GenerationsOK, HasSession
  <2>3. t \notin refused
    BY <1>5 DEF FirstAccepted
  <2>4. revoked' = revoked
    BY <1>5
  <2>5. CacheMargin'
    BY <1>5 DEF CacheMargin, UseCached
  <2>6. AnswerYoung'
    BY <1>5 DEF AnswerYoung, UseCached, TypeOK
  <2>7. RequestYoung'
    BY <1>5, <2>1, <2>2 DEF RequestYoung, UseCached, TypeOK
  <2>8. GenerationsOK'
    BY <1>5, <2>2, <2>4 DEF GenerationsOK, UseCached, TypeOK
  <2>9. FirstAccepted'
    BY <1>5, <2>3, <2>4 DEF FirstAccepted, UseCached, TypeOK
  <2> QED BY <2>5, <2>6, <2>7, <2>8, <2>9
<1>6. ASSUME NEW t \in Task, EnsureSession(t) PROVE Times'
  <2>1. CASE HasSession
    BY <1>5, <1>6, <2>1 DEF EnsureSession
  <2>2. CASE ~HasSession
    BY <1>6, <2>2
    DEF EnsureSession, CacheMargin, AnswerYoung, RequestYoung, GenerationsOK,
      FirstAccepted, TypeOK
  <2> QED BY <2>1, <2>2
<1>7. ASSUME NEW t \in Task, Login(t) PROVE Times'
  <2>1. CASE HasSession
    BY <1>5, <1>7, <2>1 DEF Login
  <2>2. CASE ~HasSession
    BY <1>7, <2>2
    DEF Login, CacheMargin, AnswerYoung, RequestYoung, GenerationsOK,
      FirstAccepted, TypeOK
  <2> QED BY <2>1, <2>2
<1>8. ASSUME NEW t \in Task, ServerIssues(t) PROVE Times'
  BY <1>8
  DEF ServerIssues, CacheMargin, AnswerYoung, RequestYoung, GenerationsOK,
      FirstAccepted, TypeOK
<1>9. ASSUME NEW t \in Task, LoginSucceeds(t) PROVE Times'
  <2>1. /\ now + MaxDelay < token[t].expires
        /\ now + SaturatingSub(life[t], Margin) + MaxDelay <= token[t].expires
    BY <1>9, FreshIsGood DEF LoginSucceeds
  <2>2. session'.token = token[t]
        /\ session'.expires_at = now + SaturatingSub(life[t], Margin)
    BY <1>9 DEF LoginSucceeds
  <2>3. CacheMargin'
    BY <2>1, <2>2 DEF CacheMargin
  <2>4. AnswerYoung' /\ RequestYoung' /\ GenerationsOK' /\ FirstAccepted'
    BY <1>9, <2>1 DEF LoginSucceeds, AnswerYoung, RequestYoung, GenerationsOK,
      FirstAccepted, TypeOK
  <2> QED BY <2>3, <2>4
<1>10. ASSUME NEW t \in Task, LoginFails(t) PROVE Times'
  BY <1>10
  DEF LoginFails, Return, CacheMargin, AnswerYoung, RequestYoung, GenerationsOK,
      FirstAccepted, TypeOK
<1>11. ASSUME NEW t \in Task, RequestArrives(t) PROVE Times'
  <2>1. pages[t] = 0 /\ ~Revoked(token[t]) => refused' = refused
    BY <1>11 DEF RequestArrives, RequestYoung, GenerationsOK, TypeOK
  <2>2. t \notin refused
    BY <1>11 DEF RequestArrives, FirstAccepted
  <2>3. FirstAccepted'
    <3> SUFFICES ASSUME NEW u \in refused'
                 PROVE  pc'[u] = "waiting" /\ (pages'[u] > 1 \/ token'[u].gen < revoked')
      BY DEF FirstAccepted
    <3>1. CASE u = t
      <4>1. pages[t] # 0 \/ token[t].gen < revoked
        BY <2>1, <2>2, <3>1
      <4> QED BY <1>11, <3>1, <4>1 DEF RequestArrives, TypeOK
    <3>2. CASE u # t
      <4>1. u \in refused
        BY <1>11, <3>2 DEF RequestArrives
      <4> QED BY <1>11, <3>2, <4>1 DEF RequestArrives, FirstAccepted, TypeOK
    <3> QED BY <3>1, <3>2
  <2>4. CacheMargin' /\ AnswerYoung' /\ RequestYoung' /\ GenerationsOK'
    BY <1>11
    DEF RequestArrives, CacheMargin, AnswerYoung, RequestYoung, GenerationsOK, TypeOK
  <2> QED BY <2>3, <2>4
<1>12. ASSUME NEW t \in Task, NextPage(t) PROVE Times'
  BY <1>12
  DEF NextPage, CacheMargin, AnswerYoung, RequestYoung, GenerationsOK,
      FirstAccepted, TypeOK
<1>13. ASSUME NEW t \in Task, Finish(t) PROVE Times'
  BY <1>13
  DEF Finish, Return, CacheMargin, AnswerYoung, RequestYoung, GenerationsOK,
      FirstAccepted, TypeOK
<1>14. CASE Revoke
  BY <1>14 DEF Revoke, CacheMargin, AnswerYoung, RequestYoung, GenerationsOK,
      FirstAccepted, TypeOK
<1>15. CASE UNCHANGED vars
  BY <1>15 DEF vars, CacheMargin, AnswerYoung, RequestYoung, GenerationsOK, FirstAccepted
<1> QED
  BY <1>3, <1>4, <1>6, <1>7, <1>8, <1>9, <1>10, <1>11, <1>12, <1>13, <1>14, <1>15
  DEF Next, TaskNext

\* The invariant of Session.tla that everything below follows from.
THEOREM InvCorrect == Spec => [](TypeOK /\ SessionInv)
<1>1. SessionInv /\ TypeOK /\ TypeOK' /\ [Next]_vars => SessionInv'
  BY MutexNext, TimesNext DEF SessionInv
<1> QED BY <1>1, InvInit, TypeCorrect, PTL DEF Spec

\* At most one AuthRequest of the client is on the network (login).
THEOREM OneLoginAtATime == Spec => []SingleLogin
<1>1. SessionInv => SingleLogin
  BY DEF SessionInv, MutexHeld, SingleLogin
<1> QED BY <1>1, InvCorrect, PTL

\* Nobody logs in while a usable session is cached (login's second look).
THEOREM LoginNeeded == Spec => []NoRedundantLogin
<1>1. SessionInv => NoRedundantLogin
  BY DEF SessionInv
<1> QED BY <1>1, InvCorrect, PTL

\* What ensure_session returns from the cache is good for a request sent now.
THEOREM CacheGood == Spec => []CachedTokenGood
<1>1. TypeOK /\ SessionInv => CachedTokenGood
  BY UsableIsGood DEF SessionInv, CachedTokenGood
<1> QED BY <1>1, InvCorrect, PTL

\* A usable session is neither replaced nor prolonged (login, Finish).
THEOREM UsableSessionKept == Spec => UsableKept
<1>1. SessionInv /\ [Next]_vars => [HasSession => session' = session]_vars
  BY DEF SessionInv, MutexHeld, NoRedundantLogin, Holding, Next, TaskNext, Tick,
         Revoke, AuthToken, EnsureSession, UseCached, Login, ServerIssues,
         LoginSucceeds, LoginFails, RequestArrives, NextPage, Finish, vars
<1> QED BY <1>1, InvCorrect, PTL DEF Spec, UsableKept

\* No operation learns from its first request that its token is too old.
THEOREM FirstRequestAccepted == Spec => []FirstAccepted
<1>1. SessionInv => FirstAccepted
  BY DEF SessionInv
<1> QED BY <1>1, InvCorrect, PTL

\* An operation of one request per token is never refused as long as the server
\* revokes no tokens, which is what EXPIRY_SAFETY_MARGIN is for.
THEOREM OneRequestNeverRefused ==
  ASSUME MaxPages = 1, MaxRevoked = 0 PROVE Spec => []NeverRefused
<1> DEFINE OnePage ==
      /\ \A t \in Task : pages[t] <= 1 /\ (pc[t] = "sending" => pages[t] = 0)
      /\ revoked = 0
<1>1. Init => OnePage
  <2> SUFFICES ASSUME Init, NEW t \in Task
               PROVE  pages[t] <= 1 /\ pc[t] # "sending"
    BY DEF Init
  <2>1. pages[t] = 0 /\ pc[t] = "idle"
    BY DEF Init
  <2> QED BY <2>1
<1>2. TypeOK /\ SessionInv /\ OnePage /\ [Next]_vars => OnePage'
  <2> SUFFICES ASSUME TypeOK, SessionInv, OnePage, [Next]_vars PROVE OnePage'
    OBVIOUS
  <2> USE DEF TypeOK, Goto
  <2>1. ASSUME NEW t \in Task PROVE ~NextPage(t)
    BY DEF NextPage, SessionInv, RequestYoung
  <2>2. ASSUME NEW t \in Task, RequestArrives(t) PROVE OnePage'
    BY <2>2 DEF RequestArrives
  <2>3. ASSUME NEW t \in Task,
               EnsureSession(t) \/ Login(t) \/ LoginSucceeds(t) PROVE OnePage'
    BY <2>3
    DEF EnsureSession, Login, LoginSucceeds, UseCached, SessionInv, RequestYoung
  <2>4. ASSUME NEW t \in Task,
               AuthToken(t) \/ ServerIssues(t) \/ LoginFails(t) \/ Finish(t)
        PROVE  OnePage'
    BY <2>4 DEF AuthToken, ServerIssues, LoginFails, Finish, Return
  <2>5. CASE Tick \/ Revoke \/ UNCHANGED vars
    BY <2>5 DEF Tick, Revoke, vars
  <2> QED
    BY <2>1, <2>2, <2>3, <2>4, <2>5 DEF Next, TaskNext
<1>3. TypeOK /\ SessionInv /\ OnePage => NeverRefused
  BY DEF TypeOK, Token, SessionInv, FirstAccepted, NeverRefused, Revoked, GenerationsOK
<1> QED BY <1>1, <1>2, <1>3, InvCorrect, PTL DEF Spec

=============================================================================
