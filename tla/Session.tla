------------------------------- MODULE Session -------------------------------
(***************************************************************************)
(* The cached authentication session of one CarbonioClient                 *)
(* (client/authenticate.rs) and the operations that use it.  Every         *)
(* operation first calls ensure_session, which takes the async mutex,      *)
(* looks at the cached session and lets go of the mutex again; without a   *)
(* usable session it calls login, which takes the mutex once more, looks   *)
(* again, and keeps the mutex while the AuthRequest is on the network.     *)
(*                                                                         *)
(* A token is modelled by what the server knows of it: when it expires,    *)
(* and how often the account's tokens had been revoked when it was issued. *)
(* Tasks switch only where the code awaits.                                *)
(***************************************************************************)
EXTENDS Integers

CONSTANTS
  Task,         \* operations of one client, all on its event loop
  Nobody,       \* holder of a free mutex
  NoSession,    \* the session before the first login
  Lifetime,     \* lifetimes the server gives its tokens
  Margin,       \* EXPIRY_SAFETY_MARGIN
  MaxDelay,     \* longest time a message is under way
  MaxPages,     \* requests an operation sends with the token it was given
  MaxRevoked,   \* bound on the times the server revokes the account's tokens
  MaxTime       \* bound on the clock

ASSUME SessionAssumption ==
  /\ Nobody \notin Task
  /\ MaxTime \in Nat /\ MaxPages \in Nat \ {0}
  /\ MaxDelay \in Nat /\ Margin \in Nat /\ 2 * MaxDelay < Margin
  /\ Lifetime \subseteq Nat
  /\ \A l \in Lifetime : l > 2 * MaxDelay
  /\ MaxRevoked \in Nat
  /\ NoSession \notin [token : [expires : Nat, gen : Nat], expires_at : Nat]

VARIABLES
  now,        \* Instant::now(), and the server's clock
  pc,         \* where each operation is
  holder,     \* who holds the session mutex
  session,    \* the cached session: token and local expiry
  token,      \* the token each operation works with
  life,       \* the lifetime given with it
  since,      \* when the message an operation waits for was sent
  pages,      \* requests sent with the token
  refused,    \* operations under way the server refused for their token
  revoked     \* how often the server revoked the tokens issued so far

vars == <<now, pc, holder, session, token, life, since, pages, refused, revoked>>

\* idle -> ensure -> [login -> authSent -> authAnswered ->] sending -> waiting
PC == {"idle", "ensure", "login", "authSent", "authAnswered", "sending", "waiting"}
Holding == {"authSent", "authAnswered"}

Token == [expires : Nat, gen : Nat]
NoToken == [expires |-> 0, gen |-> 0]

TypeOK ==
  /\ now \in Nat
  /\ pc \in [Task -> PC]
  /\ holder \in Task \cup {Nobody}
  /\ session \in [token : Token, expires_at : Nat] \cup {NoSession}
  /\ token \in [Task -> Token]
  /\ life \in [Task -> Nat]
  /\ since \in [Task -> Nat]
  /\ pages \in [Task -> Nat]
  /\ refused \subseteq Task
  /\ revoked \in Nat

-----------------------------------------------------------------------------

Goto(t, l) == pc' = [pc EXCEPT ![t] = l]

\* Broken variant: an expired session is as good as any.
AnySession == session # NoSession

HasSession == session # NoSession /\ now < session.expires_at

\* Return the cached token: the operation sends its request right away.
UseCached(t) ==
  /\ token' = [token EXCEPT ![t] = session.token]
  /\ since' = [since EXCEPT ![t] = now]
  /\ Goto(t, "sending")
  /\ UNCHANGED <<life, pages>>

\* An operation is called: it asks for a token.
AuthToken(t) ==
  /\ pc[t] = "idle"
  /\ Goto(t, "ensure")
  /\ UNCHANGED <<now, holder, session, token, life, since, pages, refused, revoked>>

\* The first look at the cache; the mutex is free again when it ends.
EnsureSession(t) ==
  /\ pc[t] = "ensure"
  /\ holder = Nobody
  /\ \/ HasSession /\ UseCached(t)
     \/ ~HasSession /\ Goto(t, "login") /\ UNCHANGED <<token, life, since, pages>>
  /\ UNCHANGED <<now, holder, session, refused, revoked>>

\* Broken variant: the guard is dropped before the request is awaited.
LoginUnlocked(t) ==
  /\ pc[t] = "login"
  /\ holder = Nobody
  /\ \/ HasSession /\ UseCached(t)
     \/ ~HasSession /\ Goto(t, "authSent") /\ UNCHANGED <<token, life, since, pages>>
  /\ UNCHANGED <<now, holder, session, refused, revoked>>

\* Broken variant: login trusts the first look.
LoginUnchecked(t) ==
  /\ pc[t] = "login"
  /\ holder = Nobody
  /\ holder' = t
  /\ Goto(t, "authSent")
  /\ UNCHANGED <<now, session, token, life, since, pages, refused, revoked>>

\* The second look, then the AuthRequest goes out under the mutex.
Login(t) ==
  /\ pc[t] = "login"
  /\ holder = Nobody
  /\ \/ HasSession /\ UseCached(t) /\ UNCHANGED holder
     \/ /\ ~HasSession
        /\ holder' = t
        /\ Goto(t, "authSent")
        /\ UNCHANGED <<token, life, since, pages>>
  /\ UNCHANGED <<now, session, refused, revoked>>

\* The server issues a token; its lifetime starts here, not when the answer
\* arrives.
ServerIssues(t) ==
  /\ pc[t] = "authSent"
  /\ \E l \in Lifetime :
       /\ token' = [token EXCEPT ![t] = [expires |-> now + l, gen |-> revoked]]
       /\ life' = [life EXCEPT ![t] = l]
  /\ since' = [since EXCEPT ![t] = now]
  /\ Goto(t, "authAnswered")
  /\ UNCHANGED <<now, holder, session, pages, refused, revoked>>

\* Broken variant: a lifetime below the margin makes a negative one.
PlainSub(x, y) == x - y

SaturatingSub(x, y) == IF x < y THEN 0 ELSE x - y

\* Broken variant: the token is cached for its whole lifetime.
LoginSucceedsNoMargin(t) ==
  /\ pc[t] = "authAnswered"
  /\ session' = [token |-> token[t], expires_at |-> now + life[t]]
  /\ holder' = Nobody
  /\ life' = [life EXCEPT ![t] = 0]
  /\ since' = [since EXCEPT ![t] = now]
  /\ Goto(t, "sending")
  /\ UNCHANGED <<now, token, pages, refused, revoked>>

LoginSucceeds(t) ==
  /\ pc[t] = "authAnswered"
  /\ session' = [token |-> token[t],
                 expires_at |-> now + SaturatingSub(life[t], Margin)]
  /\ holder' = Nobody
  /\ life' = [life EXCEPT ![t] = 0]
  /\ since' = [since EXCEPT ![t] = now]
  /\ Goto(t, "sending")
  /\ UNCHANGED <<now, token, pages, refused, revoked>>

\* The operation returns, and its local variables are gone.
Return(t) ==
  /\ Goto(t, "idle")
  /\ token' = [token EXCEPT ![t] = NoToken]
  /\ life' = [life EXCEPT ![t] = 0]
  /\ since' = [since EXCEPT ![t] = 0]
  /\ pages' = [pages EXCEPT ![t] = 0]
  /\ refused' = refused \ {t}

\* Broken variant: an early return forgets the mutex.
LoginFailsLocked(t) ==
  /\ pc[t] \in Holding
  /\ Return(t)
  /\ UNCHANGED <<now, holder, session, revoked>>

\* Network error, fault, or an answer without a token: the guard is dropped,
\* the operation fails, and the old session stays in place.
LoginFails(t) ==
  /\ pc[t] \in Holding
  /\ holder' = Nobody
  /\ Return(t)
  /\ UNCHANGED <<now, session, revoked>>

\* The operation's request reaches the server, which looks at the token.
RequestArrives(t) ==
  /\ pc[t] = "sending"
  /\ refused' = IF now < token[t].expires /\ token[t].gen = revoked
                  THEN refused ELSE refused \cup {t}
  /\ pages' = [pages EXCEPT ![t] = @ + 1]
  /\ since' = [since EXCEPT ![t] = 0]
  /\ Goto(t, "waiting")
  /\ UNCHANGED <<now, holder, session, token, life, revoked>>

\* sync_messages_for_folder asks for its next page with the token it has.
NextPage(t) ==
  /\ pc[t] = "waiting"
  /\ t \notin refused
  /\ pages[t] < MaxPages
  /\ since' = [since EXCEPT ![t] = now]
  /\ Goto(t, "sending")
  /\ UNCHANGED <<now, holder, session, token, life, pages, refused, revoked>>

\* Broken variant: using a session prolongs it.
FinishRenews(t) ==
  /\ pc[t] \in {"sending", "waiting"}
  /\ Return(t)
  /\ session' = IF HasSession THEN [session EXCEPT !.expires_at = now + Margin]
                              ELSE session
  /\ UNCHANGED <<now, holder, revoked>>

\* The last answer, a fault or a network error: the operation is over, and
\* whatever it was, a refused token included, the cached session stays as it is.
Finish(t) ==
  /\ pc[t] \in {"sending", "waiting"}
  /\ Return(t)
  /\ UNCHANGED <<now, holder, session, revoked>>

\* The server revokes the tokens it gave this account, after a change of the
\* password or by hand of an administrator.
Revoke ==
  /\ revoked < MaxRevoked
  /\ revoked' = revoked + 1
  /\ UNCHANGED <<now, pc, holder, session, token, life, since, pages, refused>>

\* Time passes, but a message is never under way longer than MaxDelay.
Tick ==
  /\ now < MaxTime
  /\ \A t \in Task : pc[t] \in {"authAnswered", "sending"} => now - since[t] < MaxDelay
  /\ now' = now + 1
  /\ UNCHANGED <<pc, holder, session, token, life, since, pages, refused, revoked>>

-----------------------------------------------------------------------------

Init ==
  /\ now = 0
  /\ pc = [t \in Task |-> "idle"]
  /\ holder = Nobody
  /\ session = NoSession
  /\ token = [t \in Task |-> NoToken]
  /\ life = [t \in Task |-> 0]
  /\ since = [t \in Task |-> 0]
  /\ pages = [t \in Task |-> 0]
  /\ refused = {}
  /\ revoked = 0

TaskNext(t) ==
  \/ AuthToken(t) \/ EnsureSession(t) \/ Login(t)
  \/ ServerIssues(t) \/ LoginSucceeds(t) \/ LoginFails(t)
  \/ RequestArrives(t) \/ NextPage(t) \/ Finish(t)

Next == Tick \/ Revoke \/ \E t \in Task : TaskNext(t)

Spec == Init /\ [][Next]_vars

\* The event loop polls every task that can go on, every request ends with an
\* answer or an error, and async_lock's mutex starves no waiter for ever.
Fairness ==
  \A t \in Task : /\ SF_vars(EnsureSession(t)) /\ SF_vars(Login(t))
                  /\ WF_vars(LoginSucceeds(t) \/ LoginFails(t))
                  /\ WF_vars(Finish(t) \/ RequestArrives(t) \/ NextPage(t))

FairSpec == Spec /\ Fairness

-----------------------------------------------------------------------------
(* Properties *)

\* The mutex does its work across the await: at most one AuthRequest is on the
\* network (login keeps the guard while it sends).
SingleLogin ==
  \A t, u \in Task : pc[t] \in Holding /\ pc[u] \in Holding => t = u

\* No AuthRequest goes out, or is on the network, while there is a usable
\* session (login's "re-check before making a redundant network request").
NoRedundantLogin ==
  \A t \in Task : pc[t] \in Holding => ~HasSession

\* What the cache holds to be usable still is usable for a request that leaves
\* now: the margin makes up for the time the login's answer was under way.
CachedTokenGood ==
  HasSession => now + MaxDelay < session.token.expires

Revoked(k) == k.gen < revoked

\* No operation finds out by its first request that its token is too old, no
\* matter how long it waited for the mutex before it got the token: what the
\* server refuses is a token it revoked, or a further request with the same
\* token (sync_messages_for_folder asks for one token for all of its pages).
FirstAccepted ==
  \A t \in refused : pc[t] = "waiting" /\ (pages[t] > 1 \/ Revoked(token[t]))

\* How long a token that the server no longer takes can hurt: no fault drops a
\* session that is usable by its local expiry (Finish), but nothing prolongs or
\* replaces it either, so all operations that find it fail until just then.
UsableKept == [][HasSession => session' = session]_vars

\* "proactively re-authenticates slightly before the token actually expires
\* rather than finding out via a failed request" (EXPIRY_SAFETY_MARGIN).  Held
\* by operations of one request; an operation that pages can be refused.
NeverRefused == refused = {}

(* Why these hold: the mutex tells who is logging in; a cached token       *)
(* outlives its local expiry by more than a message takes; and the token   *)
(* under way to its operation, or with it to the server, is young enough.  *)

MutexHeld == \A t \in Task : pc[t] \in Holding <=> holder = t

CacheMargin ==
  session # NoSession => session.expires_at + MaxDelay <= session.token.expires

AnswerYoung ==
  \A t \in Task : pc[t] = "authAnswered" =>
    /\ life[t] \in Lifetime
    /\ token[t].expires = since[t] + life[t]
    /\ since[t] <= now /\ now <= since[t] + MaxDelay

RequestYoung ==
  \A t \in Task :
    /\ pc[t] = "sending" => since[t] <= now /\ now <= since[t] + MaxDelay
    /\ pc[t] = "sending" /\ pages[t] = 0 => since[t] + MaxDelay < token[t].expires
    /\ pc[t] = "waiting" => pages[t] > 0
    /\ pc[t] \notin {"sending", "waiting"} => pages[t] = 0

GenerationsOK ==
  /\ \A t \in Task : token[t].gen <= revoked
  /\ session # NoSession => session.token.gen <= revoked

SessionInv ==
  MutexHeld /\ NoRedundantLogin /\ CacheMargin
  /\ AnswerYoung /\ RequestYoung /\ GenerationsOK /\ FirstAccepted

\* Every operation ends, the ones behind failing logins included.
OperationsEnd == \A t \in Task : pc[t] # "idle" ~> pc[t] = "idle"

=============================================================================
