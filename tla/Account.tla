------------------------------- MODULE Account -------------------------------
(***************************************************************************)
(* The server object of one account (CarbonioIncomingServer) and the       *)
(* client it keeps.  Every request first calls GetProtocolClient, which    *)
(* makes the client if there is none yet.  Making one may ask for the      *)
(* password: the dialog is modal, and the nested event loop it runs lets   *)
(* other requests and the callbacks of earlier ones through.  The calls    *)
(* that wait for a dialog are frames of one stack, so only the innermost   *)
(* one can return.                                                         *)
(*                                                                         *)
(* GetNewMessages and SyncFolderHierarchy then synchronise the folders     *)
(* (module FolderSync) and continue with a follow-up.  A client is named   *)
(* by the request that made it.                                            *)
(***************************************************************************)
EXTENDS Naturals, Sequences

CONSTANTS
  Request,  \* bound on the requests, hence on the clients
  None      \* no client

ASSUME AccountAssumption == None \notin Request

VARIABLES
  kind,      \* what each request asks for
  pc,        \* where it is
  client,    \* the client GetProtocolClient gave it
  followUps, \* how often its post-sync callback ran
  lister,    \* the client its follow-up asks for messages
  mClient,   \* the client the server object keeps
  ready,     \* the clients that are initialized
  shut,      \* the clients told to shut down
  prompts,   \* the requests that wait for a dialog, the innermost last
  password,  \* is the account's password known?
  nested     \* history: was a client made while another was being made?

vars == <<kind, pc, client, followUps, lister,
          mClient, ready, shut, prompts, password, nested>>
clientVars == <<mClient, ready, password, nested>>
resultVars == <<followUps, lister>>

\* GetNewMessages, SyncFolderHierarchy, and those that need just the client:
\* VerifyLogon, SyncMessages of one folder, opening a message.
Kind == {"newMessages", "hierarchy", "clientOnly"}
PC == {"idle", "prompting", "working", "done", "refused"}

Syncs(r) == kind[r] \in {"newMessages", "hierarchy"}

TypeOK ==
  /\ kind \in [Request -> Kind]
  /\ pc \in [Request -> PC]
  /\ client \in [Request -> Request \cup {None}]
  /\ followUps \in [Request -> 0..1]
  /\ lister \in [Request -> Request \cup {None}]
  /\ mClient \in Request \cup {None}
  /\ ready \subseteq Request
  /\ shut \subseteq Request
  /\ prompts \in Seq(Request)
  /\ password \in BOOLEAN
  /\ nested \in BOOLEAN

-----------------------------------------------------------------------------
(* GetProtocolClient *)

\* The request starts its operation with client c.
Work(r, c) ==
  /\ client' = [client EXCEPT ![r] = c]
  /\ pc' = [pc EXCEPT ![r] = "working"]

ReuseClient(r) ==
  /\ mClient # None
  /\ Work(r, mClient)
  /\ UNCHANGED <<clientVars, prompts>>

\* Broken variant: the new client is not kept.
InitializedNotKept(r) ==
  /\ ready' = ready \cup {r}
  /\ Work(r, r)
  /\ UNCHANGED mClient

\* Initialize succeeded: the new client takes the place of whatever is there.
Initialized(r) ==
  /\ ready' = ready \cup {r}
  /\ mClient' = r
  /\ Work(r, r)

CreateClient(r) ==
  /\ mClient = None
  /\ password
  /\ Initialized(r)
  /\ nested' = (nested \/ prompts # <<>>)
  /\ UNCHANGED <<password, prompts>>

\* Broken variant: the client is kept before it is initialized.
PromptForPasswordKept(r) ==
  /\ mClient = None
  /\ ~password
  /\ mClient' = r
  /\ prompts' = Append(prompts, r)
  /\ pc' = [pc EXCEPT ![r] = "prompting"]
  /\ nested' = (nested \/ prompts # <<>>)
  /\ UNCHANGED <<client, ready, password>>

\* Initialize calls GetPasswordWithUI, which does not return yet.
PromptForPassword(r) ==
  /\ mClient = None
  /\ ~password
  /\ prompts' = Append(prompts, r)
  /\ pc' = [pc EXCEPT ![r] = "prompting"]
  /\ nested' = (nested \/ prompts # <<>>)
  /\ UNCHANGED <<client, mClient, ready, password>>

\* No instance, no endpoint, or one that does not parse.
Refused(r) ==
  /\ mClient = None
  /\ pc' = [pc EXCEPT ![r] = "refused"]
  /\ UNCHANGED <<client, clientVars, prompts>>

\* A request is made, from the event loop or from a nested one.
GetProtocolClient(r) ==
  /\ pc[r] = "idle"
  /\ \E k \in Kind : kind' = [kind EXCEPT ![r] = k]
  /\ \/ ReuseClient(r) \/ CreateClient(r) \/ PromptForPassword(r) \/ Refused(r)
  /\ UNCHANGED <<resultVars, shut>>

Innermost(r) == prompts # <<>> /\ prompts[Len(prompts)] = r

Unwind == prompts' = SubSeq(prompts, 1, Len(prompts) - 1)

PasswordEntered(r) ==
  /\ Innermost(r)
  /\ Unwind
  /\ password' = TRUE
  /\ Initialized(r)
  /\ UNCHANGED <<kind, resultVars, shut, nested>>

\* The request fails, and nothing it was to be followed by happens.
PasswordCancelled(r) ==
  /\ Innermost(r)
  /\ Unwind
  /\ pc' = [pc EXCEPT ![r] = "refused"]
  /\ UNCHANGED <<kind, client, resultVars, clientVars, shut>>

-----------------------------------------------------------------------------
(* The folder synchronisation and what follows it *)

\* postSyncCallback: GetNewMessages goes on to synchronise the messages, of
\* all folders or of one, with the client the server object has by then.
PostSyncCallback(r) ==
  /\ followUps' = [followUps EXCEPT ![r] = @ + 1]
  /\ lister' = [lister EXCEPT ![r] = IF kind[r] = "newMessages" THEN mClient ELSE @]

\* Broken variant: a client that was shut down does not answer any more.
EndSyncUnlessShut(r) ==
  /\ pc[r] = "working"
  /\ Syncs(r)
  /\ client[r] \notin shut
  /\ pc' = [pc EXCEPT ![r] = "done"]
  /\ UNCHANGED <<kind, client, clientVars, shut, prompts>>

EndSync(r) ==
  /\ pc[r] = "working"
  /\ Syncs(r)
  /\ pc' = [pc EXCEPT ![r] = "done"]
  /\ UNCHANGED <<kind, client, clientVars, shut, prompts>>

OnSuccess(r) == EndSync(r) /\ PostSyncCallback(r)

\* Broken variant: a failed sync is reported as successful, too.
OnErrorTwice(r) ==
  /\ EndSync(r)
  /\ followUps' = [followUps EXCEPT ![r] = @ + 2]
  /\ UNCHANGED lister

\* "continue with the post-sync callback even on error": whoever asked for the
\* sync hears the same as after OnSuccess, also the listener of
\* SyncFolderHierarchy, whose onOperationFailure is never called.
OnError(r) == EndSync(r) /\ PostSyncCallback(r)

\* Any other operation comes to its end.
OperationEnds(r) ==
  /\ pc[r] = "working"
  /\ ~Syncs(r)
  /\ pc' = [pc EXCEPT ![r] = "done"]
  /\ UNCHANGED <<kind, client, resultVars, clientVars, shut, prompts>>

\* Broken variant: the server object lets go of its client.
ShutdownForgets ==
  /\ shut' = shut \cup ({mClient} \ {None})
  /\ mClient' = None
  /\ UNCHANGED <<kind, pc, client, resultVars, ready, password, nested, prompts>>

\* The client sets a flag that nobody reads, and the server object keeps it.
Shutdown ==
  /\ shut' = shut \cup ({mClient} \ {None})
  /\ UNCHANGED <<kind, pc, client, resultVars, clientVars, prompts>>

-----------------------------------------------------------------------------

Init ==
  /\ kind = [r \in Request |-> "clientOnly"]
  /\ pc = [r \in Request |-> "idle"]
  /\ client = [r \in Request |-> None]
  /\ followUps = [r \in Request |-> 0]
  /\ lister = [r \in Request |-> None]
  /\ mClient = None
  /\ ready = {}
  /\ shut = {}
  /\ prompts = <<>>
  /\ password \in BOOLEAN
  /\ nested = FALSE

Ends(r) == OnSuccess(r) \/ OnError(r) \/ OperationEnds(r)

RequestNext(r) ==
  GetProtocolClient(r) \/ PasswordEntered(r) \/ PasswordCancelled(r) \/ Ends(r)

Next == Shutdown \/ \E r \in Request : RequestNext(r)

Spec == Init /\ [][Next]_vars

\* Every operation ends, and the event loop, nested or not, runs its
\* callbacks.  Nobody has to answer a dialog.
Fairness == \A r \in Request : WF_vars(Ends(r))

FairSpec == Spec /\ Fairness

-----------------------------------------------------------------------------
(* Properties *)

\* No request meets a client that is still being initialized, so none ends in
\* NS_ERROR_NOT_INITIALIZED (XpcomCarbonioBridge::client), although requests
\* arrive while dialogs of others are open.
ClientsReady ==
  \A r \in Request : pc[r] \in {"working", "done"} => client[r] \in ready

\* The follow-up of GetNewMessages finds a client, whatever dialogs were
\* cancelled and whenever Shutdown came: a callback never opens a dialog, so
\* a delivery is one turn of the event loop, as module FolderSync has it.
FollowUpHasClient ==
  \A r \in Request :
    pc[r] = "done" /\ kind[r] = "newMessages" => lister[r] \in ready

\* "creating a new one if one hasn't already been created"
\* (ICarbonioIncomingServer.idl): there is one client, unless a request comes
\* while the dialog of another is open.
OneClientUnlessNested == nested \/ \A c, d \in ready : c = d

(* Why: the stack holds each waiting request once; the client kept is      *)
(* initialized and never given up; as long as nothing is nested, a dialog  *)
(* means that there is no client yet.  The follow-ups are counted by the   *)
(* end of the syncs.                                                       *)

Stacked ==
  \A i \in 1..Len(prompts) :
    /\ pc[prompts[i]] = "prompting"
    /\ \A j \in 1..Len(prompts) : prompts[i] = prompts[j] => i = j

ClientKept ==
  /\ mClient \in ready \cup {None}
  /\ ready # {} => mClient # None

AloneWhilePrompting ==
  ~nested => /\ ready \subseteq {mClient}
             /\ prompts # <<>> => Len(prompts) = 1 /\ ready = {}

Counted ==
  \A r \in Request :
    followUps[r] = IF pc[r] = "done" /\ Syncs(r) THEN 1 ELSE 0

AccountInv ==
  /\ Stacked /\ ClientKept /\ AloneWhilePrompting
  /\ ClientsReady /\ FollowUpHasClient /\ Counted

\* Every folder sync that was begun is followed up, even if dialogs stay open
\* for ever and after Shutdown.
SyncsFollowed ==
  \A r \in Request : pc[r] = "working" /\ Syncs(r) ~> followUps[r] = 1

=============================================================================
