----------------------------- MODULE FolderSync -----------------------------
(***************************************************************************)
(* Folder hierarchy synchronisation of one Carbonio account:               *)
(* CarbonioIncomingServer::SyncFolderList starts a SyncRequest with the    *)
(* stored token, the server answers with the folders changed since that    *)
(* token, and deliver_folder_sync hands every change to the server object, *)
(* which edits the local folder tree, and finally stores the new token.    *)
(*                                                                         *)
(* Everything on the client runs on the main thread: once the answer is    *)
(* there, the callbacks of one delivery follow each other with no other    *)
(* task in between (Idle guards every other client step).  The server      *)
(* keeps changing all the time, and several syncs may be in flight.        *)
(***************************************************************************)
EXTENDS Integers, FiniteSets

CONSTANTS
  Folder,       \* Carbonio folder ids, the account root "1" excepted
  Root,         \* the account root "1" (USER_ROOT)
  MailFolder,   \* the ids is_mail_folder accepts
  Name,         \* folder names
  Absent,       \* no such folder
  Sync,         \* sync tasks, hence the bound on syncs in flight
  MaxVersion,   \* bound on the changes of the server
  Faults        \* which hard conditions the environment may produce

Fault == {"overlap",      \* a sync starts while another one is in flight
          "reuse",        \* a name freed by one folder is taken by another one
          "topLevel",     \* folders under the account root are renamed or moved
          "childFirst",   \* a delta lists a folder before one above its new place
          "foreignParent",\* mail folders live under folders of another kind
          "storeFails",   \* the message store refuses an operation
          "tokenless",    \* an answer comes without a token
          "crash"}        \* the process dies and restarts

ASSUME FolderSyncAssumption ==
  /\ MailFolder \subseteq Folder
  /\ Root \notin Folder
  /\ MaxVersion \in Nat \ {0}
  /\ Faults \subseteq Fault
  /\ Absent \notin [parent : Folder \cup {Root}, name : Name]

VARIABLES
  hist,      \* hist[v]: the server's hierarchy at version v (a sync token)
  version,   \* the server's current version
  loc,       \* the local folder that carries each Carbonio id
  untagged,  \* places of local folders left without a Carbonio id
  token,     \* syncStateToken preference, 0 for none
  saved,     \* the token as last written to disk with the preferences
  sync,      \* the sync tasks
  missed     \* history: ids whose local copy the code failed to bring up to date

vars == <<hist, version, loc, untagged, token, saved, sync, missed>>
serverVars == <<hist, version>>

Place == [parent : Folder \cup {Root}, name : Name]
Tree == [Folder -> Place \cup {Absent}]
EmptyTree == [f \in Folder |-> Absent]

Phase == {"none", "sent", "answered", "delivering"}
Task == [phase : Phase, base : 0..MaxVersion, ver : 0..MaxVersion,
         upserts : SUBSET Folder, deletes : SUBSET Folder, tokenless : BOOLEAN]
NoTask == [phase |-> "none", base |-> 0, ver |-> 0,
           upserts |-> {}, deletes |-> {}, tokenless |-> FALSE]

TypeOK ==
  /\ hist \in [0..MaxVersion -> Tree]
  /\ version \in 1..MaxVersion
  /\ loc \in Tree
  /\ untagged \subseteq Place
  /\ token \in 0..MaxVersion
  /\ saved \in 0..MaxVersion
  /\ sync \in [Sync -> Task]
  /\ missed \subseteq Folder

-----------------------------------------------------------------------------
(* Trees *)

Present(t) == {f \in Folder : t[f] # Absent}

\* The folder f with everything below it.
Subtree(t, f) ==
  {g \in Folder : \A S \in SUBSET Folder :
     (/\ f \in S
      /\ \A h \in Present(t) : t[h].parent \in S => h \in S) => g \in S}

WellFormed(t) ==
  /\ \A f \in Present(t) : t[f].parent \in Present(t) \cup {Root}
  /\ \A f, g \in Present(t) : t[f] = t[g] => f = g
  /\ \A S \in (SUBSET Present(t)) \ {{}} : \E f \in S : t[f].parent \notin S

\* Unless the environment mixes kinds, mail folders live under mail folders.
KindsApart(t) ==
  \A f \in MailFolder \cap Present(t) : t[f].parent \in MailFolder \cup {Root}

\* What the client is to show of folder f of the hierarchy t.
Shown(t, f) == IF f \in MailFolder THEN t[f] ELSE Absent

server == hist[version]

\* The ids a SyncRequest with token b reports at version v.
Changed(b, v) == {f \in Folder : \E w \in b..v : hist[w][f] # hist[v][f]}

-----------------------------------------------------------------------------
(* The Carbonio server: folders are created, renamed, moved and deleted by *)
(* other clients of the account.  An id is never used twice.               *)

NeverUsed(f, place) ==
  \A v \in 1..version, g \in Folder \ {f} : hist[v][g] # place

ServerCommits(t) ==
  /\ version < MaxVersion
  /\ version' = version + 1
  /\ hist' = [hist EXCEPT ![version + 1] = t]
  /\ UNCHANGED <<loc, untagged, token, saved, sync, missed>>

ServerPlaces(f, place) ==
  LET t == [server EXCEPT ![f] = place]
  IN /\ t # server
     /\ IF server[f] = Absent
          THEN \A v \in 1..version : hist[v][f] = Absent
          ELSE "topLevel" \in Faults \/ server[f].parent # Root
     /\ "reuse" \in Faults \/ NeverUsed(f, place)
     /\ WellFormed(t)
     /\ "foreignParent" \in Faults \/ KindsApart(t)
     /\ ServerCommits(t)

ServerDeletes(f) ==
  /\ server[f] # Absent
  /\ ServerCommits([g \in Folder |->
       IF g \in Subtree(server, f) THEN Absent ELSE server[g]])

-----------------------------------------------------------------------------
(* A sync task up to the answer *)

\* No delivery occupies the main thread.
Idle == \A s \in Sync : sync[s].phase # "delivering"

SyncFolderList(s) ==
  /\ Idle
  /\ sync[s].phase = "none"
  /\ "overlap" \in Faults \/ \A r \in Sync : sync[r].phase = "none"
  /\ sync' = [sync EXCEPT ![s] = [NoTask EXCEPT !.phase = "sent", !.base = token]]
  /\ UNCHANGED <<serverVars, loc, untagged, token, saved, missed>>

\* The server computes its answer: the flattened folders first, the deleted
\* ids behind them; a request without a token gets the whole tree instead.
SyncResponse(s) ==
  LET b == sync[s].base
      upserts == Changed(b, version) \cap Present(server)
      deletes == IF b = 0 THEN {} ELSE Changed(b, version) \ Present(server)
  IN /\ sync[s].phase = "sent"
     /\ \E t \in IF "tokenless" \in Faults THEN BOOLEAN ELSE {FALSE} :
          sync' = [sync EXCEPT ![s] =
            [phase |-> "answered", base |-> b, ver |-> version,
             upserts |-> upserts, deletes |-> deletes, tokenless |-> t]]
     /\ UNCHANGED <<serverVars, loc, untagged, token, saved, missed>>

\* A failed login, request or decoding: OnOperationFailure, nothing delivered.
OnOperationFailure(s) ==
  /\ Idle
  /\ sync[s].phase \in {"sent", "answered"}
  /\ sync' = [sync EXCEPT ![s] = NoTask]
  /\ UNCHANGED <<serverVars, loc, untagged, token, saved, missed>>

-----------------------------------------------------------------------------
(* The delivery: one step per callback *)

Found(p) == p \in Present(loc) \cup {Root}     \* FindFolderWithId

ContainsChildNamed(place) ==
  place \in untagged \/ \E g \in Folder : loc[g] = place

\* Broken variant: the new token is stored before the folders are.
TokenFirst(s) ==
  /\ Idle
  /\ sync[s].phase = "answered"
  /\ sync' = [sync EXCEPT ![s].phase = "delivering"]
  /\ token' = sync[s].ver
  /\ UNCHANGED <<serverVars, loc, untagged, saved, missed>>

\* The answer of an initial sync names no deleted folder: what the client
\* still has of the folders the server lost is never mentioned again.
DeliverFolderSync(s) ==
  /\ Idle
  /\ sync[s].phase = "answered"
  /\ sync' = [sync EXCEPT ![s].phase = "delivering"]
  /\ missed' = IF sync[s].base = 0
                 THEN missed \cup (Present(loc) \ sync[s].upserts)
                 ELSE missed
  /\ UNCHANGED <<serverVars, loc, untagged, token, saved>>

\* Broken variant: a folder of that name may be there already.
CanCreateOnTop(f, place) ==
  f \in MailFolder /\ Found(place.parent)

CanCreate(f, place) ==
  f \in MailFolder /\ Found(place.parent) /\ ~ContainsChildNamed(place)

\* CreateFolder did its work, but the Carbonio id is not written any more.
CreateUntagged(place) ==
  /\ untagged' = untagged \cup {place}
  /\ UNCHANGED loc

MaybeCreateFolderWithDetails(f, place) ==
  /\ loc[f] = Absent
  /\ \/ CanCreate(f, place) /\ loc' = [loc EXCEPT ![f] = place] /\ UNCHANGED untagged
     \/ "storeFails" \in Faults /\ CanCreate(f, place) /\ CreateUntagged(place)
     \/ /\ "storeFails" \in Faults \/ ~CanCreate(f, place)
        /\ UNCHANGED <<loc, untagged>>

\* The parent's Carbonio id is read before anything is compared, and reading
\* a property of the account root always fails.
CanUpdate(f, place) ==
  /\ loc[f].parent # Root
  /\ Found(place.parent)
  /\ ~ContainsChildNamed(place)
  /\ place.parent \notin Subtree(loc, f)

\* Broken variant: only the names are compared, so a move goes unnoticed.
RenameOnly(f, place) ==
  /\ loc[f] # Absent
  /\ loc' = IF CanUpdate(f, place) /\ loc[f].name # place.name
              THEN [loc EXCEPT ![f] = place] ELSE loc
  /\ UNCHANGED untagged

UpdateFolderWithDetails(f, place) ==
  /\ loc[f] # Absent
  /\ \/ CanUpdate(f, place) /\ loc' = [loc EXCEPT ![f] = place]
     \/ /\ "storeFails" \in Faults \/ ~CanUpdate(f, place)
        /\ loc' = loc
  /\ UNCHANGED untagged

\* One OnFolderUpserted callback; an error it returns is only logged.  The
\* tree of an initial sync is flattened, what is above a folder before it.  A
\* delta in which only the parents come first may still name a folder before
\* the one that its new parent is moved along with.
OnFolderUpserted(s, f) ==
  LET place == hist[sync[s].ver][f]
  IN /\ sync[s].phase = "delivering"
     /\ f \in sync[s].upserts
     /\ \/ \A g \in sync[s].upserts \ {f} : f \notin Subtree(hist[sync[s].ver], g)
        \/ "childFirst" \in Faults /\ sync[s].base > 0
     /\ \/ MaybeCreateFolderWithDetails(f, place)
        \/ UpdateFolderWithDetails(f, place)
     /\ sync' = [sync EXCEPT ![s].upserts = @ \ {f}]
     /\ missed' = IF loc'[f] = Shown(hist[sync[s].ver], f)
                    THEN missed \ {f} ELSE missed \cup {f}
     /\ UNCHANGED <<serverVars, token, saved>>

\* Broken variant: the folders below are left behind.
DeleteOnlyItself(f) ==
  /\ loc' = [loc EXCEPT ![f] = Absent]
  /\ untagged' = {u \in untagged : u.parent # f}

\* Broken variant: a folder that still has subfolders is not deleted.
DeleteOnlyLeaf(f) ==
  /\ loc' = IF \E g \in Present(loc) : loc[g].parent = f
              THEN loc ELSE [loc EXCEPT ![f] = Absent]
  /\ untagged' = {u \in untagged : u.parent # f}

\* PropagateDelete takes everything below the folder along.
DeleteFolderWithId(f) ==
  LET gone == IF loc[f] = Absent THEN {f} ELSE Subtree(loc, f)
  IN /\ loc' = [g \in Folder |-> IF g \in gone THEN Absent ELSE loc[g]]
     /\ untagged' = {u \in untagged : u.parent \notin gone}

OnFolderDeleted(s, f) ==
  /\ sync[s].phase = "delivering"
  /\ sync[s].upserts = {}
  /\ f \in sync[s].deletes
  /\ \/ DeleteFolderWithId(f)
     \/ "storeFails" \in Faults /\ loc[f] # Absent /\ UNCHANGED <<loc, untagged>>
  /\ sync' = [sync EXCEPT ![s].deletes = @ \ {f}]
  /\ missed' = (missed \ {f}) \cup
       {g \in Folder : /\ g = f \/ loc'[g] # loc[g]
                       /\ loc'[g] # Shown(hist[sync[s].ver], g)}
  /\ UNCHANGED <<serverVars, token, saved>>

\* Broken variant: the deletions of the answer are dropped.
OnSuccessBeforeDeletes(s) ==
  /\ sync[s].phase = "delivering"
  /\ sync[s].upserts = {}
  /\ token' = IF sync[s].tokenless THEN token ELSE sync[s].ver
  /\ sync' = [sync EXCEPT ![s] = NoTask]
  /\ UNCHANGED <<serverVars, loc, untagged, saved, missed>>

\* Broken variant: the listener never hears of the success.
OnSuccessUntold(s) ==
  /\ sync[s].phase = "delivering"
  /\ sync[s].upserts = {} /\ sync[s].deletes = {}
  /\ token' = IF sync[s].tokenless THEN token ELSE sync[s].ver
  /\ UNCHANGED <<serverVars, loc, untagged, saved, sync, missed>>

\* OnSyncStateTokenChanged, if there is a token, then OnSuccess.
OnSuccess(s) ==
  /\ sync[s].phase = "delivering"
  /\ sync[s].upserts = {} /\ sync[s].deletes = {}
  /\ token' = IF sync[s].tokenless THEN token ELSE sync[s].ver
  /\ sync' = [sync EXCEPT ![s] = NoTask]
  /\ UNCHANGED <<serverVars, loc, untagged, saved, missed>>

-----------------------------------------------------------------------------
(* Preferences reach the disk on their own schedule; a crash loses what is *)
(* in memory.  A crash between the store's CreateFolder and the write of   *)
(* the Carbonio id leaves a folder without an id.                          *)

SavePrefs ==
  /\ "crash" \in Faults
  /\ saved' = token
  /\ UNCHANGED <<serverVars, loc, untagged, token, sync, missed>>

Crash ==
  /\ "crash" \in Faults
  /\ sync' = [s \in Sync |-> NoTask]
  /\ token' = saved
  /\ \/ UNCHANGED untagged
     \/ \E s \in Sync : \E f \in sync[s].upserts :
          /\ sync[s].phase = "delivering"
          /\ loc[f] = Absent /\ CanCreate(f, hist[sync[s].ver][f])
          /\ CreateUntagged(hist[sync[s].ver][f])
  /\ UNCHANGED <<serverVars, loc, saved, missed>>

-----------------------------------------------------------------------------

Init ==
  /\ \E t \in {u \in Tree : WellFormed(u)} :
       /\ "foreignParent" \in Faults \/ KindsApart(t)
       /\ hist = [v \in 0..MaxVersion |-> IF v = 1 THEN t ELSE EmptyTree]
  /\ version = 1
  /\ loc = EmptyTree
  /\ untagged = {}
  /\ token = 0
  /\ saved = 0
  /\ sync = [s \in Sync |-> NoTask]
  /\ missed = {}

ServerNext ==
  \E f \in Folder : ServerDeletes(f) \/ \E place \in Place : ServerPlaces(f, place)

Deliver(s) ==
  \/ DeliverFolderSync(s)
  \/ \E f \in Folder : OnFolderUpserted(s, f) \/ OnFolderDeleted(s, f)
  \/ OnSuccess(s)

SyncNext(s) ==
  SyncFolderList(s) \/ SyncResponse(s) \/ OnOperationFailure(s) \/ Deliver(s)

Next == ServerNext \/ (\E s \in Sync : SyncNext(s)) \/ SavePrefs \/ Crash

Spec == Init /\ [][Next]_vars

\* The future of a sync ends its request with an answer or an error, and the
\* event loop runs the callbacks of an answer.  Syncs start only when the user
\* asks for one (CarbonioProtocolInfo.cpp turns the regular check for new mail
\* off), and of that nothing is assumed.
Fairness ==
  \A s \in Sync : /\ WF_vars(SyncResponse(s) \/ OnOperationFailure(s))
                  /\ SF_vars(Deliver(s))

FairSpec == Spec /\ Fairness

-----------------------------------------------------------------------------
(* Properties *)

\* Tokens and answers speak of versions the server has reached; an answer
\* lists as upserts folders of its version, as deleted only folders not in it.
AnswersOK ==
  /\ token <= version /\ saved <= version
  /\ \A s \in Sync :
    /\ sync[s].base <= version /\ sync[s].ver <= version
    /\ sync[s].phase \in {"answered", "delivering"} => sync[s].base <= sync[s].ver
    /\ \A f \in sync[s].upserts : hist[sync[s].ver][f] # Absent
    /\ \A f \in sync[s].deletes : hist[sync[s].ver][f] = Absent

\* Every difference between the local tree and the server will be sent again:
\* the copy of a folder that no callback failed on is the folder as it was at
\* a version not older than the stored token (SyncFolderList,
\* deliver_folder_sync), even if answers lack tokens, the store refuses work
\* or the process dies between any two callbacks.
Covered ==
  \A f \in Folder \ missed :
    \E v \in token..version : loc[f] = Shown(hist[v], f)

(* Why syncs that do not overlap keep every folder covered.  The client's  *)
(* side of it: the one sync in flight asked with the token still stored,   *)
(* and disk never runs ahead of memory.  The answer's side: what it does   *)
(* not list did not change since its base (or, without a base, is not      *)
(* there).  The delivery's side: what is done is as new as the answer.     *)

Serial ==
  /\ \A r, s \in Sync : sync[r].phase # "none" /\ sync[s].phase # "none" => r = s
  /\ \A s \in Sync : sync[s].phase # "none" => sync[s].base = token
  /\ saved <= token
  /\ hist[0] = EmptyTree

Unlisted(s) == Folder \ (sync[s].upserts \cup sync[s].deletes)

AnswerComplete ==
  \A s \in Sync : sync[s].phase = "answered" =>
    \A f \in Unlisted(s) :
      \/ \A w \in sync[s].base..sync[s].ver : hist[w][f] = hist[sync[s].ver][f]
      \/ sync[s].base = 0 /\ hist[sync[s].ver][f] = Absent

DeliveredIsNew ==
  \A s \in Sync : sync[s].phase = "delivering" =>
    \A f \in Unlisted(s) \ missed :
      \E w \in sync[s].ver..version : loc[f] = Shown(hist[w], f)

SyncInv == Serial /\ AnswerComplete /\ DeliveredIsNew /\ Covered

\* With nothing in flight and the newest token stored, the next sync brings
\* nothing, so the listing must already be right.
Settled == token = version /\ \A s \in Sync : sync[s].phase = "none"

\* "Synchronizes the local folder listing with changes made on the remote
\* server" (ICarbonioClient.idl): a settled account lists what the server has.
ListingMatches ==
  Settled => \A f \in Folder : loc[f] = Shown(server, f)

\* The same promise, but for the folders a callback failed on.
ListingMatchesExceptMissed ==
  Settled => \A f \in Folder \ missed : loc[f] = Shown(server, f)

\* The local folders form a tree under the account root, with no two folders
\* of one name side by side, whatever mix of stale, failed and interrupted
\* deliveries produced them.
LocalTree ==
  /\ WellFormed(loc)
  /\ \A f \in Present(loc) : loc[f] \notin untagged
  /\ \A u \in untagged : Found(u.parent)

(* Why, with none of the faults, the listing is exactly a version of the   *)
(* server.  The server's side: a place belongs to one folder for ever, and *)
(* a folder under the account root stays where it is.  The client's side:  *)
(* what an answer still lists is as it was at the answer's base, what it   *)
(* does not list is as it is at the answer's version.                      *)

ServerHistory ==
  /\ \A v \in 1..version : WellFormed(hist[v]) /\ KindsApart(hist[v])
  /\ \A v, w \in 1..version, f, g \in Folder :
       hist[v][f] # Absent /\ hist[v][f] = hist[w][g] => f = g
  /\ \A v, w \in 1..version, f \in Folder :
       /\ v <= w /\ hist[v][f] # Absent /\ hist[w][f] # Absent
       /\ hist[v][f].parent = Root
       => hist[w][f] = hist[v][f]

NothingMissed ==
  /\ missed = {} /\ untagged = {}
  /\ \A s \in Sync : ~sync[s].tokenless

DeliveredExactly(s) ==
  \A f \in Folder :
    /\ f \in sync[s].upserts => loc[f] = Shown(hist[sync[s].base], f)
    /\ f \in sync[s].deletes => loc[f] \in {Shown(hist[sync[s].base], f), Absent}
    /\ f \in Unlisted(s) => loc[f] = Shown(hist[sync[s].ver], f)

\* Without faults every callback of every delivery does its work: the listing
\* is exactly that of the stored token, and during a delivery each folder is
\* exactly that of the old token or of the new one (OnFolderUpserted,
\* OnFolderDeleted, OnSyncStateTokenChanged).
MirrorInv ==
  /\ ServerHistory /\ NothingMissed
  /\ Idle => \A f \in Folder : loc[f] = Shown(hist[token], f)
  /\ \A s \in Sync : sync[s].phase = "delivering" => DeliveredExactly(s)

\* The listing between two turns of the event loop: while a delivery is under
\* way nobody but its own callbacks sees the half-edited tree.
ObservedListing ==
  IF Idle THEN loc ELSE [f \in Folder |-> Shown(hist[token], f)]

Promise == INSTANCE Mirror WITH listing <- ObservedListing, seen <- token

\* SyncFolderList and its callbacks implement the promise of module Mirror.
ImplementsMirror == Promise!Spec

\* As long as answers keep coming, to syncs that the user keeps asking for, the
\* listing ends up equal to what the server comes to rest at: no change is
\* delivered half and then never again (deliver_folder_sync, DeleteFolderWithId).
MirroredIfAnswered ==
  []<>(\E s \in Sync : sync[s].phase = "delivering") =>
    <>[](\A f \in Folder : loc[f] = Shown(server, f))

\* Every sync that was started ends, with OnSuccess or OnOperationFailure.
SyncsEnd == \A s \in Sync : sync[s].phase # "none" ~> sync[s].phase = "none"

=============================================================================
