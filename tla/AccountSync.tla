---------------------------- MODULE AccountSync ----------------------------
(***************************************************************************)
(* The folder sync and the message syncs of one account together.  A       *)
(* message sync holds on to the CarbonioFolder it began with and writes    *)
(* what it gets to the database at the path of that folder, whatever the   *)
(* folder sync made of the folder meanwhile.                               *)
(*                                                                         *)
(* What each sync does by itself is the matter of FolderSync, Discovery    *)
(* and MessageList.  Here a folder sync brings one folder up to date at a  *)
(* time, and the messages of a folder are one message that has its id.     *)
(***************************************************************************)
EXTENDS Integers

CONSTANTS
  Folder,     \* Carbonio folder ids
  Path,       \* where a folder can be
  Absent,     \* not created yet, or not a local folder
  Deleted,    \* deleted on the server; ids are not used again
  All,        \* the account as the target of GetNewMessages
  Refuses,    \* folders whose GetNewMessages always fails
  MaxChanges  \* bound on the changes of the server

ASSUME AccountSyncAssumption ==
  /\ Absent \notin Path /\ Deleted \notin Path /\ All \notin Path
  /\ Refuses \subseteq Folder
  /\ MaxChanges \in Nat

VARIABLES
  server,    \* where the server has each folder
  changes,   \* how often that changed
  local,     \* where the local folder of each id is
  db,        \* the headers in the database at each path
  wanted,    \* targets of GetNewMessages that wait for the folder sync
  syncs,     \* the message syncs under way
  strayed    \* history: messages written to what was not their folder any more

vars == <<server, changes, local, db, wanted, syncs, strayed>>
serverVars == <<server, changes>>
folderVars == <<local, db>>
messageVars == <<wanted, syncs, strayed>>

Task == [path : Path, folder : Folder, phase : {"asked", "answered"}]

TypeOK ==
  /\ server \in [Folder -> Path \cup {Absent, Deleted}]
  /\ changes \in 0..MaxChanges
  /\ local \in [Folder -> Path \cup {Absent}]
  /\ db \in [Path -> SUBSET Folder]
  /\ wanted \subseteq Path \cup {All}
  /\ syncs \subseteq Task
  /\ strayed \subseteq Folder

-----------------------------------------------------------------------------
(* The server *)

\* A name is given to another folder only when no client needs it for the
\* first one any more; what happens otherwise is shown by FolderSync.
ServerPlaces(f, p) ==
  /\ changes < MaxChanges
  /\ server[f] \notin {p, Deleted}
  /\ \A g \in Folder \ {f} : server[g] # p /\ local[g] # p
  /\ server' = [server EXCEPT ![f] = p]
  /\ changes' = changes + 1
  /\ UNCHANGED <<folderVars, messageVars>>

ServerDeletes(f) ==
  /\ changes < MaxChanges
  /\ server[f] \in Path
  /\ server' = [server EXCEPT ![f] = Deleted]
  /\ changes' = changes + 1
  /\ UNCHANGED <<folderVars, messageVars>>

-----------------------------------------------------------------------------
(* The folder sync *)

Free(p) == \A f \in Folder : local[f] # p

\* GetDatabase opens the database that is at a folder's path, if there is one
\* that can be used, and else makes a new one.
CreateFolder(f) ==
  LET p == server[f]
  IN /\ local[f] = Absent /\ p \in Path /\ Free(p)
     /\ local' = [local EXCEPT ![f] = p]
     /\ \E headers \in {db[p], {}} : db' = [db EXCEPT ![p] = headers]
     /\ UNCHANGED <<serverVars, messageVars>>

\* A folder moves with its database.
MoveFolder(f) ==
  LET p == server[f]
  IN /\ local[f] \in Path /\ p \in Path /\ Free(p)
     /\ local' = [local EXCEPT ![f] = p]
     /\ db' = [db EXCEPT ![p] = db[local[f]], ![local[f]] = {}]
     /\ UNCHANGED <<serverVars, messageVars>>

\* Broken variant: only the folder goes.
DeleteFolderKeepsDatabase(f) ==
  /\ local[f] \in Path /\ server[f] = Deleted
  /\ local' = [local EXCEPT ![f] = Absent]
  /\ UNCHANGED <<db, serverVars, messageVars>>

DeleteFolder(f) ==
  /\ local[f] \in Path /\ server[f] = Deleted
  /\ local' = [local EXCEPT ![f] = Absent]
  /\ db' = [db EXCEPT ![local[f]] = {}]
  /\ UNCHANGED <<serverVars, messageVars>>

PullFolder(f) == CreateFolder(f) \/ MoveFolder(f) \/ DeleteFolder(f)

-----------------------------------------------------------------------------
(* What GetNewMessages does after the folder sync *)

\* The user asks for a folder that is there, or for the account.
GetNewMessages(target) ==
  /\ target = All \/ \E f \in Folder : local[f] = target
  /\ wanted' = wanted \cup {target}
  /\ UNCHANGED <<serverVars, folderVars, syncs, strayed>>

\* SyncMessages: the id is read from the database at the folder's path, so a
\* CarbonioFolder that is gone has the id of the folder that took its place,
\* or none and nothing to do.
Started(f) == [path |-> local[f], folder |-> f, phase |-> "asked"]
SyncMessages(p) == {Started(f) : f \in {g \in Folder \ Refuses : local[g] = p}}

\* Broken variant: the first folder that fails ends the walk.
SyncAllFoldersUntilFailure(reached) ==
  LET there == {f \in Folder : local[f] \in reached}
  IN {{Started(f) : f \in visited} :
        visited \in IF there \cap Refuses = {} THEN {there} ELSE SUBSET (there \ Refuses)}

\* The walk over all folders, as the set of its outcomes: a folder that fails
\* does not stop it.  It reaches no folder below one whose GetSubFolders fails.
SyncAllFolders(reached) == {UNION {SyncMessages(p) : p \in reached}}

FollowUp(target, reached) ==
  /\ target \in wanted
  /\ wanted' = wanted \ {target}
  /\ \E started \in IF target = All THEN SyncAllFolders(reached) ELSE {SyncMessages(target)} :
       syncs' = syncs \cup started
  /\ UNCHANGED <<serverVars, folderVars, strayed>>

-----------------------------------------------------------------------------
(* The message syncs *)

\* The server lists what is in the folder of this id, wherever that is now.
SearchResponse(s) ==
  /\ s \in syncs /\ s.phase = "asked"
  /\ server[s.folder] \in Path
  /\ syncs' = (syncs \ {s}) \cup {[s EXCEPT !.phase = "answered"]}
  /\ UNCHANGED <<serverVars, folderVars, wanted, strayed>>

\* The request fails, or there is nothing to list.
OnOperationFailure(s) ==
  /\ s \in syncs /\ s.phase = "asked"
  /\ syncs' = syncs \ {s}
  /\ UNCHANGED <<serverVars, folderVars, wanted, strayed>>

\* The folder the sync began with writes to the database at its path.
OnMessage(s) ==
  /\ s \in syncs /\ s.phase = "answered"
  /\ syncs' = syncs \ {s}
  /\ db' = [db EXCEPT ![s.path] = @ \cup {s.folder}]
  /\ strayed' = IF local[s.folder] = s.path THEN strayed ELSE strayed \cup {s.folder}
  /\ UNCHANGED <<serverVars, local, wanted>>

\* No database can be had, or it refuses the header.
OnMessageFails(s) ==
  /\ s \in syncs /\ s.phase = "answered"
  /\ syncs' = syncs \ {s}
  /\ UNCHANGED <<serverVars, folderVars, wanted, strayed>>

-----------------------------------------------------------------------------

\* A new account.
Init ==
  /\ server \in [Folder -> Path \cup {Absent}]
  /\ \A f, g \in Folder : f # g => server[f] = Absent \/ server[f] # server[g]
  /\ changes = 0
  /\ local = [f \in Folder |-> Absent]
  /\ db = [p \in Path |-> {}]
  /\ wanted = {} /\ syncs = {} /\ strayed = {}

Next ==
  \/ \E f \in Folder, p \in Path : ServerPlaces(f, p)
  \/ \E f \in Folder : ServerDeletes(f) \/ PullFolder(f)
  \/ \E target \in Path \cup {All} :
       GetNewMessages(target) \/ \E reached \in SUBSET Path : FollowUp(target, reached)
  \/ \E s \in Task :
       SearchResponse(s) \/ OnOperationFailure(s) \/ OnMessage(s) \/ OnMessageFails(s)

Spec == Init /\ [][Next]_vars

\* A folder sync ends, and is followed up (SyncsEnd of FolderSync).
Fairness == WF_vars(\E reached \in SUBSET Path : FollowUp(All, reached))

FairSpec == Spec /\ Fairness

-----------------------------------------------------------------------------
(* Properties *)

\* No database shows another folder's messages, not even one left behind by a
\* folder that is gone, unless a message sync outlived the place its folder
\* had when it began (DeleteFolderWithId, UpdateFolderWithDetails, onMessage).
OnlyStrayed ==
  \A p \in Path : db[p] \subseteq {f \in Folder : local[f] = p} \cup strayed

\* The local folders are those of the server.
Mirrored ==
  \A f \in Folder : local[f] = IF server[f] \in Path THEN server[f] ELSE Absent

\* The walk comes to all folders now and then, and now and then a request for
\* the folder f is answered, and the database takes what it brings.
Walked == SF_vars(FollowUp(All, Path))
Answers(f) == /\ SF_vars(\E s \in Task : s.folder = f /\ SearchResponse(s))
              /\ SF_vars(\E s \in Task : s.folder = f /\ OnMessage(s))

\* As long as the user keeps asking for the account, and the folder syncs have
\* brought it where the server is (MirroredIfAnswered of FolderSync), every
\* folder that can be asked for shows its messages, wherever it moved, and
\* though another folder fails every time (SyncAllFolders).
ListedIfAnswered ==
  []<>(All \in wanted) /\ <>[]Mirrored /\ Walked =>
    \A f \in Folder \ Refuses :
      Answers(f) => <>[](server[f] \in Path => f \in db[server[f]])

=============================================================================
