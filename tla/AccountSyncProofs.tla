------------------------- MODULE AccountSyncProofs -------------------------
(***************************************************************************)
(* Proofs about module AccountSync, for any folders and places: databases  *)
(* show the messages of their own folder and of message syncs that         *)
(* outlived the place their folder had.  The invariant needs that no two   *)
(* local folders are at one path: a folder that moves takes its database   *)
(* along, and with it whatever is in it.                                   *)
(***************************************************************************)
EXTENDS AccountSync, TLAPS

USE AccountSyncAssumption

\* No two local folders share a path, hence a database.
OneFolderAPath ==
  \A f, g \in Folder : f # g => local[f] = Absent \/ local[f] # local[g]

LEMMA TypeInit == Init => TypeOK
BY DEF Init, TypeOK

LEMMA TypeNext == TypeOK /\ [Next]_vars => TypeOK'
<1> SUFFICES ASSUME TypeOK, [Next]_vars PROVE TypeOK'
  OBVIOUS
<1> USE DEF TypeOK, serverVars, folderVars, messageVars
<1>1. ASSUME NEW f \in Folder, NEW p \in Path, ServerPlaces(f, p) PROVE TypeOK'
  BY <1>1 DEF ServerPlaces
<1>2. ASSUME NEW f \in Folder, ServerDeletes(f) PROVE TypeOK'
  BY <1>2 DEF ServerDeletes
<1>3. ASSUME NEW f \in Folder, CreateFolder(f) PROVE TypeOK'
  BY <1>3 DEF CreateFolder
<1>4. ASSUME NEW f \in Folder, MoveFolder(f) PROVE TypeOK'
  BY <1>4 DEF MoveFolder
<1>5. ASSUME NEW f \in Folder, DeleteFolder(f) PROVE TypeOK'
  BY <1>5 DEF DeleteFolder
<1>6. ASSUME NEW target \in Path \cup {All}, GetNewMessages(target) PROVE TypeOK'
  BY <1>6 DEF GetNewMessages
<1>7. ASSUME NEW target \in Path \cup {All}, NEW reached \in SUBSET Path,
             FollowUp(target, reached)
      PROVE  TypeOK'
  <2>1. \A p \in Path : SyncMessages(p) \subseteq Task
    BY DEF SyncMessages, Started, Task
  <2>2. PICK started \in IF target = All THEN SyncAllFolders(reached) ELSE {SyncMessages(target)} :
          syncs' = syncs \cup started
    BY <1>7 DEF FollowUp
  <2>3. started \subseteq Task
    <3>1. CASE target = All
      BY <2>1, <2>2, <3>1 DEF SyncAllFolders
    <3>2. CASE target # All
      BY <2>1, <2>2, <3>2
    <3> QED BY <3>1, <3>2
  <2> QED BY <1>7, <2>2, <2>3 DEF FollowUp
<1>8. ASSUME NEW s \in Task,
             SearchResponse(s) \/ OnOperationFailure(s) \/ OnMessage(s) \/ OnMessageFails(s)
      PROVE  TypeOK'
  <2>1. CASE SearchResponse(s)
    BY <2>1 DEF SearchResponse, Task
  <2>2. CASE OnOperationFailure(s)
    BY <2>2 DEF OnOperationFailure
  <2>3. CASE OnMessage(s)
    BY <2>3 DEF OnMessage, Task
  <2>4. CASE OnMessageFails(s)
    BY <2>4 DEF OnMessageFails
  <2> QED BY <1>8, <2>1, <2>2, <2>3, <2>4
<1>9. CASE UNCHANGED vars
  BY <1>9 DEF vars
<1> QED BY <1>1, <1>2, <1>3, <1>4, <1>5, <1>6, <1>7, <1>8, <1>9 DEF Next, PullFolder

\* The type invariant of AccountSync.
THEOREM TypeCorrect == Spec => []TypeOK
<1>1. Init => TypeOK
  BY TypeInit
<1>2. TypeOK /\ [Next]_vars => TypeOK'
  BY TypeNext
<1> QED BY <1>1, <1>2, PTL DEF Spec

-----------------------------------------------------------------------------

LEMMA OwnInit == Init => OneFolderAPath /\ OnlyStrayed
BY DEF Init, OneFolderAPath, OnlyStrayed

LEMMA OwnNext == TypeOK /\ OneFolderAPath /\ OnlyStrayed /\ [Next]_vars =>
                   OneFolderAPath' /\ OnlyStrayed'
<1> SUFFICES ASSUME TypeOK, OneFolderAPath, OnlyStrayed, [Next]_vars
             PROVE  OneFolderAPath' /\ OnlyStrayed'
  OBVIOUS
<1> USE DEF TypeOK
<1>1. ASSUME UNCHANGED <<local, db, strayed>> PROVE OneFolderAPath' /\ OnlyStrayed'
  BY <1>1 DEF OneFolderAPath, OnlyStrayed
<1>2. ASSUME NEW f \in Folder, CreateFolder(f) PROVE OneFolderAPath' /\ OnlyStrayed'
  <2> DEFINE p == server[f]
  <2>1. /\ p \in Path /\ Free(p) /\ local[f] = Absent
        /\ local' = [local EXCEPT ![f] = p] /\ strayed' = strayed
    BY <1>2 DEF CreateFolder, messageVars
  <2>2. \A q \in Path : db'[q] \subseteq db[q]
    BY <1>2 DEF CreateFolder
  <2>3. OneFolderAPath'
    BY <2>1 DEF OneFolderAPath, Free
  <2>4. ASSUME NEW q \in Path PROVE {g \in Folder : local[g] = q} \subseteq {g \in Folder : local'[g] = q}
    BY <2>1
  <2> HIDE DEF p
  <2> QED BY <2>1, <2>2, <2>3, <2>4 DEF OnlyStrayed
<1>3. ASSUME NEW f \in Folder, MoveFolder(f) PROVE OneFolderAPath' /\ OnlyStrayed'
  <2> DEFINE p == server[f]
  <2>1. /\ p \in Path /\ Free(p) /\ local[f] \in Path /\ p # local[f]
        /\ local' = [local EXCEPT ![f] = p] /\ strayed' = strayed
        /\ db' = [db EXCEPT ![p] = db[local[f]], ![local[f]] = {}]
    BY <1>3 DEF MoveFolder, messageVars, Free
  <2>2. OneFolderAPath'
    BY <2>1 DEF OneFolderAPath, Free
  <2>3. ASSUME NEW q \in Path
        PROVE  db'[q] \subseteq {g \in Folder : local'[g] = q} \cup strayed'
    <3>1. CASE q = p
      <4>1. db'[q] = db[local[f]] /\ local'[f] = q
        BY <2>1, <3>1
      <4>2. {g \in Folder : local[g] = local[f]} = {f}
        BY <2>1 DEF OneFolderAPath
      <4>3. db[local[f]] \subseteq {g \in Folder : local[g] = local[f]} \cup strayed
        BY <2>1 DEF OnlyStrayed
      <4> QED BY <2>1, <4>1, <4>2, <4>3
    <3>2. CASE q = local[f]
      BY <2>1, <3>2
    <3>3. CASE q # p /\ q # local[f]
      <4>1. db'[q] = db[q]
        BY <2>1, <3>3
      <4>2. {g \in Folder : local[g] = q} \subseteq {g \in Folder : local'[g] = q}
        BY <2>1, <3>3
      <4> QED BY <2>1, <4>1, <4>2 DEF OnlyStrayed
    <3> QED BY <3>1, <3>2, <3>3
  <2> QED BY <2>2, <2>3 DEF OnlyStrayed
<1>4. ASSUME NEW f \in Folder, DeleteFolder(f) PROVE OneFolderAPath' /\ OnlyStrayed'
  <2>1. /\ local[f] \in Path /\ local' = [local EXCEPT ![f] = Absent]
        /\ db' = [db EXCEPT ![local[f]] = {}] /\ strayed' = strayed
    BY <1>4 DEF DeleteFolder, messageVars
  <2>2. OneFolderAPath'
    BY <2>1 DEF OneFolderAPath
  <2>3. ASSUME NEW q \in Path
        PROVE  db'[q] \subseteq {g \in Folder : local'[g] = q} \cup strayed'
    <3>1. CASE q = local[f]
      BY <2>1, <3>1
    <3>2. CASE q # local[f]
      BY <2>1, <3>2 DEF OnlyStrayed
    <3> QED BY <3>1, <3>2
  <2> QED BY <2>2, <2>3 DEF OnlyStrayed
<1>5. ASSUME NEW s \in Task, OnMessage(s) PROVE OneFolderAPath' /\ OnlyStrayed'
  <2>1. /\ local' = local
        /\ db' = [db EXCEPT ![s.path] = @ \cup {s.folder}]
        /\ strayed' = IF local[s.folder] = s.path THEN strayed ELSE strayed \cup {s.folder}
        /\ s.path \in Path /\ s.folder \in Folder
    BY <1>5 DEF OnMessage, Task
  <2>2. OneFolderAPath'
    BY <2>1 DEF OneFolderAPath
  <2>3. OnlyStrayed'
    BY <2>1 DEF OnlyStrayed
  <2> QED BY <2>2, <2>3
<1>6. ASSUME \/ \E f \in Folder, p \in Path : ServerPlaces(f, p)
             \/ \E f \in Folder : ServerDeletes(f)
             \/ \E target \in Path \cup {All} :
                  GetNewMessages(target) \/ \E reached \in SUBSET Path : FollowUp(target, reached)
             \/ \E s \in Task : SearchResponse(s) \/ OnOperationFailure(s) \/ OnMessageFails(s)
             \/ UNCHANGED vars
      PROVE  UNCHANGED <<local, db, strayed>>
  BY <1>6 DEF ServerPlaces, ServerDeletes, GetNewMessages, FollowUp, SearchResponse,
              OnOperationFailure, OnMessageFails, folderVars, messageVars, vars
<1> QED BY <1>1, <1>2, <1>3, <1>4, <1>5, <1>6 DEF Next, PullFolder

\* A database shows no other folder's messages unless a message sync outlived
\* the place its folder had when it began, whatever folder syncs do meanwhile.
THEOREM OwnMessagesOnly == Spec => []OnlyStrayed
<1>1. Init => TypeOK /\ OneFolderAPath /\ OnlyStrayed
  BY TypeInit, OwnInit
<1>2. TypeOK /\ OneFolderAPath /\ OnlyStrayed /\ [Next]_vars =>
        (TypeOK /\ OneFolderAPath /\ OnlyStrayed)'
  BY TypeNext, OwnNext
<1> QED BY <1>1, <1>2, PTL DEF Spec

=============================================================================
