-------------------------- MODULE FolderSyncProofs --------------------------
(***************************************************************************)
(* Proofs about FolderSync, for every number of folders, names, versions   *)
(* and sync tasks: its types; the invariant that, as long as syncs do not  *)
(* overlap, the stored token never runs ahead of a local folder, whatever  *)
(* the callbacks, the answers and crashes do; that the local folders stay  *)
(* a tree; and that, without faults, the synchronisation implements the    *)
(* promise of module Mirror.                                               *)
(***************************************************************************)
EXTENDS FolderSync, TLAPS

LEMMA ChangedSubset == ASSUME NEW b, NEW v PROVE Changed(b, v) \subseteq Folder
  BY DEF Changed

LEMMA PresentSubset == ASSUME NEW t PROVE Present(t) \subseteq Folder
  BY DEF Present

\* The part of the state that says what is stored where, by itself inductive.
StateOK == TypeOK /\ AnswersOK

\* A server commit appends a version and leaves the client alone.
LEMMA CommitStep ==
  ASSUME StateOK, NEW t \in Tree, ServerCommits(t)
  PROVE  /\ StateOK'
         /\ version' = version + 1
         /\ \A v \in 0..version : hist'[v] = hist[v]
<1> USE FolderSyncAssumption
<1>1. /\ version' = version + 1 /\ version' \in 1..MaxVersion
      /\ hist' \in [0..MaxVersion -> Tree]
      /\ \A v \in 0..version : hist'[v] = hist[v]
  BY DEF StateOK, TypeOK, ServerCommits
<1>2. TypeOK'
  BY <1>1 DEF StateOK, TypeOK, ServerCommits
<1>3. ASSUME NEW s \in Sync
      PROVE  sync'[s] = sync[s] /\ sync[s].ver \in 0..version /\ sync[s].base \in 0..version
  BY DEF StateOK, TypeOK, AnswersOK, Task, ServerCommits
<1>4. token' <= version' /\ saved' <= version'
  BY <1>1 DEF StateOK, TypeOK, AnswersOK, ServerCommits
<1>5. ASSUME NEW s \in Sync
      PROVE  /\ sync'[s].base <= version' /\ sync'[s].ver <= version'
             /\ sync'[s].phase \in {"answered", "delivering"}
                  => sync'[s].base <= sync'[s].ver
             /\ \A f \in sync'[s].upserts : hist'[sync'[s].ver][f] # Absent
             /\ \A f \in sync'[s].deletes : hist'[sync'[s].ver][f] = Absent
  <2>1. sync'[s].base <= version' /\ sync'[s].ver <= version'
    BY <1>1, <1>3 DEF StateOK, TypeOK
  <2>2. hist'[sync[s].ver] = hist[sync[s].ver]
    BY <1>1, <1>3
  <2> QED BY <2>1, <2>2, <1>3 DEF StateOK, AnswersOK
<1>6. AnswersOK'
  BY <1>4, <1>5 DEF AnswersOK
<1> QED BY <1>1, <1>2, <1>6 DEF StateOK

\* Which hierarchy a server action commits.
LEMMA ServerStep ==
  ASSUME StateOK, ServerNext
  PROVE  \E t \in Tree : ServerCommits(t)
<1>1. server \in Tree
  BY FolderSyncAssumption DEF StateOK, TypeOK, server
<1>2. ASSUME NEW f \in Folder, ServerDeletes(f)
      PROVE  \E t \in Tree : ServerCommits(t)
  <2> DEFINE t == [g \in Folder |->
                     IF g \in Subtree(server, f) THEN Absent ELSE server[g]]
  <2>1. t \in Tree
    BY <1>1 DEF Tree
  <2> QED BY <1>2, <2>1 DEF ServerDeletes
<1>3. ASSUME NEW f \in Folder, NEW place \in Place, ServerPlaces(f, place)
      PROVE  \E t \in Tree : ServerCommits(t)
  <2>1. [server EXCEPT ![f] = place] \in Tree
    BY <1>1 DEF Tree
  <2> QED BY <1>3, <2>1 DEF ServerPlaces
<1> QED BY <1>2, <1>3 DEF ServerNext

LEMMA NoTaskOK == NoTask \in Task
  BY FolderSyncAssumption DEF NoTask, Task, Phase

LEMMA InitOK == Init => StateOK
<1> SUFFICES ASSUME Init PROVE StateOK
  OBVIOUS
<1>1. EmptyTree \in Tree
  BY DEF EmptyTree, Tree
<1>2. hist \in [0..MaxVersion -> Tree]
  BY <1>1 DEF Init
<1>3. TypeOK
  BY <1>1, <1>2, NoTaskOK, FolderSyncAssumption DEF Init, TypeOK
<1>4. AnswersOK
  BY FolderSyncAssumption DEF Init, AnswersOK, NoTask
<1> QED BY <1>3, <1>4 DEF StateOK

LEMMA NextOK == StateOK /\ [Next]_vars => StateOK'
<1> SUFFICES ASSUME StateOK, [Next]_vars PROVE StateOK'
  OBVIOUS
<1> USE FolderSyncAssumption
<1>1. CASE ServerNext
  BY <1>1, ServerStep, CommitStep
<1>2. ASSUME NEW s \in Sync, SyncFolderList(s) PROVE StateOK'
  <2>1. [NoTask EXCEPT !.phase = "sent", !.base = token] \in Task
    BY NoTaskOK DEF StateOK, TypeOK, Task, Phase
  <2>2. TypeOK'
    BY <1>2, <2>1 DEF SyncFolderList, StateOK, TypeOK, serverVars
  <2>3. AnswersOK'
    BY <1>2 DEF SyncFolderList, StateOK, TypeOK, AnswersOK, NoTask, serverVars
  <2> QED BY <2>2, <2>3 DEF StateOK
<1>3. ASSUME NEW s \in Sync, SyncResponse(s) PROVE StateOK'
  <2> DEFINE b == sync[s].base
             up == Changed(b, version) \cap Present(server)
             del == IF b = 0 THEN {} ELSE Changed(b, version) \ Present(server)
  <2>1. up \in SUBSET Folder /\ del \in SUBSET Folder
    BY ChangedSubset
  <2>2. b \in 0..MaxVersion /\ version \in 0..MaxVersion
    BY DEF StateOK, TypeOK, Task
  <2>3. PICK t \in BOOLEAN :
          sync' = [sync EXCEPT ![s] =
            [phase |-> "answered", base |-> b, ver |-> version,
             upserts |-> up, deletes |-> del, tokenless |-> t]]
    BY <1>3 DEF SyncResponse
  <2>4. \A f \in up : hist[version][f] # Absent
    BY DEF Present, server
  <2>5. \A f \in del : hist[version][f] = Absent
    BY ChangedSubset DEF Present, server
  <2>6. b <= version
    BY <1>3 DEF SyncResponse, StateOK, TypeOK, AnswersOK
  <2> HIDE DEF b, up, del
  <2>7. TypeOK'
    <3>1. [phase |-> "answered", base |-> b, ver |-> version,
           upserts |-> up, deletes |-> del, tokenless |-> t] \in Task
      BY <2>1, <2>2 DEF Task, Phase
    <3>2. sync' \in [Sync -> Task]
      BY <2>3, <3>1 DEF StateOK, TypeOK
    <3> QED BY <1>3, <3>2 DEF SyncResponse, StateOK, TypeOK, serverVars
  <2>8. AnswersOK'
    BY <1>3, <2>2, <2>3, <2>4, <2>5, <2>6
       DEF SyncResponse, StateOK, TypeOK, AnswersOK, serverVars
  <2> QED BY <2>7, <2>8 DEF StateOK
<1>4. ASSUME NEW s \in Sync, OnOperationFailure(s) PROVE StateOK'
  <2>1. TypeOK'
    BY <1>4, NoTaskOK DEF OnOperationFailure, StateOK, TypeOK, serverVars
  <2>2. AnswersOK'
    BY <1>4 DEF OnOperationFailure, StateOK, TypeOK, AnswersOK, NoTask, serverVars
  <2> QED BY <2>1, <2>2 DEF StateOK
<1>5. ASSUME NEW s \in Sync, DeliverFolderSync(s) PROVE StateOK'
  <2>1. [sync[s] EXCEPT !.phase = "delivering"] \in Task
    BY DEF StateOK, TypeOK, Task, Phase
  <2>2. sync' \in [Sync -> Task]
    BY <1>5, <2>1 DEF DeliverFolderSync, StateOK, TypeOK
  <2>3. missed' \subseteq Folder
    BY <1>5, PresentSubset DEF DeliverFolderSync, StateOK, TypeOK
  <2>4. TypeOK'
    BY <1>5, <2>2, <2>3 DEF DeliverFolderSync, StateOK, TypeOK, serverVars
  <2>5. AnswersOK'
    BY <1>5 DEF DeliverFolderSync, StateOK, TypeOK, AnswersOK, Task, serverVars
  <2> QED BY <2>4, <2>5 DEF StateOK
<1>6. ASSUME NEW s \in Sync, NEW f \in Folder, OnFolderUpserted(s, f) PROVE StateOK'
  <2>1. [sync[s] EXCEPT !.upserts = @ \ {f}] \in Task
    BY DEF StateOK, TypeOK, Task
  <2>2. sync' \in [Sync -> Task]
    BY <1>6, <2>1 DEF OnFolderUpserted, StateOK, TypeOK
  <2>3. hist[sync[s].ver][f] \in Place \cup {Absent}
    BY DEF StateOK, TypeOK, Task, Tree
  <2>4. loc' \in Tree
    BY <1>6, <2>3 DEF OnFolderUpserted, MaybeCreateFolderWithDetails,
         CreateUntagged, UpdateFolderWithDetails, StateOK, TypeOK, Tree
  <2>8. hist[sync[s].ver][f] # Absent
    BY <1>6 DEF OnFolderUpserted, StateOK, AnswersOK
  <2>9. untagged' \subseteq Place
    BY <1>6, <2>3, <2>8 DEF OnFolderUpserted, MaybeCreateFolderWithDetails,
         CreateUntagged, UpdateFolderWithDetails, StateOK, TypeOK
  <2>5. missed' \subseteq Folder
    BY <1>6 DEF OnFolderUpserted, StateOK, TypeOK
  <2>6. TypeOK'
    BY <1>6, <2>2, <2>4, <2>5, <2>9 DEF OnFolderUpserted, StateOK, TypeOK, serverVars
  <2>7. AnswersOK'
    BY <1>6 DEF OnFolderUpserted, StateOK, TypeOK, AnswersOK, Task, serverVars
  <2> QED BY <2>6, <2>7 DEF StateOK
<1>7. ASSUME NEW s \in Sync, NEW f \in Folder, OnFolderDeleted(s, f) PROVE StateOK'
  <2>1. [sync[s] EXCEPT !.deletes = @ \ {f}] \in Task
    BY DEF StateOK, TypeOK, Task
  <2>2. sync' \in [Sync -> Task]
    BY <1>7, <2>1 DEF OnFolderDeleted, StateOK, TypeOK
  <2>3. loc' \in Tree /\ untagged' \subseteq Place
    BY <1>7 DEF OnFolderDeleted, DeleteFolderWithId, StateOK, TypeOK, Tree
  <2>4. missed' \subseteq Folder
    BY <1>7 DEF OnFolderDeleted, StateOK, TypeOK
  <2>5. TypeOK'
    BY <1>7, <2>2, <2>3, <2>4 DEF OnFolderDeleted, StateOK, TypeOK, serverVars
  <2>6. AnswersOK'
    BY <1>7 DEF OnFolderDeleted, StateOK, TypeOK, AnswersOK, Task, serverVars
  <2> QED BY <2>5, <2>6 DEF StateOK
<1>8. ASSUME NEW s \in Sync, OnSuccess(s) PROVE StateOK'
  <2>1. sync[s].ver \in 0..MaxVersion /\ sync[s].ver <= version
    BY DEF StateOK, TypeOK, AnswersOK, Task
  <2>2. TypeOK'
    BY <1>8, <2>1, NoTaskOK DEF OnSuccess, StateOK, TypeOK, serverVars
  <2>3. AnswersOK'
    BY <1>8, <2>1 DEF OnSuccess, StateOK, TypeOK, AnswersOK, NoTask, serverVars
  <2> QED BY <2>2, <2>3 DEF StateOK
<1>9. CASE SavePrefs
  BY <1>9 DEF SavePrefs, StateOK, TypeOK, AnswersOK, serverVars
<1>10. CASE Crash
  <2>1. untagged' \subseteq Place
    <3>1. CASE UNCHANGED untagged
      BY <3>1 DEF StateOK, TypeOK
    <3>2. ASSUME NEW s \in Sync, NEW f \in sync[s].upserts,
                 untagged' = untagged \cup {hist[sync[s].ver][f]}
          PROVE  untagged' \subseteq Place
      <4>1. hist[sync[s].ver][f] \in Place \cup {Absent}
        BY DEF StateOK, TypeOK, Task, Tree
      <4>2. hist[sync[s].ver][f] # Absent
        BY DEF StateOK, AnswersOK
      <4> QED BY <3>2, <4>1, <4>2 DEF StateOK, TypeOK
    <3> QED BY <1>10, <3>1, <3>2 DEF Crash, CreateUntagged
  <2>2. TypeOK'
    BY <1>10, <2>1, NoTaskOK DEF Crash, StateOK, TypeOK, serverVars
  <2>3. AnswersOK'
    BY <1>10 DEF Crash, StateOK, TypeOK, AnswersOK, NoTask, serverVars
  <2> QED BY <2>2, <2>3 DEF StateOK
<1>11. CASE UNCHANGED vars
  BY <1>11 DEF StateOK, TypeOK, AnswersOK, vars
<1> QED
  BY <1>1, <1>2, <1>3, <1>4, <1>5, <1>6, <1>7, <1>8, <1>9, <1>10, <1>11
     DEF Next, SyncNext, Deliver

\* Every reachable state is well typed: tokens, answers and local places are
\* what the code may hold, for any number of folders and overlapping syncs.
THEOREM TypeCorrect == Spec => []TypeOK
<1>1. StateOK => TypeOK
  BY DEF StateOK
<1> QED BY InitOK, NextOK, <1>1, PTL DEF Spec

-----------------------------------------------------------------------------
(* Syncs that do not overlap never lose a folder silently. *)

LEMMA InitInv == Init => SyncInv
<1> SUFFICES ASSUME Init PROVE SyncInv
  OBVIOUS
<1>1. Serial
  BY FolderSyncAssumption DEF Init, Serial, NoTask
<1>2. AnswerComplete /\ DeliveredIsNew
  BY DEF Init, AnswerComplete, DeliveredIsNew, NoTask
<1>3. Covered
  <2> SUFFICES ASSUME NEW f \in Folder
               PROVE  \E v \in token..version : loc[f] = Shown(hist[v], f)
    BY DEF Covered
  <2>1. 0 \in token..version
    BY DEF Init
  <2>2. loc[f] = Shown(hist[0], f)
    BY FolderSyncAssumption DEF Init, Shown, EmptyTree
  <2> QED BY <2>1, <2>2
<1> QED BY <1>1, <1>2, <1>3 DEF SyncInv

\* A commit of the server keeps everything: what was a version stays one.
LEMMA ServerKeepsInv ==
  ASSUME StateOK, SyncInv, ServerNext
  PROVE  SyncInv'
<1> USE FolderSyncAssumption
<1>1. PICK t \in Tree : ServerCommits(t)
  BY ServerStep
<1>2. /\ StateOK'
      /\ version' = version + 1
      /\ \A v \in 0..version : hist'[v] = hist[v]
      /\ UNCHANGED <<loc, untagged, token, saved, sync, missed>>
  BY <1>1, CommitStep DEF ServerCommits
<1>3. /\ version \in Nat /\ token \in Nat
      /\ \A s \in Sync : sync[s].ver \in 0..version /\ sync[s].base \in 0..version
  BY DEF StateOK, TypeOK, AnswersOK, Task
<1>4. Serial'
  BY <1>2, <1>3 DEF SyncInv, Serial
<1>5. AnswerComplete'
  BY <1>2, <1>3 DEF SyncInv, AnswerComplete, Unlisted
<1>6. DeliveredIsNew'
  <2> SUFFICES ASSUME NEW s \in Sync, sync[s].phase = "delivering",
                      NEW f \in Unlisted(s) \ missed
               PROVE  \E w \in sync[s].ver..version' : loc[f] = Shown(hist'[w], f)
    BY <1>2 DEF DeliveredIsNew, Unlisted
  <2>1. PICK w \in sync[s].ver..version : loc[f] = Shown(hist[w], f)
    BY DEF SyncInv, DeliveredIsNew
  <2>2. w \in 0..version /\ w \in sync[s].ver..version'
    BY <1>2, <1>3, <2>1
  <2> QED BY <1>2, <2>1, <2>2 DEF Shown
<1>7. Covered'
  <2> SUFFICES ASSUME NEW f \in Folder \ missed
               PROVE  \E w \in token..version' : loc[f] = Shown(hist'[w], f)
    BY <1>2 DEF Covered
  <2>1. PICK w \in token..version : loc[f] = Shown(hist[w], f)
    BY DEF SyncInv, Covered
  <2>2. w \in 0..version /\ w \in token..version'
    BY <1>2, <1>3, <2>1
  <2> QED BY <1>2, <2>1, <2>2 DEF Shown
<1> QED BY <1>4, <1>5, <1>6, <1>7 DEF SyncInv

\* An answer computed at the current version lists all that changed.
LEMMA ResponseKeepsInv ==
  ASSUME StateOK, SyncInv, NEW s \in Sync, SyncResponse(s)
  PROVE  SyncInv'
<1> USE FolderSyncAssumption
<1> DEFINE b == sync[s].base
           up == Changed(b, version) \cap Present(server)
           del == IF b = 0 THEN {} ELSE Changed(b, version) \ Present(server)
<1>1. /\ \A r \in Sync \ {s} : sync'[r] = sync[r]
      /\ sync'[s].phase = "answered" /\ sync'[s].base = b
      /\ sync'[s].ver = version
      /\ sync'[s].upserts = up /\ sync'[s].deletes = del
      /\ sync[s].phase = "sent"
      /\ UNCHANGED <<hist, version, loc, untagged, token, saved, missed>>
  <2>1. sync \in [Sync -> Task]
    BY DEF StateOK, TypeOK
  <2>2. PICK t \in BOOLEAN :
          sync' = [sync EXCEPT ![s] =
            [phase |-> "answered", base |-> b, ver |-> version,
             upserts |-> up, deletes |-> del, tokenless |-> t]]
    BY DEF SyncResponse
  <2> HIDE DEF b, up, del
  <2>3. sync'[s] = [phase |-> "answered", base |-> b, ver |-> version,
                    upserts |-> up, deletes |-> del, tokenless |-> t]
    BY <2>1, <2>2
  <2> QED BY <2>1, <2>2, <2>3 DEF SyncResponse, serverVars
<1>2. \A f \in Folder \ (up \cup del) :
         \/ \A w \in b..version : hist[w][f] = hist[version][f]
         \/ b = 0 /\ hist[version][f] = Absent
  BY DEF Changed, Present, server
<1> HIDE DEF b, up, del
<1>3. Serial'
  BY <1>1 DEF SyncInv, Serial, b
<1>4. AnswerComplete'
  BY <1>1, <1>2 DEF SyncInv, AnswerComplete, Unlisted
<1>5. DeliveredIsNew'
  BY <1>1 DEF SyncInv, DeliveredIsNew, Unlisted
<1>6. Covered'
  BY <1>1 DEF SyncInv, Covered
<1> QED BY <1>3, <1>4, <1>5, <1>6 DEF SyncInv

\* When a delivery begins, what the answer does not list is up to date.
LEMMA BeginKeepsInv ==
  ASSUME StateOK, SyncInv, NEW s \in Sync, DeliverFolderSync(s)
  PROVE  SyncInv'
<1> USE FolderSyncAssumption
<1>1. /\ \A r \in Sync \ {s} : sync'[r] = sync[r]
      /\ sync'[s].phase = "delivering" /\ sync'[s].base = sync[s].base
      /\ sync'[s].ver = sync[s].ver
      /\ sync'[s].upserts = sync[s].upserts /\ sync'[s].deletes = sync[s].deletes
      /\ sync[s].phase = "answered"
      /\ \A r \in Sync : sync[r].phase # "delivering"
      /\ UNCHANGED <<hist, version, loc, untagged, token, saved>>
      /\ missed \subseteq missed'
  BY DEF DeliverFolderSync, StateOK, TypeOK, Task, serverVars, Idle
<1>2. /\ sync[s].base = token /\ sync[s].base <= sync[s].ver
      /\ token \in Nat /\ version \in Nat /\ sync[s].ver \in 0..version
  BY <1>1 DEF SyncInv, Serial, StateOK, TypeOK, AnswersOK, Task
<1>3. Serial'
  BY <1>1 DEF SyncInv, Serial
<1>4. AnswerComplete'
  BY <1>1 DEF SyncInv, AnswerComplete, Unlisted
<1>5. DeliveredIsNew'
  <2> SUFFICES ASSUME NEW f \in Unlisted(s) \ missed'
               PROVE  \E w \in sync[s].ver..version : loc[f] = Shown(hist[w], f)
    BY <1>1 DEF DeliveredIsNew, Unlisted
  <2>1. f \in Folder /\ f \notin missed
    BY <1>1 DEF Unlisted
  <2>2. CASE \A w \in sync[s].base..sync[s].ver : hist[w][f] = hist[sync[s].ver][f]
    <3>1. PICK w \in token..version : loc[f] = Shown(hist[w], f)
      BY <2>1 DEF SyncInv, Covered
    <3>2. CASE w >= sync[s].ver
      BY <1>2, <3>1, <3>2
    <3>3. CASE w < sync[s].ver
      <4>1. hist[w][f] = hist[sync[s].ver][f]
        BY <1>2, <2>2, <3>3
      <4>2. loc[f] = Shown(hist[sync[s].ver], f)
        BY <3>1, <4>1 DEF Shown
      <4> QED BY <1>2, <4>2
    <3> QED BY <1>2, <3>2, <3>3
  <2>3. CASE sync[s].base = 0 /\ hist[sync[s].ver][f] = Absent
    <3>1. f \notin Present(loc) \ sync[s].upserts
      BY <2>3 DEF DeliverFolderSync
    <3>2. loc[f] = Absent
      BY <2>1, <3>1 DEF Present, Unlisted
    <3>3. loc[f] = Shown(hist[sync[s].ver], f)
      BY <2>3, <3>2 DEF Shown
    <3> QED BY <1>2, <3>3
  <2> QED BY <1>1, <2>1, <2>2, <2>3 DEF SyncInv, AnswerComplete
<1>6. Covered'
  BY <1>1 DEF SyncInv, Covered
<1> QED BY <1>3, <1>4, <1>5, <1>6 DEF SyncInv

\* A callback about f that leaves each folder not missed either as it was or as
\* the answer has it keeps the invariant.
LEMMA CallbackKeepsInv ==
  ASSUME StateOK, SyncInv, NEW s \in Sync, NEW f \in Folder,
         sync[s].phase = "delivering",
         \A r \in Sync \ {s} : sync'[r] = sync[r],
         sync'[s].phase = "delivering", sync'[s].base = sync[s].base,
         sync'[s].ver = sync[s].ver,
         sync'[s].upserts \cup sync'[s].deletes
           \in {sync[s].upserts \cup sync[s].deletes,
               (sync[s].upserts \cup sync[s].deletes) \ {f}},
         UNCHANGED <<hist, version, token, saved>>,
         \A g \in Folder \ missed' :
           \/ g # f /\ g \notin missed /\ loc'[g] = loc[g]
           \/ loc'[g] = Shown(hist[sync[s].ver], g)
  PROVE  SyncInv'
<1> USE FolderSyncAssumption
<1>1. /\ sync[s].base = token /\ sync[s].base <= sync[s].ver
      /\ token \in Nat /\ version \in Nat /\ sync[s].ver \in token..version
      /\ \A r \in Sync \ {s} : sync[r].phase = "none"
  BY DEF SyncInv, Serial, StateOK, TypeOK, AnswersOK, Task
<1>2. Serial'
  BY <1>1 DEF SyncInv, Serial
<1>3. AnswerComplete'
  BY <1>1 DEF SyncInv, AnswerComplete, Unlisted
<1>4. DeliveredIsNew'
  <2> SUFFICES ASSUME NEW g \in Unlisted(s)' \ missed'
               PROVE  \E w \in sync[s].ver..version : loc'[g] = Shown(hist[w], g)
    BY <1>1 DEF DeliveredIsNew, Unlisted
  <2>1. CASE g # f /\ g \notin missed /\ loc'[g] = loc[g]
    <3>1. g \in Unlisted(s) \ missed
      BY <2>1 DEF Unlisted
    <3> QED BY <2>1, <3>1 DEF SyncInv, DeliveredIsNew
  <2>2. CASE loc'[g] = Shown(hist[sync[s].ver], g)
    BY <1>1, <2>2
  <2> QED BY <2>1, <2>2 DEF Unlisted
<1>5. Covered'
  <2> SUFFICES ASSUME NEW g \in Folder \ missed'
               PROVE  \E w \in token..version : loc'[g] = Shown(hist[w], g)
    BY DEF Covered
  <2>1. CASE g \notin missed /\ loc'[g] = loc[g]
    BY <2>1 DEF SyncInv, Covered
  <2>2. CASE loc'[g] = Shown(hist[sync[s].ver], g)
    BY <1>1, <2>2
  <2> QED BY <2>1, <2>2
<1> QED BY <1>2, <1>3, <1>4, <1>5 DEF SyncInv

LEMMA UpsertKeepsInv ==
  ASSUME StateOK, SyncInv, NEW s \in Sync, NEW f \in Folder, OnFolderUpserted(s, f)
  PROVE  SyncInv'
<1>1. sync \in [Sync -> Task] /\ loc \in Tree
  BY DEF StateOK, TypeOK
<1>2. /\ \A r \in Sync \ {s} : sync'[r] = sync[r]
      /\ sync'[s] = [sync[s] EXCEPT !.upserts = @ \ {f}]
      /\ sync[s].phase = "delivering"
      /\ UNCHANGED <<hist, version, token, saved>>
  BY <1>1 DEF OnFolderUpserted, serverVars
<1>3. /\ sync'[s].phase = "delivering" /\ sync'[s].base = sync[s].base
      /\ sync'[s].ver = sync[s].ver
      /\ sync'[s].upserts = sync[s].upserts \ {f}
      /\ sync'[s].deletes = sync[s].deletes
  BY <1>1, <1>2 DEF Task
<1>4. f \notin sync[s].deletes
  BY DEF OnFolderUpserted, StateOK, AnswersOK
<1>5. sync'[s].upserts \cup sync'[s].deletes
        = (sync[s].upserts \cup sync[s].deletes) \ {f}
  BY <1>3, <1>4
<1>6. \A g \in Folder \ {f} : loc'[g] = loc[g]
  BY <1>1 DEF OnFolderUpserted, MaybeCreateFolderWithDetails,
       CreateUntagged, UpdateFolderWithDetails, Tree
<1>7. ASSUME NEW g \in Folder \ missed'
      PROVE  \/ g # f /\ g \notin missed /\ loc'[g] = loc[g]
             \/ loc'[g] = Shown(hist[sync[s].ver], g)
  BY <1>6 DEF OnFolderUpserted
<1> QED BY <1>2, <1>3, <1>5, <1>7, CallbackKeepsInv

LEMMA DeleteKeepsInv ==
  ASSUME StateOK, SyncInv, NEW s \in Sync, NEW f \in Folder, OnFolderDeleted(s, f)
  PROVE  SyncInv'
<1>1. sync \in [Sync -> Task] /\ loc \in Tree
  BY DEF StateOK, TypeOK
<1>2. /\ \A r \in Sync \ {s} : sync'[r] = sync[r]
      /\ sync'[s] = [sync[s] EXCEPT !.deletes = @ \ {f}]
      /\ sync[s].phase = "delivering" /\ sync[s].upserts = {}
      /\ UNCHANGED <<hist, version, token, saved>>
  BY <1>1 DEF OnFolderDeleted, serverVars
<1>3. /\ sync'[s].phase = "delivering" /\ sync'[s].base = sync[s].base
      /\ sync'[s].ver = sync[s].ver
      /\ sync'[s].upserts = {}
      /\ sync'[s].deletes = sync[s].deletes \ {f}
  BY <1>1, <1>2 DEF Task
<1>4. sync'[s].upserts \cup sync'[s].deletes
        = (sync[s].upserts \cup sync[s].deletes) \ {f}
  BY <1>2, <1>3
<1>5. ASSUME NEW g \in Folder \ missed'
      PROVE  \/ g # f /\ g \notin missed /\ loc'[g] = loc[g]
             \/ loc'[g] = Shown(hist[sync[s].ver], g)
  BY DEF OnFolderDeleted
<1> QED BY <1>2, <1>3, <1>4, <1>5, CallbackKeepsInv

\* The token may move on because everything delivered is as new as it.
LEMMA SuccessKeepsInv ==
  ASSUME StateOK, SyncInv, NEW s \in Sync, OnSuccess(s)
  PROVE  SyncInv'
<1> USE FolderSyncAssumption
<1>1. sync \in [Sync -> Task] /\ loc \in Tree
  BY DEF StateOK, TypeOK
<1>2. /\ \A r \in Sync \ {s} : sync'[r] = sync[r]
      /\ sync'[s] = NoTask
      /\ sync[s].phase = "delivering"
      /\ sync[s].upserts = {} /\ sync[s].deletes = {}
      /\ UNCHANGED <<hist, version, loc, untagged, saved, missed>>
      /\ token' \in {token, sync[s].ver}
  BY <1>1 DEF OnSuccess, serverVars
<1>3. /\ sync[s].base = token /\ sync[s].ver \in token..version
      /\ token \in Nat /\ version \in Nat /\ saved \in Nat /\ saved <= token
      /\ \A r \in Sync \ {s} : sync[r].phase = "none"
  BY <1>2 DEF SyncInv, Serial, StateOK, TypeOK, AnswersOK, Task
<1>4. \A r \in Sync : sync'[r].phase = "none"
  BY <1>2, <1>3 DEF NoTask
<1>5. Serial'
  <2>1. saved' <= token'
    BY <1>2, <1>3
  <2> QED BY <1>2, <1>4, <2>1 DEF SyncInv, Serial
<1>6. AnswerComplete' /\ DeliveredIsNew'
  BY <1>4 DEF AnswerComplete, DeliveredIsNew
<1>7. Covered'
  <2> SUFFICES ASSUME NEW f \in Folder \ missed
               PROVE  \E v \in token'..version : loc[f] = Shown(hist[v], f)
    BY <1>2 DEF Covered
  <2>1. CASE token' = token
    BY <2>1 DEF SyncInv, Covered
  <2>2. CASE token' = sync[s].ver
    <3>1. f \in Unlisted(s) \ missed
      BY <1>2 DEF Unlisted
    <3> QED BY <1>2, <2>2, <3>1 DEF SyncInv, DeliveredIsNew
  <2> QED BY <1>2, <2>1, <2>2
<1> QED BY <1>5, <1>6, <1>7 DEF SyncInv

\* One sync at a time, and it asks with the token that is stored.
LEMMA StartKeepsInv ==
  ASSUME StateOK, SyncInv, NEW s \in Sync, SyncFolderList(s), "overlap" \notin Faults
  PROVE  SyncInv'
<1>1. /\ \A r \in Sync \ {s} : sync'[r] = sync[r]
      /\ sync'[s].phase = "sent" /\ sync'[s].base = token
      /\ \A r \in Sync : sync[r].phase = "none"
      /\ UNCHANGED <<hist, version, loc, token, saved, missed>>
  BY NoTaskOK DEF SyncFolderList, StateOK, TypeOK, serverVars, NoTask
<1>2. Serial'
  BY <1>1 DEF SyncInv, Serial
<1>3. AnswerComplete' /\ DeliveredIsNew'
  BY <1>1 DEF AnswerComplete, DeliveredIsNew
<1>4. Covered'
  BY <1>1 DEF SyncInv, Covered
<1> QED BY <1>2, <1>3, <1>4 DEF SyncInv

\* A failed sync delivers nothing.
LEMMA FailureKeepsInv ==
  ASSUME StateOK, SyncInv, NEW s \in Sync, OnOperationFailure(s)
  PROVE  SyncInv'
<1>1. /\ \A r \in Sync \ {s} : sync'[r] = sync[r]
      /\ sync'[s].phase = "none"
      /\ UNCHANGED <<hist, version, loc, token, saved, missed>>
  BY DEF OnOperationFailure, StateOK, TypeOK, serverVars, NoTask
<1>2. Serial'
  BY <1>1 DEF SyncInv, Serial
<1>3. AnswerComplete' /\ DeliveredIsNew'
  BY <1>1 DEF SyncInv, AnswerComplete, DeliveredIsNew, Unlisted
<1>4. Covered'
  BY <1>1 DEF SyncInv, Covered
<1> QED BY <1>2, <1>3, <1>4 DEF SyncInv

\* What is on disk is an older token: it covers what the newer one did.
LEMMA CrashKeepsInv ==
  ASSUME StateOK, SyncInv, Crash
  PROVE  SyncInv'
<1>1. /\ \A r \in Sync : sync'[r].phase = "none"
      /\ token' = saved
      /\ UNCHANGED <<hist, version, loc, saved, missed>>
  BY DEF Crash, serverVars, NoTask
<1>2. saved \in Nat /\ token \in Nat /\ saved <= token
  BY DEF StateOK, TypeOK, SyncInv, Serial
<1>3. Serial'
  BY <1>1, <1>2 DEF SyncInv, Serial
<1>4. AnswerComplete' /\ DeliveredIsNew'
  BY <1>1 DEF AnswerComplete, DeliveredIsNew
<1>5. Covered'
  <2> SUFFICES ASSUME NEW f \in Folder \ missed
               PROVE  \E v \in saved..version : loc[f] = Shown(hist[v], f)
    BY <1>1 DEF Covered
  <2>1. PICK v \in token..version : loc[f] = Shown(hist[v], f)
    BY DEF SyncInv, Covered
  <2>2. version \in Nat
    BY FolderSyncAssumption DEF StateOK, TypeOK
  <2> QED BY <1>2, <2>1, <2>2
<1> QED BY <1>3, <1>4, <1>5 DEF SyncInv

LEMMA SavePrefsKeepsInv ==
  ASSUME StateOK, SyncInv, SavePrefs
  PROVE  SyncInv'
<1>1. /\ saved' = token
      /\ UNCHANGED <<hist, version, loc, token, sync, missed>>
  BY DEF SavePrefs, serverVars
<1>2. saved' <= token'
  BY <1>1, FolderSyncAssumption DEF StateOK, TypeOK
<1> QED BY <1>1, <1>2 DEF SyncInv, Serial, AnswerComplete, DeliveredIsNew, Covered, Unlisted

\* The inductive invariant, for syncs that do not overlap.
LEMMA SyncInvariant ==
  ASSUME "overlap" \notin Faults
  PROVE  Spec => [](StateOK /\ SyncInv)
<1>1. StateOK /\ SyncInv /\ [Next]_vars => (StateOK /\ SyncInv)'
  <2> SUFFICES ASSUME StateOK, SyncInv, [Next]_vars PROVE SyncInv'
    BY NextOK
  <2>1. CASE UNCHANGED vars
    BY <2>1 DEF vars, SyncInv, Serial, AnswerComplete, DeliveredIsNew, Covered, Unlisted
  <2>2. CASE \E s \in Sync : SyncNext(s)
    <3> PICK s \in Sync : SyncNext(s)
      BY <2>2
    <3> QED
      BY StartKeepsInv, ResponseKeepsInv, FailureKeepsInv, BeginKeepsInv,
         UpsertKeepsInv, DeleteKeepsInv, SuccessKeepsInv DEF SyncNext, Deliver
  <2> QED
    BY <2>1, <2>2, ServerKeepsInv, SavePrefsKeepsInv, CrashKeepsInv DEF Next
<1> QED BY <1>1, InitOK, InitInv, PTL DEF Spec

\* Whatever fails, crashes or comes without a token: if syncs do not overlap,
\* the copy of a folder no callback failed on is never older than the stored
\* token, so whatever it lacks will be sent again.
THEOREM NeverSilentlyStale ==
  ASSUME "overlap" \notin Faults
  PROVE  Spec => []Covered
<1>1. SyncInv => Covered
  BY DEF SyncInv
<1> QED BY <1>1, SyncInvariant, PTL

\* So a settled account shows, but for the folders a callback failed on,
\* exactly the mail folders of the server.
THEOREM SettledListingMatches ==
  ASSUME "overlap" \notin Faults
  PROVE  Spec => []ListingMatchesExceptMissed
<1>1. StateOK /\ SyncInv => ListingMatchesExceptMissed
  <2> SUFFICES ASSUME StateOK, SyncInv, Settled, NEW f \in Folder \ missed
               PROVE  loc[f] = Shown(server, f)
    BY DEF ListingMatchesExceptMissed
  <2>1. PICK v \in token..version : loc[f] = Shown(hist[v], f)
    BY DEF SyncInv, Covered
  <2>2. v = version
    BY <2>1, FolderSyncAssumption DEF Settled, StateOK, TypeOK
  <2> QED BY <2>1, <2>2 DEF server
<1> QED BY <1>1, SyncInvariant, PTL

-----------------------------------------------------------------------------
(* The local folders stay a tree, whatever the environment does.  The only *)
(* steps that could close a cycle are the creation of a folder, which has  *)
(* no children yet, and a move, which the code refuses below the folder    *)
(* itself; deleting takes a closed set of folders away.                    *)

LEMMA SubtreeClosed ==
  ASSUME NEW t, NEW f \in Folder
  PROVE  /\ f \in Subtree(t, f)
         /\ Subtree(t, f) \subseteq Folder
         /\ \A h \in Present(t) : t[h].parent \in Subtree(t, f) => h \in Subtree(t, f)
BY PresentSubset DEF Subtree

\* Every set of local folders has a member that hangs outside of it.
Rooted(t) ==
  \A S \in SUBSET Present(t) : S # {} => \E f \in S : t[f].parent \notin S

LEMMA WellFormedParts ==
  ASSUME NEW t
  PROVE  WellFormed(t) <=>
           /\ \A f \in Present(t) : t[f].parent \in Present(t) \cup {Root}
           /\ \A f, g \in Present(t) : t[f] = t[g] => f = g
           /\ Rooted(t)
BY DEF WellFormed, Rooted

\* A folder that was not there is created below one that is.
LEMMA CreateKeepsTree ==
  ASSUME TypeOK, LocalTree, NEW f \in Folder, NEW place \in Place,
         loc[f] = Absent, CanCreate(f, place),
         loc' = [loc EXCEPT ![f] = place], UNCHANGED untagged
  PROVE  LocalTree'
<1> USE FolderSyncAssumption
<1>1. /\ place # Absent /\ f \notin Present(loc)
      /\ place.parent \in Present(loc) \cup {Root} /\ place.parent # f
      /\ place \notin untagged /\ \A g \in Folder : loc[g] # place
  BY DEF Place, Present, CanCreate, Found, ContainsChildNamed
<1>2. /\ loc'[f] = place /\ \A g \in Folder \ {f} : loc'[g] = loc[g]
      /\ Present(loc') = Present(loc) \cup {f}
  BY <1>1 DEF TypeOK, Tree, Present
<1>3. \A g \in Present(loc) : loc[g].parent # f
  BY <1>1, WellFormedParts DEF LocalTree
<1>4. \A g \in Present(loc') : loc'[g].parent \in Present(loc') \cup {Root}
  BY <1>1, <1>2, WellFormedParts, PresentSubset DEF LocalTree
<1>5. \A g, h \in Present(loc') : loc'[g] = loc'[h] => g = h
  BY <1>1, <1>2, WellFormedParts, PresentSubset DEF LocalTree
<1>6. Rooted(loc')
  <2> SUFFICES ASSUME NEW S \in SUBSET Present(loc'), S # {}
               PROVE  \E g \in S : loc'[g].parent \notin S
    BY DEF Rooted
  <2>1. CASE S = {f}
    BY <1>1, <1>2, <2>1
  <2>2. CASE S # {f}
    <3>1. S \ {f} \in SUBSET Present(loc) /\ S \ {f} # {}
      BY <1>2, <2>2
    <3>2. PICK g \in S \ {f} : loc[g].parent \notin S \ {f}
      BY <3>1, WellFormedParts DEF LocalTree, Rooted
    <3>3. g \in Present(loc) /\ loc'[g] = loc[g]
      BY <1>2, <3>1, <3>2, PresentSubset
    <3> QED BY <1>3, <3>2, <3>3
  <2> QED BY <2>1, <2>2
<1>7. \A g \in Present(loc') : loc'[g] \notin untagged'
  BY <1>1, <1>2, PresentSubset DEF LocalTree
<1>8. \A u \in untagged' : u.parent \in Present(loc') \cup {Root}
  BY <1>2 DEF LocalTree, Found
<1> QED BY <1>4, <1>5, <1>6, <1>7, <1>8, WellFormedParts DEF LocalTree, Found

LEMMA CreateUntaggedKeepsTree ==
  ASSUME LocalTree, NEW f \in Folder, NEW place,
         CanCreate(f, place), CreateUntagged(place)
  PROVE  LocalTree'
BY PresentSubset DEF LocalTree, CanCreate, CreateUntagged, ContainsChildNamed, Found, WellFormed, Present

\* A folder is moved, not below itself.
LEMMA UpdateKeepsTree ==
  ASSUME TypeOK, LocalTree, NEW f \in Folder, NEW place \in Place,
         loc[f] # Absent, CanUpdate(f, place),
         loc' = [loc EXCEPT ![f] = place], UNCHANGED untagged
  PROVE  LocalTree'
<1> USE FolderSyncAssumption
<1> DEFINE Sub == Subtree(loc, f)
<1>1. /\ place # Absent /\ f \in Present(loc)
      /\ place.parent \in Present(loc) \cup {Root} /\ place.parent \notin Sub
      /\ place \notin untagged /\ \A g \in Folder : loc[g] # place
  BY DEF Place, Present, CanUpdate, Found, ContainsChildNamed
<1>2. /\ loc'[f] = place /\ \A g \in Folder \ {f} : loc'[g] = loc[g]
      /\ Present(loc') = Present(loc)
  BY <1>1 DEF TypeOK, Tree, Present
<1>3. /\ f \in Sub
      /\ \A h \in Present(loc) : loc[h].parent \in Sub => h \in Sub
  BY SubtreeClosed
<1> HIDE DEF Sub
<1>4. \A g \in Present(loc') : loc'[g].parent \in Present(loc') \cup {Root}
  BY <1>1, <1>2, WellFormedParts, PresentSubset DEF LocalTree
<1>5. \A g, h \in Present(loc') : loc'[g] = loc'[h] => g = h
  BY <1>1, <1>2, WellFormedParts, PresentSubset DEF LocalTree
<1>6. Rooted(loc')
  <2> SUFFICES ASSUME NEW S \in SUBSET Present(loc'), S # {}
               PROVE  \E g \in S : loc'[g].parent \notin S
    BY DEF Rooted
  <2>0. S \subseteq Present(loc) /\ Rooted(loc)
    BY <1>2, WellFormedParts DEF LocalTree
  <2>1. CASE S \ Sub # {}
    <3>1. PICK g \in S \ Sub : loc[g].parent \notin S \ Sub
      BY <2>0, <2>1 DEF Rooted
    <3>2. loc'[g] = loc[g] /\ loc[g].parent \notin Sub
      BY <1>2, <1>3, <2>0, <3>1, PresentSubset
    <3> QED BY <3>1, <3>2
  <2>2. CASE S \subseteq Sub /\ f \in S
    BY <1>1, <1>2, <2>2
  <2>3. CASE f \notin S
    <3>1. PICK g \in S : loc[g].parent \notin S
      BY <2>0 DEF Rooted
    <3> QED BY <1>2, <2>0, <2>3, <3>1, PresentSubset
  <2> QED BY <2>1, <2>2, <2>3
<1>7. \A g \in Present(loc') : loc'[g] \notin untagged'
  BY <1>1, <1>2, PresentSubset DEF LocalTree
<1>8. \A u \in untagged' : u.parent \in Present(loc') \cup {Root}
  BY <1>2 DEF LocalTree, Found
<1> QED BY <1>4, <1>5, <1>6, <1>7, <1>8, WellFormedParts DEF LocalTree, Found

\* A folder goes with all that is below it.
LEMMA DeleteKeepsTree ==
  ASSUME TypeOK, LocalTree, NEW f \in Folder, DeleteFolderWithId(f)
  PROVE  LocalTree'
<1> USE FolderSyncAssumption
<1> DEFINE gone == IF loc[f] = Absent THEN {f} ELSE Subtree(loc, f)
<1>1. \A h \in Present(loc) : loc[h].parent \in gone => h \in gone
  <2>1. CASE loc[f] = Absent
    BY <2>1, WellFormedParts DEF LocalTree, Present
  <2> QED BY <2>1, SubtreeClosed
<1>2. Root \notin gone
  BY SubtreeClosed
<1>3. /\ loc' = [g \in Folder |-> IF g \in gone THEN Absent ELSE loc[g]]
      /\ untagged' = {u \in untagged : u.parent \notin gone}
  BY DEF DeleteFolderWithId
<1> HIDE DEF gone
<1>4. /\ Present(loc') = Present(loc) \ gone
      /\ \A g \in Present(loc') : loc'[g] = loc[g]
  BY <1>3 DEF Present
<1>5. \A g \in Present(loc') : loc'[g].parent \in Present(loc') \cup {Root}
  BY <1>1, <1>4, WellFormedParts DEF LocalTree
<1>6. \A g, h \in Present(loc') : loc'[g] = loc'[h] => g = h
  BY <1>4, WellFormedParts DEF LocalTree
<1>7. Rooted(loc')
  BY <1>4, WellFormedParts DEF LocalTree, Rooted
<1>8. \A g \in Present(loc') : loc'[g] \notin untagged'
  BY <1>3, <1>4 DEF LocalTree
<1>9. \A u \in untagged' : u.parent \in Present(loc') \cup {Root}
  BY <1>3, <1>4 DEF LocalTree, Found
<1> QED BY <1>5, <1>6, <1>7, <1>8, <1>9, WellFormedParts DEF LocalTree, Found

LEMMA SameTree ==
  ASSUME LocalTree, UNCHANGED <<loc, untagged>>
  PROVE  LocalTree'
BY DEF LocalTree, WellFormed, Present, Found

\* Under any faults, overlapping syncs and crashes included, the local folders
\* are a tree under the account root without two equal places.
THEOREM LocalTreeKept == Spec => []LocalTree
<1>1. Init => LocalTree
  BY DEF Init, LocalTree, WellFormed, Present, EmptyTree
<1>2. StateOK /\ LocalTree /\ [Next]_vars => LocalTree'
  <2> SUFFICES ASSUME StateOK, LocalTree, [Next]_vars PROVE LocalTree'
    OBVIOUS
  <2>1. TypeOK
    BY DEF StateOK
  <2>2. ASSUME NEW s \in Sync, NEW f \in sync[s].upserts
        PROVE  f \in Folder /\ hist[sync[s].ver][f] \in Place
    BY FolderSyncAssumption, <2>1 DEF StateOK, AnswersOK, TypeOK, Task, Tree
  <2>3. ASSUME NEW s \in Sync, NEW f \in Folder, OnFolderUpserted(s, f) PROVE LocalTree'
    <3> DEFINE place == hist[sync[s].ver][f]
    <3>1. place \in Place
      BY <2>2, <2>3 DEF OnFolderUpserted
    <3>2. MaybeCreateFolderWithDetails(f, place) \/ UpdateFolderWithDetails(f, place)
      BY <2>3 DEF OnFolderUpserted
    <3> HIDE DEF place
    <3>3. CASE MaybeCreateFolderWithDetails(f, place)
      BY <2>1, <3>1, <3>3, CreateKeepsTree, CreateUntaggedKeepsTree, SameTree
      DEF MaybeCreateFolderWithDetails
    <3>4. CASE UpdateFolderWithDetails(f, place)
      BY <2>1, <3>1, <3>4, UpdateKeepsTree, SameTree DEF UpdateFolderWithDetails
    <3> QED BY <3>2, <3>3, <3>4
  <2>4. ASSUME NEW s \in Sync, NEW f \in Folder, OnFolderDeleted(s, f) PROVE LocalTree'
    BY <2>1, <2>4, DeleteKeepsTree, SameTree DEF OnFolderDeleted
  <2>5. CASE Crash
    <3>1. CASE UNCHANGED untagged
      BY <2>5, <3>1, SameTree DEF Crash
    <3>2. ASSUME NEW s \in Sync, NEW f \in sync[s].upserts,
                 CanCreate(f, hist[sync[s].ver][f]),
                 CreateUntagged(hist[sync[s].ver][f])
          PROVE  LocalTree'
      BY <2>2, <3>2, CreateUntaggedKeepsTree
    <3> QED BY <2>5, <3>1, <3>2 DEF Crash
  <2>6. CASE ServerNext \/ SavePrefs \/ UNCHANGED vars
    <3>1. ServerNext => UNCHANGED <<loc, untagged>>
      BY DEF ServerNext, ServerDeletes, ServerPlaces, ServerCommits
    <3> QED BY <2>6, <3>1, SameTree DEF SavePrefs, vars
  <2>7. ASSUME NEW s \in Sync,
               \/ SyncFolderList(s) \/ SyncResponse(s) \/ OnOperationFailure(s)
               \/ DeliverFolderSync(s) \/ OnSuccess(s)
        PROVE  LocalTree'
    BY <2>7, SameTree
    DEF SyncFolderList, SyncResponse, OnOperationFailure, DeliverFolderSync, OnSuccess
  <2> QED BY <2>3, <2>4, <2>5, <2>6, <2>7 DEF Next, SyncNext, Deliver
<1> QED BY <1>1, <1>2, InitOK, NextOK, PTL DEF Spec

-----------------------------------------------------------------------------
(* Subtrees: what is below what is an order. *)

\* A folder below another one hangs on a folder that is below it as well.
LEMMA SubtreeParent ==
  ASSUME NEW t, NEW f \in Folder, NEW k \in Subtree(t, f), k # f
  PROVE  k \in Present(t) /\ t[k].parent \in Subtree(t, f)
<1> DEFINE S == Subtree(t, f) \ {k}
<1>1. f \in S /\ S \subseteq Folder /\ k \notin S
  BY SubtreeClosed
<1>2. PICK m \in Present(t) : t[m].parent \in S /\ m \notin S
  BY <1>1 DEF Subtree
<1>3. m = k
  BY <1>2, SubtreeClosed
<1> QED BY <1>2, <1>3

LEMMA SubtreeTransitive ==
  ASSUME NEW t, NEW f \in Folder, NEW g \in Subtree(t, f)
  PROVE  Subtree(t, g) \subseteq Subtree(t, f)
BY DEF Subtree

\* In a tree no two folders are below each other.
LEMMA SubtreeAntisymmetric ==
  ASSUME NEW t, WellFormed(t), NEW x \in Folder, NEW y \in Subtree(t, x),
         x \in Subtree(t, y)
  PROVE  x = y
<1> SUFFICES ASSUME x # y PROVE FALSE
  OBVIOUS
<1> DEFINE C == {k \in Subtree(t, x) : x \in Subtree(t, k)}
<1>0. y \in Folder /\ Subtree(t, x) \subseteq Folder
  BY SubtreeClosed
<1>1. ASSUME NEW k \in C PROVE k \in Present(t) /\ t[k].parent \in C
  <2>1. CASE k = x
    <3>1. x \in Present(t) /\ t[x].parent \in Subtree(t, y)
      BY <1>0, SubtreeParent
    <3>2. t[x].parent \in Subtree(t, x) /\ t[x].parent \in Folder
      BY <1>0, <3>1, SubtreeTransitive
    <3>3. x \in Subtree(t, t[x].parent)
      BY <3>1, <3>2, SubtreeClosed
    <3> QED BY <2>1, <3>1, <3>2, <3>3
  <2>2. CASE k # x
    <3>1. k \in Present(t) /\ t[k].parent \in Subtree(t, x)
      BY <2>2, SubtreeParent
    <3>2. t[k].parent \in Folder
      BY <1>0, <3>1
    <3>3. k \in Subtree(t, t[k].parent)
      BY <3>1, <3>2, SubtreeClosed
    <3>4. x \in Subtree(t, t[k].parent)
      BY <3>2, <3>3, SubtreeTransitive
    <3> QED BY <3>1, <3>4
  <2> QED BY <2>1, <2>2
<1>2. x \in C
  BY <1>0, SubtreeClosed, SubtreeTransitive
<1>3. C \subseteq Present(t) /\ C # {}
  BY <1>1, <1>2
<1>4. PICK k \in C : t[k].parent \notin C
  BY <1>3, WellFormedParts DEF Rooted
<1> QED BY <1>1, <1>4

-----------------------------------------------------------------------------
(* Without faults every delivery is exact. *)

\* A hierarchy that may follow the ones there were, if the server has no faults.
CleanNext(t) ==
  /\ WellFormed(t) /\ KindsApart(t)
  /\ \A v \in 1..version, f, g \in Folder :
       t[f] # Absent /\ t[f] = hist[v][g] => f = g
  /\ \A v \in 1..version, f \in Folder :
       t[f] # Absent /\ hist[v][f] # Absent /\ hist[v][f].parent = Root
       => t[f] = hist[v][f]

\* What a server action commits, if it has no faults.
LEMMA CleanCommit ==
  ASSUME StateOK, ServerHistory, Faults = {}, ServerNext
  PROVE  \E t \in Tree : ServerCommits(t) /\ CleanNext(t)
<1> USE FolderSyncAssumption
<1>1. /\ server \in Tree /\ version \in 1..version /\ server = hist[version]
      /\ WellFormed(server) /\ KindsApart(server)
  BY DEF StateOK, TypeOK, server, ServerHistory
<1>2. ASSUME NEW f \in Folder, ServerDeletes(f)
      PROVE  \E t \in Tree : ServerCommits(t) /\ CleanNext(t)
  <2> DEFINE gone == Subtree(server, f)
             t == [g \in Folder |-> IF g \in gone THEN Absent ELSE server[g]]
  <2>1. /\ ServerCommits(t)
        /\ t \in Tree
        /\ Present(t) = Present(server) \ gone
        /\ \A g \in Present(t) : t[g] = server[g]
    BY <1>1, <1>2 DEF ServerDeletes, Tree, Present
  <2>2. /\ \A h \in Present(server) : server[h].parent \in gone => h \in gone
        /\ Root \notin gone
    BY SubtreeClosed
  <2> HIDE DEF gone, t
  <2>3. \A g \in Present(t) : t[g].parent \in Present(t) \cup {Root}
    BY <1>1, <2>1, <2>2, WellFormedParts
  <2>4. \A g, h \in Present(t) : t[g] = t[h] => g = h
    BY <1>1, <2>1, WellFormedParts
  <2>5. Rooted(t)
    BY <1>1, <2>1, WellFormedParts DEF Rooted
  <2>6. KindsApart(t)
    BY <1>1, <2>1 DEF KindsApart
  <2>7. \A v \in 1..version, h, g \in Folder :
          t[h] # Absent /\ t[h] = hist[v][g] => h = g
    BY <1>1, <2>1 DEF ServerHistory, Present
  <2>8. \A v \in 1..version, h \in Folder :
          t[h] # Absent /\ hist[v][h] # Absent /\ hist[v][h].parent = Root
          => t[h] = hist[v][h]
    <3>1. \A v \in 1..version : v <= version
      BY DEF StateOK, TypeOK
    <3> QED BY <1>1, <2>1, <3>1 DEF ServerHistory, Present
  <2> QED BY <2>1, <2>3, <2>4, <2>5, <2>6, <2>7, <2>8, WellFormedParts DEF CleanNext
<1>3. ASSUME NEW f \in Folder, NEW place \in Place, ServerPlaces(f, place)
      PROVE  \E t \in Tree : ServerCommits(t) /\ CleanNext(t)
  <2> DEFINE t == [server EXCEPT ![f] = place]
  <2>1. /\ ServerCommits(t) /\ WellFormed(t) /\ KindsApart(t)
        /\ NeverUsed(f, place)
        /\ IF server[f] = Absent
             THEN \A v \in 1..version : hist[v][f] = Absent
             ELSE server[f].parent # Root
    BY <1>3 DEF ServerPlaces
  <2>2. /\ t \in Tree /\ t[f] = place
        /\ \A g \in Folder \ {f} : t[g] = server[g]
    BY <1>1 DEF Tree
  <2>3. \A v \in 1..version : v <= version
    BY DEF StateOK, TypeOK
  <2> HIDE DEF t
  <2>4. ASSUME NEW v \in 1..version, NEW h \in Folder, NEW g \in Folder,
               t[h] # Absent, t[h] = hist[v][g]
        PROVE  h = g
    BY <1>1, <2>1, <2>2, <2>4 DEF ServerHistory, NeverUsed
  <2>5. ASSUME NEW v \in 1..version, NEW h \in Folder,
               t[h] # Absent, hist[v][h] # Absent, hist[v][h].parent = Root
        PROVE  t[h] = hist[v][h]
    <3>1. server[h] # Absent => server[h] = hist[v][h]
      BY <1>1, <2>3, <2>5 DEF ServerHistory
    <3> QED BY <2>1, <2>2, <2>5, <3>1
  <2> QED BY <2>1, <2>2, <2>4, <2>5 DEF CleanNext
<1> QED BY <1>2, <1>3 DEF ServerNext

\* So the server's history stays as it was, and the client sees no difference.
LEMMA ServerKeepsMirror ==
  ASSUME StateOK, Serial, MirrorInv, Faults = {}, ServerNext
  PROVE  MirrorInv'
<1> USE FolderSyncAssumption
<1>1. ServerHistory
  BY DEF MirrorInv
<1>2. PICK t \in Tree : ServerCommits(t) /\ CleanNext(t)
  BY <1>1, CleanCommit
<1>3. /\ version' = version + 1 /\ version \in Nat /\ version + 1 \in 0..MaxVersion
      /\ \A v \in 0..version : hist'[v] = hist[v]
      /\ hist'[version + 1] = t
      /\ UNCHANGED <<loc, untagged, token, saved, sync, missed>>
  BY <1>2, CommitStep DEF ServerCommits, StateOK, TypeOK
<1>4. \A v \in 1..version' : \/ v \in 1..version /\ hist'[v] = hist[v]
                             \/ v = version + 1 /\ hist'[v] = t
  BY <1>3
<1>5. ServerHistory'
  <2>1. \A v \in 1..version' : WellFormed(hist'[v]) /\ KindsApart(hist'[v])
    BY <1>1, <1>2, <1>4 DEF ServerHistory, CleanNext
  <2>2. \A v, w \in 1..version', f, g \in Folder :
          hist'[v][f] # Absent /\ hist'[v][f] = hist'[w][g] => f = g
    BY <1>1, <1>2, <1>4, WellFormedParts DEF ServerHistory, CleanNext, Present
  <2>3. ASSUME NEW v \in 1..version', NEW w \in 1..version', NEW f \in Folder,
               v <= w, hist'[v][f] # Absent, hist'[w][f] # Absent,
               hist'[v][f].parent = Root
        PROVE  hist'[w][f] = hist'[v][f]
    <3>1. CASE w \in 1..version
      <4>1. v \in 1..version
        BY <1>3, <2>3, <3>1
      <4> QED BY <1>1, <1>4, <2>3, <3>1, <4>1, <1>3 DEF ServerHistory
    <3>2. CASE w = version + 1
      BY <1>2, <1>3, <1>4, <2>3, <3>2 DEF CleanNext
    <3> QED BY <1>4, <3>1, <3>2
  <2> QED BY <2>1, <2>2, <2>3 DEF ServerHistory
<1>6. NothingMissed'
  BY <1>3 DEF MirrorInv, NothingMissed
<1>7. /\ token \in 0..version
      /\ \A s \in Sync : sync[s].ver \in 0..version /\ sync[s].base \in 0..version
  BY DEF StateOK, TypeOK, AnswersOK, Task
<1>8. (Idle => \A f \in Folder : loc[f] = Shown(hist[token], f))'
  BY <1>3, <1>7 DEF MirrorInv, Idle, Shown
<1>9. (\A s \in Sync : sync[s].phase = "delivering" => DeliveredExactly(s))'
  BY <1>3, <1>7 DEF MirrorInv, DeliveredExactly, Unlisted, Shown
<1> QED BY <1>5, <1>6, <1>8, <1>9 DEF MirrorInv
LEMMA InitMirror ==
  ASSUME Init, Faults = {}
  PROVE  MirrorInv
<1> USE FolderSyncAssumption
<1>1. ServerHistory
  <2>1. version = 1 /\ WellFormed(hist[1]) /\ KindsApart(hist[1])
    BY DEF Init
  <2>2. \A v \in 1..version : v = 1
    BY <2>1
  <2> QED BY <2>1, <2>2 DEF ServerHistory, WellFormed, Present
<1>2. NothingMissed
  BY DEF Init, NothingMissed, NoTask
<1>3. \A f \in Folder : loc[f] = Shown(hist[token], f)
  BY DEF Init, Shown, EmptyTree
<1>4. \A s \in Sync : sync[s].phase # "delivering"
  BY DEF Init, NoTask
<1> QED BY <1>1, <1>2, <1>3, <1>4 DEF MirrorInv

\* Starting a sync, its answer and its failure change nothing but the task.
LEMMA TaskKeepsMirror ==
  ASSUME StateOK, MirrorInv, Faults = {}, NEW s \in Sync,
         SyncFolderList(s) \/ SyncResponse(s) \/ OnOperationFailure(s)
  PROVE  /\ MirrorInv'
         /\ Idle' = Idle
         /\ UNCHANGED <<hist, version, loc, token>>
<1>1. /\ UNCHANGED <<hist, version, loc, untagged, token, missed>>
      /\ \A r \in Sync \ {s} : sync'[r] = sync[r]
      /\ sync[s].phase # "delivering" /\ sync'[s].phase # "delivering"
      /\ ~sync'[s].tokenless
  <2>1. sync \in [Sync -> Task]
    BY DEF StateOK, TypeOK
  <2>2. CASE SyncFolderList(s)
    BY <2>1, <2>2 DEF SyncFolderList, serverVars, NoTask
  <2>3. CASE SyncResponse(s)
    BY <2>1, <2>3 DEF SyncResponse, serverVars
  <2>4. CASE OnOperationFailure(s)
    BY <2>1, <2>4 DEF OnOperationFailure, serverVars, NoTask
  <2> QED BY <2>2, <2>3, <2>4
<1>2. ServerHistory' /\ NothingMissed'
  BY <1>1 DEF MirrorInv, ServerHistory, NothingMissed
<1>3. Idle' = Idle
  BY <1>1 DEF Idle
<1>4. (Idle => \A f \in Folder : loc[f] = Shown(hist[token], f))'
  BY <1>1, <1>3 DEF MirrorInv
<1>5. (\A r \in Sync : sync[r].phase = "delivering" => DeliveredExactly(r))'
  BY <1>1 DEF MirrorInv, DeliveredExactly, Unlisted
<1> QED BY <1>1, <1>2, <1>3, <1>4, <1>5 DEF MirrorInv

\* When a delivery begins, what the answer does not list is the same at both
\* its versions.
LEMMA BeginKeepsMirror ==
  ASSUME StateOK, SyncInv, MirrorInv, NEW s \in Sync, DeliverFolderSync(s)
  PROVE  MirrorInv'
<1>1. /\ \A r \in Sync \ {s} : sync'[r] = sync[r] /\ sync[r].phase # "delivering"
      /\ sync'[s].phase = "delivering" /\ sync'[s].base = sync[s].base
      /\ sync'[s].ver = sync[s].ver /\ sync'[s].tokenless = sync[s].tokenless
      /\ sync'[s].upserts = sync[s].upserts /\ sync'[s].deletes = sync[s].deletes
      /\ sync[s].phase = "answered" /\ Idle
      /\ UNCHANGED <<hist, version, loc, untagged, token>>
  BY DEF DeliverFolderSync, StateOK, TypeOK, Task, serverVars, Idle
<1>2. /\ \A f \in Folder : loc[f] = Shown(hist[sync[s].base], f)
      /\ hist[0] = EmptyTree
      /\ sync[s].base \in sync[s].base..sync[s].ver
  BY <1>1 DEF MirrorInv, SyncInv, Serial, StateOK, TypeOK, AnswersOK, Task
<1>3. ASSUME NEW f \in Unlisted(s)
      PROVE  loc[f] = Shown(hist[sync[s].ver], f)
  <2>1. CASE \A w \in sync[s].base..sync[s].ver : hist[w][f] = hist[sync[s].ver][f]
    BY <1>2, <2>1 DEF Shown, Unlisted
  <2>2. CASE sync[s].base = 0 /\ hist[sync[s].ver][f] = Absent
    BY <1>2, <2>2 DEF Shown, Unlisted, EmptyTree
  <2> QED BY <1>1, <2>1, <2>2 DEF SyncInv, AnswerComplete
<1>4. DeliveredExactly(s)'
  BY <1>1, <1>2, <1>3 DEF DeliveredExactly, Unlisted
<1>5. missed' = {}
  <2>1. CASE sync[s].base = 0
    <3>1. Present(loc) = {}
      BY <1>2, <2>1 DEF Present, Shown, EmptyTree
    <3> QED BY <3>1 DEF DeliverFolderSync, MirrorInv, NothingMissed
  <2> QED BY <2>1 DEF DeliverFolderSync, MirrorInv, NothingMissed
<1>6. ServerHistory' /\ NothingMissed'
  BY <1>1, <1>5 DEF MirrorInv, ServerHistory, NothingMissed
<1>7. ~Idle'
  BY <1>1 DEF Idle
<1> QED BY <1>1, <1>4, <1>6, <1>7 DEF MirrorInv

\* What a listed folder hangs on is there, if what is above it is not listed.
LEMMA ParentThere ==
  ASSUME StateOK, SyncInv, MirrorInv, NEW s \in Sync, sync[s].phase = "delivering",
         NEW h \in MailFolder, h \in Present(hist[sync[s].ver]),
         hist[sync[s].ver][h].parent \notin sync[s].upserts
  PROVE  /\ sync[s].ver \in 1..version
         /\ Found(hist[sync[s].ver][h].parent)
<1> USE FolderSyncAssumption
<1> DEFINE t == hist[sync[s].ver]
           q == t[h].parent
<1>1. /\ h \in Folder /\ sync[s].ver \in 0..version /\ version \in Nat
      /\ \A g \in sync[s].deletes : t[g] = Absent
  BY DEF StateOK, TypeOK, AnswersOK, Task, Present
<1>2. sync[s].ver # 0
  BY DEF SyncInv, Serial, EmptyTree, Present
<1>3. sync[s].ver \in 1..version /\ WellFormed(t) /\ KindsApart(t)
  BY <1>1, <1>2 DEF MirrorInv, ServerHistory
<1>4. CASE q = Root
  BY <1>3, <1>4 DEF Found
<1>5. CASE q # Root
  <2>1. q \in Present(t) /\ q \in MailFolder
    BY <1>3, <1>5, WellFormedParts DEF KindsApart
  <2>2. q \in Unlisted(s)
    BY <1>1, <2>1 DEF Unlisted, Present
  <2>3. loc[q] = Shown(t, q)
    BY <2>2 DEF MirrorInv, DeliveredExactly, Unlisted
  <2> QED BY <1>3, <2>1, <2>3 DEF Found, Present, Shown
<1> QED BY <1>4, <1>5

\* A move the answer asks for never goes below the moved folder itself: all
\* that is above its new parent is already as the answer has it.
LEMMA NoCycle ==
  ASSUME StateOK, SyncInv, MirrorInv, NEW s \in Sync, sync[s].phase = "delivering",
         NEW f \in sync[s].upserts, f \in MailFolder,
         \A g \in sync[s].upserts \ {f} : f \notin Subtree(hist[sync[s].ver], g)
  PROVE  /\ hist[sync[s].ver][f].parent \notin sync[s].upserts
         /\ hist[sync[s].ver][f].parent \notin Subtree(loc, f)
<1> USE FolderSyncAssumption
<1> DEFINE t == hist[sync[s].ver]
           p == t[f].parent
           above == {g \in Folder \ {f} : f \in Subtree(t, g)}
           S == Folder \ above
<1>1. /\ f \in Folder /\ sync[s].ver \in 0..version /\ version \in Nat
      /\ f \in Present(t)
      /\ sync[s].upserts \subseteq Folder
      /\ \A g \in sync[s].deletes : t[g] = Absent
  BY DEF StateOK, TypeOK, AnswersOK, Task, Present
<1>2. sync[s].ver # 0
  BY <1>1 DEF SyncInv, Serial, EmptyTree, Present
<1>3. WellFormed(t)
  BY <1>1, <1>2 DEF MirrorInv, ServerHistory
<1>4. p # f
  <2>1. {f} \in SUBSET Present(t) /\ {f} # {}
    BY <1>1
  <2>2. Rooted(t)
    BY <1>3, WellFormedParts
  <2>3. \E g \in {f} : t[g].parent \notin {f}
    <3> HIDE DEF t
    <3> QED BY <2>1, <2>2 DEF Rooted
  <2> QED BY <2>3
<1>5. p \in Folder => p \in above
  BY <1>1, <1>4, SubtreeClosed
<1>6. p \notin sync[s].upserts
  BY <1>1, <1>4, <1>5
<1>7. ASSUME NEW h \in Present(loc), loc[h].parent \in S PROVE h \in S
  <2> SUFFICES ASSUME h \in above PROVE FALSE
    BY PresentSubset
  <2>1. f \in Subtree(t, h) /\ h # f /\ h \in Folder /\ h \notin sync[s].upserts
    OBVIOUS
  <2>2. \E k \in Present(t) : t[k].parent = h
    <3>1. PICK k \in Present(t) : t[k].parent \in {h} /\ k \notin {h}
      BY <2>1 DEF Subtree
    <3> QED BY <3>1
  <2>3. h \in Present(t)
    BY <1>3, <2>1, <2>2, WellFormedParts
  <2>4. h \in Unlisted(s)
    BY <1>1, <2>1, <2>3 DEF Unlisted, Present
  <2>5. loc[h] = t[h]
    <3>1. loc[h] = Shown(t, h)
      BY <2>4 DEF MirrorInv, DeliveredExactly, Unlisted
    <3> QED BY <3>1 DEF Shown, Present
  <2> DEFINE q == t[h].parent
  <2>6. q \in Folder /\ q \in S
    BY <1>7, <2>5
  <2>7. h \in Subtree(t, q)
    BY <2>3, <2>6, SubtreeClosed
  <2>8. f \in Subtree(t, q)
    BY <2>1, <2>6, <2>7, SubtreeTransitive
  <2>9. q = f
    BY <2>6, <2>8
  <2>10. h \in Subtree(t, f)
    BY <2>7, <2>9
  <2> QED BY <1>1, <1>3, <2>1, <2>10, SubtreeAntisymmetric
<1>8. f \in S /\ S \subseteq Folder
  BY <1>1
<1>9. p \in Subtree(loc, f) => p \in S
  BY <1>7, <1>8 DEF Subtree
<1>10. p \in Subtree(loc, f) => p \in Folder
  BY <1>1, SubtreeClosed
<1> QED BY <1>5, <1>6, <1>9, <1>10

\* So a callback about a listed folder makes it what the answer has.
LEMMA UpsertWorks ==
  ASSUME StateOK, SyncInv, MirrorInv, Faults = {},
         NEW s \in Sync, NEW f \in Folder, OnFolderUpserted(s, f)
  PROVE  /\ loc' = [loc EXCEPT ![f] = Shown(hist[sync[s].ver], f)]
         /\ UNCHANGED untagged
         /\ missed' = {}
<1> USE FolderSyncAssumption
<1> DEFINE t == hist[sync[s].ver]
           base == hist[sync[s].base]
           place == t[f]
<1>1. /\ sync[s].phase = "delivering" /\ f \in sync[s].upserts
      /\ \A g \in sync[s].upserts \ {f} : f \notin Subtree(t, g)
      /\ MaybeCreateFolderWithDetails(f, place) \/ UpdateFolderWithDetails(f, place)
      /\ loc \in Tree /\ untagged = {} /\ missed = {}
      /\ missed' = IF loc'[f] = Shown(t, f) THEN missed \ {f} ELSE missed \cup {f}
  BY DEF OnFolderUpserted, StateOK, TypeOK, MirrorInv, NothingMissed
<1>2. /\ loc[f] = Shown(base, f) /\ f \in Present(t)
      /\ sync[s].base \in 0..sync[s].ver /\ sync[s].ver \in 0..version
      /\ version \in Nat
      /\ sync[s].base = 0 => loc[f] = Absent
  BY <1>1 DEF MirrorInv, DeliveredExactly, StateOK, TypeOK, AnswersOK, Task, Present,
              SyncInv, Serial, EmptyTree, Shown
<1>3. CASE f \notin MailFolder
  <2>1. loc[f] = Absent /\ Shown(t, f) = Absent
    BY <1>2, <1>3 DEF Shown
  <2>2. UNCHANGED <<loc, untagged>>
    BY <1>1, <1>3, <2>1 DEF MaybeCreateFolderWithDetails, UpdateFolderWithDetails, CanCreate
  <2> QED BY <1>1, <2>1, <2>2 DEF Tree
<1>4. CASE f \in MailFolder
  <2>1. /\ place.parent \notin sync[s].upserts
        /\ place.parent \notin Subtree(loc, f)
    BY <1>1, <1>4, NoCycle
  <2>2. sync[s].ver \in 1..version /\ Found(place.parent)
    BY <1>1, <1>2, <1>4, <2>1, ParentThere
  <2>3. ASSUME NEW g \in Folder, loc[g] = place PROVE g = f
    <3>1. place # Absent
      BY <1>2 DEF Present
    <3>2. /\ sync[s].base = 0 => hist[sync[s].base][g] = Absent
          /\ loc[g] \in {Shown(base, g), Shown(t, g), Absent}
      BY <1>1 DEF MirrorInv, DeliveredExactly, Unlisted, SyncInv, Serial, EmptyTree
    <3>3. \/ place = t[g]
          \/ place = base[g] /\ sync[s].base # 0
      BY <2>3, <3>1, <3>2 DEF Shown
    <3>4. PICK v \in 1..version : hist[v][g] = place
      BY <1>2, <2>2, <3>3
    <3> QED BY <2>2, <3>1, <3>4 DEF MirrorInv, ServerHistory
  <2>4. CASE loc[f] = Absent
    <3>1. CanCreate(f, place)
      BY <1>1, <1>2, <1>4, <2>2, <2>3, <2>4 DEF CanCreate, ContainsChildNamed, Present
    <3>2. loc' = [loc EXCEPT ![f] = place] /\ UNCHANGED untagged
      BY <1>1, <2>4, <3>1 DEF MaybeCreateFolderWithDetails, UpdateFolderWithDetails
    <3> QED BY <1>1, <1>4, <3>2 DEF Shown, Tree
  <2>5. CASE loc[f] # Absent /\ loc[f] = place
    <3>1. ~CanUpdate(f, place)
      BY <2>5 DEF CanUpdate, ContainsChildNamed
    <3>2. UNCHANGED <<loc, untagged>>
      BY <1>1, <2>5, <3>1 DEF MaybeCreateFolderWithDetails, UpdateFolderWithDetails
    <3> QED BY <1>1, <1>4, <2>5, <3>2 DEF Shown, Tree
  <2>6. CASE loc[f] # Absent /\ loc[f] # place
    <3>1. sync[s].base \in 1..version /\ loc[f] = base[f] /\ sync[s].base <= sync[s].ver
      BY <1>2, <1>4, <2>6 DEF Shown
    <3>2. loc[f].parent # Root
      BY <1>2, <2>2, <2>6, <3>1 DEF MirrorInv, ServerHistory, Present
    <3>3. CanUpdate(f, place)
      BY <1>1, <2>1, <2>2, <2>3, <2>6, <3>2 DEF CanUpdate, ContainsChildNamed
    <3>4. loc' = [loc EXCEPT ![f] = place] /\ UNCHANGED untagged
      BY <1>1, <2>6, <3>3 DEF MaybeCreateFolderWithDetails, UpdateFolderWithDetails
    <3> QED BY <1>1, <1>4, <3>4 DEF Shown, Tree
  <2> QED BY <2>4, <2>5, <2>6
<1> QED BY <1>3, <1>4

LEMMA UpsertKeepsMirror ==
  ASSUME StateOK, SyncInv, MirrorInv, Faults = {},
         NEW s \in Sync, NEW f \in Folder, OnFolderUpserted(s, f)
  PROVE  MirrorInv'
<1>1. /\ loc' = [loc EXCEPT ![f] = Shown(hist[sync[s].ver], f)]
      /\ UNCHANGED untagged /\ missed' = {} /\ loc \in Tree
  BY UpsertWorks DEF StateOK, TypeOK
<1>2. /\ \A r \in Sync \ {s} : sync'[r] = sync[r] /\ sync[r].phase # "delivering"
      /\ sync'[s].phase = "delivering" /\ sync'[s].base = sync[s].base
      /\ sync'[s].ver = sync[s].ver /\ sync'[s].tokenless = sync[s].tokenless
      /\ sync'[s].upserts = sync[s].upserts \ {f}
      /\ sync'[s].deletes = sync[s].deletes
      /\ sync[s].phase = "delivering"
      /\ f \in sync[s].upserts /\ f \notin sync[s].deletes
      /\ UNCHANGED <<hist, version, token>>
  BY DEF OnFolderUpserted, StateOK, TypeOK, AnswersOK, Task, serverVars, SyncInv, Serial
<1>3. DeliveredExactly(s)
  BY <1>2 DEF MirrorInv
<1>4. /\ loc'[f] = Shown(hist[sync[s].ver], f)
      /\ \A g \in Folder \ {f} : loc'[g] = loc[g]
  BY <1>1 DEF Tree
<1>5. DeliveredExactly(s)'
  BY <1>2, <1>3, <1>4 DEF DeliveredExactly, Unlisted
<1>6. ServerHistory' /\ NothingMissed'
  BY <1>1, <1>2 DEF MirrorInv, ServerHistory, NothingMissed
<1>7. ~Idle'
  BY <1>2 DEF Idle
<1> QED BY <1>2, <1>5, <1>6, <1>7 DEF MirrorInv

\* What a deletion takes along is deleted in the answer as well: the others
\* already hang where the answer has them.
LEMMA DeleteWorks ==
  ASSUME StateOK, SyncInv, MirrorInv, Faults = {},
         NEW s \in Sync, NEW f \in Folder, OnFolderDeleted(s, f)
  PROVE  /\ loc'[f] = Absent
         /\ \A g \in Folder : \/ loc'[g] = loc[g]
                              \/ loc'[g] = Absent /\ hist[sync[s].ver][g] = Absent
<1> USE FolderSyncAssumption
<1> DEFINE t == hist[sync[s].ver]
           S == {g \in Folder : t[g] = Absent}
<1>1. /\ sync[s].phase = "delivering" /\ sync[s].upserts = {}
      /\ f \in sync[s].deletes /\ t[f] = Absent
      /\ \A g \in sync[s].deletes : t[g] = Absent
      /\ DeleteFolderWithId(f)
  BY DEF OnFolderDeleted, StateOK, AnswersOK
<1>2. ASSUME NEW h \in Present(loc), loc[h].parent \in S PROVE h \in S
  <2> SUFFICES ASSUME t[h] # Absent PROVE FALSE
    BY PresentSubset
  <2>1. h \in Unlisted(s) /\ h \in Present(t)
    BY <1>1, PresentSubset DEF Unlisted, Present
  <2>2. loc[h] = t[h] /\ h \in MailFolder
    <3>1. loc[h] = Shown(t, h)
      BY <1>1, <2>1 DEF MirrorInv, DeliveredExactly, Unlisted
    <3> QED BY <3>1 DEF Shown, Present
  <2>3. t[h].parent \notin sync[s].upserts
    BY <1>1
  <2>4. sync[s].ver \in 1..version
    BY <1>1, <2>1, <2>2, <2>3, ParentThere
  <2>5. t[h].parent \in Present(t) \cup {Root}
    BY <2>1, <2>4, WellFormedParts DEF MirrorInv, ServerHistory
  <2> QED BY <1>2, <2>2, <2>5 DEF Present
<1>3. f \in S /\ S \subseteq Folder
  BY <1>1
<1>4. Subtree(loc, f) \subseteq S
  BY <1>2, <1>3 DEF Subtree
<1>5. f \in Subtree(loc, f)
  BY SubtreeClosed
<1> QED BY <1>1, <1>3, <1>4, <1>5 DEF DeleteFolderWithId

LEMMA DeleteKeepsMirror ==
  ASSUME StateOK, SyncInv, MirrorInv, Faults = {},
         NEW s \in Sync, NEW f \in Folder, OnFolderDeleted(s, f)
  PROVE  MirrorInv'
<1>1. /\ loc'[f] = Absent
      /\ \A g \in Folder : \/ loc'[g] = loc[g]
                           \/ loc'[g] = Absent /\ hist[sync[s].ver][g] = Absent
  BY DeleteWorks
<1>2. /\ \A r \in Sync \ {s} : sync'[r] = sync[r] /\ sync[r].phase # "delivering"
      /\ sync'[s].phase = "delivering" /\ sync'[s].base = sync[s].base
      /\ sync'[s].ver = sync[s].ver /\ sync'[s].tokenless = sync[s].tokenless
      /\ sync'[s].upserts = {} /\ sync[s].upserts = {}
      /\ sync'[s].deletes = sync[s].deletes \ {f}
      /\ sync[s].phase = "delivering" /\ hist[sync[s].ver][f] = Absent
      /\ UNCHANGED <<hist, version, token>>
  BY DEF OnFolderDeleted, StateOK, TypeOK, AnswersOK, Task, serverVars, SyncInv, Serial
<1>3. DeliveredExactly(s)
  BY <1>2 DEF MirrorInv
<1>4. DeliveredExactly(s)'
  BY <1>1, <1>2, <1>3 DEF DeliveredExactly, Unlisted, Shown
<1>5. untagged' = {}
  BY DEF OnFolderDeleted, DeleteFolderWithId, MirrorInv, NothingMissed
<1>6. missed' = {}
  <2>1. \A g \in Folder : g = f \/ loc'[g] # loc[g]
                          => loc'[g] = Shown(hist[sync[s].ver], g)
    BY <1>1, <1>2 DEF Shown
  <2>2. missed = {}
    BY DEF MirrorInv, NothingMissed
  <2> QED BY <2>1, <2>2 DEF OnFolderDeleted
<1>7. ServerHistory' /\ NothingMissed'
  BY <1>2, <1>5, <1>6 DEF MirrorInv, ServerHistory, NothingMissed
<1>8. ~Idle'
  BY <1>2 DEF Idle
<1> QED BY <1>2, <1>4, <1>7, <1>8 DEF MirrorInv

\* With nothing listed any more the listing is the answer's version, whose
\* token is stored now.
LEMMA SuccessKeepsMirror ==
  ASSUME StateOK, SyncInv, MirrorInv, Faults = {}, NEW s \in Sync, OnSuccess(s)
  PROVE  /\ MirrorInv' /\ ~Idle /\ Idle'
         /\ token' \in token..version
         /\ UNCHANGED <<hist, version, loc>>
<1>1. /\ \A r \in Sync \ {s} : sync'[r] = sync[r] /\ sync[r].phase = "none"
      /\ sync'[s] = NoTask
      /\ sync[s].phase = "delivering"
      /\ sync[s].upserts = {} /\ sync[s].deletes = {}
      /\ token' = sync[s].ver
      /\ UNCHANGED <<hist, version, loc, untagged, missed>>
  BY DEF OnSuccess, StateOK, TypeOK, SyncInv, Serial, serverVars, MirrorInv, NothingMissed
<1>2. sync[s].ver \in token..version
  BY <1>1 DEF StateOK, TypeOK, AnswersOK, Task, SyncInv, Serial
<1>3. \A r \in Sync : sync'[r].phase = "none" /\ ~sync'[r].tokenless
  BY <1>1 DEF NoTask, MirrorInv, NothingMissed
<1>4. \A f \in Folder : loc[f] = Shown(hist[sync[s].ver], f)
  BY <1>1 DEF MirrorInv, DeliveredExactly, Unlisted
<1>5. ServerHistory' /\ NothingMissed'
  BY <1>1, <1>3 DEF MirrorInv, ServerHistory, NothingMissed
<1>6. ~Idle /\ Idle'
  BY <1>1, <1>3 DEF Idle
<1> QED BY <1>1, <1>2, <1>3, <1>4, <1>5, <1>6 DEF MirrorInv

\* The inductive invariant of the refinement.
LEMMA MirrorInvariant ==
  ASSUME Faults = {}
  PROVE  Spec => [](StateOK /\ SyncInv /\ MirrorInv)
<1>1. Init => MirrorInv
  BY InitMirror
<1>2. StateOK /\ SyncInv /\ MirrorInv /\ [Next]_vars => MirrorInv'
  <2> SUFFICES ASSUME StateOK, SyncInv, MirrorInv, [Next]_vars PROVE MirrorInv'
    OBVIOUS
  <2>1. CASE ServerNext
    BY <2>1, ServerKeepsMirror DEF SyncInv
  <2>2. ASSUME NEW s \in Sync, SyncNext(s) PROVE MirrorInv'
    BY <2>2, TaskKeepsMirror, BeginKeepsMirror, UpsertKeepsMirror, DeleteKeepsMirror,
       SuccessKeepsMirror DEF SyncNext, Deliver
  <2>3. ~SavePrefs /\ ~Crash
    BY DEF SavePrefs, Crash
  <2>4. CASE UNCHANGED vars
    BY <2>4 DEF vars, MirrorInv, ServerHistory, NothingMissed, DeliveredExactly, Unlisted, Idle
  <2> QED BY <2>1, <2>2, <2>3, <2>4 DEF Next
<1>3. Spec => [](StateOK /\ SyncInv)
  BY SyncInvariant
<1> QED BY <1>1, <1>2, <1>3, PTL DEF Spec

\* Without faults the listing between two deliveries is exactly that of the
\* stored token, and during one every folder is the old token's or the new one's.
THEOREM DeliveriesExact ==
  ASSUME Faults = {}
  PROVE  Spec => []MirrorInv
BY MirrorInvariant, PTL

\* What is seen of the listing is always the version of the stored token.
SeesToken == ObservedListing = [f \in Folder |-> Shown(hist[token], f)]

LEMMA ObservedIsSnapshot == StateOK /\ MirrorInv => SeesToken
<1> SUFFICES ASSUME StateOK, MirrorInv PROVE SeesToken
  OBVIOUS
<1>1. CASE Idle
  <2>1. loc = [f \in Folder |-> loc[f]]
    BY DEF StateOK, TypeOK, Tree
  <2> QED BY <1>1, <2>1 DEF MirrorInv, ObservedListing, SeesToken
<1>2. CASE ~Idle
  BY <1>2 DEF ObservedListing, SeesToken
<1> QED BY <1>1, <1>2

\* SyncFolderList, its callbacks and the stored token implement the promise of
\* module Mirror: between two turns of the event loop the listing is the mail
\* part of the server's hierarchy at one version, and it never goes back.
THEOREM MirrorImplemented ==
  ASSUME Faults = {}
  PROVE  Spec => ImplementsMirror
<1>1. Init => Promise!Init
  <2> SUFFICES ASSUME Init PROVE Promise!Init
    OBVIOUS
  <2>1. Idle
    BY DEF Init, Idle, NoTask
  <2> QED BY <2>1 DEF Init, Promise!Init, ObservedListing, EmptyTree
<1>2. StateOK /\ SyncInv /\ MirrorInv /\ SeesToken /\ SeesToken' /\ [Next]_vars
        => [Promise!Next]_(Promise!mirrorVars)
  <2> SUFFICES ASSUME StateOK, SyncInv, MirrorInv, SeesToken, SeesToken', [Next]_vars
               PROVE  Promise!Next \/ UNCHANGED Promise!mirrorVars
    OBVIOUS
  <2>1. ObservedListing = [f \in Folder |-> Shown(hist[token], f)]
    BY DEF SeesToken
  <2>2. ObservedListing' = [f \in Folder |-> Shown(hist'[token'], f)]
    BY DEF SeesToken
  <2>3. token \in 0..version
    BY DEF StateOK, TypeOK, AnswersOK
  <2>4. CASE UNCHANGED <<hist, version, token>>
    BY <2>1, <2>2, <2>4 DEF Promise!mirrorVars
  <2>5. CASE ServerNext
    <3>1. /\ version' = version + 1 /\ \A v \in 0..version : hist'[v] = hist[v]
          /\ token' = token
      BY <2>5, ServerStep, CommitStep DEF ServerCommits
    <3>2. ObservedListing' = ObservedListing
      BY <2>1, <2>2, <2>3, <3>1 DEF Shown
    <3> QED BY <3>1, <3>2 DEF Promise!Next, Promise!ServerChanges
  <2>6. ASSUME NEW s \in Sync, OnSuccess(s) PROVE Promise!Next
    <3>1. token' \in token..version /\ UNCHANGED <<hist, version>>
      BY <2>6, SuccessKeepsMirror
    <3>2. ObservedListing' = Promise!Snapshot(token')
      BY <2>2, <3>1 DEF Promise!Snapshot, Shown
    <3> QED BY <3>1, <3>2 DEF Promise!Next, Promise!Pull
  <2>7. ASSUME NEW s \in Sync,
               \/ SyncFolderList(s) \/ SyncResponse(s) \/ OnOperationFailure(s)
               \/ DeliverFolderSync(s)
               \/ \E f \in Folder : OnFolderUpserted(s, f) \/ OnFolderDeleted(s, f)
        PROVE  UNCHANGED <<hist, version, token>>
    BY <2>7 DEF SyncFolderList, SyncResponse, OnOperationFailure, DeliverFolderSync,
                OnFolderUpserted, OnFolderDeleted, serverVars
  <2>8. ~SavePrefs /\ ~Crash
    BY DEF SavePrefs, Crash
  <2> QED BY <2>4, <2>5, <2>6, <2>7, <2>8 DEF Next, SyncNext, Deliver, vars
<1> QED BY <1>1, <1>2, ObservedIsSnapshot, MirrorInvariant, PTL DEF Spec, ImplementsMirror, Promise!Spec

\* "Synchronizes the local folder listing with changes made on the remote
\* server" (ICarbonioClient.idl): without faults, and only then, the promise
\* holds as it is written.
THEOREM ListingMatchesWithoutFaults ==
  ASSUME Faults = {}
  PROVE  Spec => []ListingMatches
<1>1. MirrorInv => ListingMatches
  BY DEF MirrorInv, ListingMatches, Settled, Idle, server
<1> QED BY <1>1, MirrorInvariant, PTL

=============================================================================
