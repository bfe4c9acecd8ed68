-------------------------- MODULE MessageListProofs --------------------------
(***************************************************************************)
(* Proofs about module MessageList, for any page size and page limit: no   *)
(* message gets a second header, and paging loses a message only if one    *)
(* leaves the folder meanwhile or there are too many pages.                *)
(***************************************************************************)
EXTENDS MessageList, TLAPS, FiniteSetTheorems

USE MessageListAssumption

ListInv == NoDuplicates /\ StillToCome /\ CompleteUnlessShrunk

-----------------------------------------------------------------------------
(* Ranks *)

LEMMA MessageFinite == ASSUME NEW S \in SUBSET Message PROVE IsFiniteSet(S)
<1>1. IsFiniteSet(1..MaxMessage)
  BY FS_Interval
<1> QED BY <1>1, FS_Subset DEF Message

LEMMA RankType == ASSUME TypeOK, NEW m \in Message PROVE Rank(m) \in Nat
<1>1. IsFiniteSet({n \in inbox : n > m})
  BY MessageFinite DEF TypeOK
<1> QED BY <1>1, FS_CardinalityType DEF Rank

\* Arrivals push messages back, never forward.
LEMMA RankGrows ==
  ASSUME TypeOK, TypeOK', inbox \subseteq inbox', NEW m \in Message
  PROVE  Rank(m) \in Nat /\ Rank(m)' \in Nat /\ Rank(m)' >= Rank(m)
<1> DEFINE S == {n \in inbox : n > m}
           T == {n \in inbox' : n > m}
<1>1. IsFiniteSet(T) /\ S \subseteq T
  BY MessageFinite DEF TypeOK
<1>2. Cardinality(S) <= Cardinality(T)
  BY <1>1, FS_Subset
<1>3. Rank(m) = Cardinality(S) /\ Rank(m)' = Cardinality(T)
  BY DEF Rank
<1>4. Cardinality(S) \in Nat /\ Cardinality(T) \in Nat
  BY <1>1, FS_Subset, FS_CardinalityType
<1> QED BY <1>2, <1>3, <1>4

-----------------------------------------------------------------------------

LEMMA TypeInit == Init => TypeOK
BY DEF Init, TypeOK, PC, Nothing

LEMMA TypeNext == TypeOK /\ [Next]_vars => TypeOK'
<1> SUFFICES ASSUME TypeOK, [Next]_vars PROVE TypeOK'
  OBVIOUS
<1> USE DEF TypeOK, PC, Reset, Nothing
<1>1. ASSUME NEW m \in Message, Arrives(m) \/ Leaves(m) PROVE TypeOK'
  <2>1. CASE Arrives(m)
    BY <1>1, <2>1 DEF Arrives, taskVars, headerVars
  <2>2. CASE Leaves(m)
    <3>1. /\ steady' \in [Sync -> SUBSET Message]
          /\ inbox' \subseteq Message /\ changes' \in Nat
      BY <2>2 DEF Leaves
    <3>2. shrunk' \in [Sync -> BOOLEAN]
      BY <2>2 DEF Leaves
    <3> QED BY <2>2, <3>1, <3>2 DEF Leaves, headerVars
  <2> QED BY <1>1, <2>1, <2>2
<1>2. ASSUME NEW s \in Sync, SyncMessages(s) \/ OnOperationFailure(s) \/ OnSuccess(s)
      PROVE  TypeOK'
  <2>1. UNCHANGED <<inbox, changes, local, overlooked>> /\ Reset(s)
    BY <1>2 DEF SyncMessages, OnOperationFailure, OnSuccess, serverVars, headerVars
  <2>2. /\ pc' \in [Sync -> PC] /\ steady' \in [Sync -> SUBSET Message]
    BY <1>2 DEF SyncMessages, OnOperationFailure, OnSuccess
  <2>3. /\ page' \in [Sync -> 0..MaxPages - 1] /\ got' \in [Sync -> [Message -> Nat]]
        /\ shrunk' \in [Sync -> BOOLEAN] /\ cut' \in [Sync -> BOOLEAN]
    BY <2>1
  <2> QED BY <2>1, <2>2, <2>3
<1>3. ASSUME NEW s \in Sync, SearchResponse(s) PROVE TypeOK'
  <2>1. got' \in [Sync -> [Message -> Nat]]
    BY <1>3 DEF SearchResponse, Collect
  <2>2. More(s) \in BOOLEAN
    BY DEF More
  <2>3. /\ page' \in [Sync -> 0..MaxPages - 1] /\ pc' \in [Sync -> PC]
        /\ cut' \in [Sync -> BOOLEAN]
    <3>1. CASE More(s) /\ page[s] + 1 < MaxPages
      BY <1>3, <3>1 DEF SearchResponse
    <3>2. CASE ~(More(s) /\ page[s] + 1 < MaxPages)
      BY <1>3, <2>2, <3>2 DEF SearchResponse
    <3> QED BY <3>1, <3>2
  <2> QED BY <1>3, <2>1, <2>3 DEF SearchResponse, serverVars, headerVars
<1>4. ASSUME NEW s \in Sync, DeliverMessageListSync(s) PROVE TypeOK'
  BY <1>4 DEF DeliverMessageListSync, serverVars, headerVars
<1>5. ASSUME NEW s \in Sync, NEW m \in Message, OnMessage(s, m) \/ OnMessageFails(s, m)
      PROVE  TypeOK'
  <2>1. got' \in [Sync -> [Message -> Nat]]
    BY <1>5 DEF OnMessage, OnMessageFails, TakeListed
  <2>2. local' \in [Message -> Nat] /\ overlooked' \subseteq Message
    BY <1>5 DEF OnMessage, OnMessageFails, UpsertMessageHeader, UpsertOverlooking, headerVars
  <2> QED BY <1>5, <2>1, <2>2 DEF OnMessage, OnMessageFails, TakeListed, serverVars
<1>6. CASE UNCHANGED vars
  BY <1>6 DEF vars
<1> QED BY <1>1, <1>2, <1>3, <1>4, <1>5, <1>6 DEF Next, SyncNext, Deliver

\* The type invariant of MessageList.tla.
THEOREM TypeCorrect == Spec => []TypeOK
BY TypeInit, TypeNext, PTL DEF Spec

-----------------------------------------------------------------------------

LEMMA InvInit == Init => ListInv
BY DEF Init, ListInv, NoDuplicates, StillToCome, CompleteUnlessShrunk, Nothing

\* Only UpsertMessageHeader makes headers.
LEMMA NoDuplicatesNext ==
  ASSUME TypeOK, NoDuplicates, [Next]_vars PROVE NoDuplicates'
<1> USE DEF TypeOK, NoDuplicates
<1>1. ASSUME NEW s \in Sync, NEW m \in Message, OnMessage(s, m)
      PROVE  NoDuplicates'
  BY <1>1 DEF OnMessage, UpsertMessageHeader, UpsertOverlooking
<1>2. CASE local' = local /\ overlooked' = overlooked
  BY <1>2
<1> QED
  BY <1>1, <1>2
  DEF Next, SyncNext, Deliver, Arrives, Leaves, SyncMessages, SearchResponse,
      OnOperationFailure, DeliverMessageListSync, OnMessageFails, OnSuccess, vars,
      headerVars, taskVars

\* The sync s, if its own variables stay, is not misled by arrivals.
LEMMA PagingUndisturbed ==
  ASSUME TypeOK, TypeOK', StillToCome, CompleteUnlessShrunk, NEW s \in Sync,
         pc'[s] = pc[s], page'[s] = page[s], got'[s] = got[s],
         steady'[s] = steady[s], shrunk'[s] = shrunk[s], cut'[s] = cut[s],
         inbox \subseteq inbox'
  PROVE  /\ pc'[s] = "paging" /\ ~shrunk'[s] =>
              \A m \in steady'[s] :
                m \in inbox' /\ (m \in Listed(s)' \/ Rank(m)' >= Offset(s)')
         /\ pc'[s] = "answered" /\ ~shrunk'[s] /\ ~cut'[s] =>
              steady'[s] \subseteq Listed(s)'
<1>1. Listed(s)' = Listed(s) /\ Offset(s)' = Offset(s)
  BY DEF Listed, Offset
<1>2. Offset(s) \in Nat
  BY DEF Offset, TypeOK
<1>3. \A m \in Message : Rank(m) \in Nat /\ Rank(m)' \in Nat /\ Rank(m)' >= Rank(m)
  BY RankGrows
<1>4. steady[s] \subseteq Message
  BY DEF TypeOK
<1> QED BY <1>1, <1>2, <1>3, <1>4 DEF StillToCome, CompleteUnlessShrunk

\* The heart of it: what the page does not list comes on a later one, and
\* without a later one More says so.
LEMMA ResponseKeepsPaging ==
  ASSUME TypeOK, TypeOK', StillToCome, NEW s \in Sync, SearchResponse(s)
  PROVE  /\ pc'[s] = "paging" /\ ~shrunk'[s] =>
              \A m \in steady'[s] :
                m \in inbox' /\ (m \in Listed(s)' \/ Rank(m)' >= Offset(s)')
         /\ pc'[s] = "answered" /\ ~shrunk'[s] /\ ~cut'[s] =>
              steady'[s] \subseteq Listed(s)'
<1> USE DEF TypeOK
<1>1. /\ pc[s] = "paging" /\ inbox' = inbox
      /\ steady' = steady /\ shrunk' = shrunk
  BY DEF SearchResponse, serverVars
<1>2. Offset(s) \in Nat /\ PageSize \in Nat
  BY DEF Offset
<1>3. \A m \in Message : Rank(m)' = Rank(m) /\ Rank(m) \in Nat
  BY <1>1, RankType DEF Rank
<1>4. got'[s] = [m \in Message |->
                   IF m \in PageOf(s) THEN got[s][m] + 1 ELSE got[s][m]]
  BY DEF SearchResponse, Collect
<1>5. Listed(s)' = Listed(s) \cup PageOf(s)
  <2>1. PageOf(s) \subseteq Message
    BY DEF PageOf
  <2>2. \A m \in Message : got[s][m] \in Nat
    OBVIOUS
  <2> QED BY <1>4, <2>1, <2>2 DEF Listed
<1>6. SUFFICES ASSUME ~shrunk[s], NEW m \in steady[s]
               PROVE  /\ m \in inbox
                      /\ pc'[s] = "paging" =>
                           m \in Listed(s)' \/ Rank(m) >= Offset(s)'
                      /\ pc'[s] = "answered" /\ ~cut'[s] => m \in Listed(s)'
  BY <1>1, <1>3
<1>7. m \in Message /\ m \in inbox /\ (m \in Listed(s) \/ Rank(m) >= Offset(s))
  BY <1>1, <1>6 DEF StillToCome
<1>8. CASE m \in Listed(s)
  BY <1>5, <1>7, <1>8
<1>9. CASE m \notin Listed(s) /\ Rank(m) < Offset(s) + PageSize
  <2>1. m \in PageOf(s)
    BY <1>7, <1>9 DEF PageOf
  <2> QED BY <1>5, <1>7, <2>1
<1>10. CASE m \notin Listed(s) /\ Rank(m) >= Offset(s) + PageSize
  <2>1. More(s)
    BY <1>7, <1>10 DEF More
  <2>2. CASE page[s] + 1 < MaxPages
    <3>1. page'[s] = page[s] + 1 /\ pc'[s] = "paging"
      BY <1>1, <2>1, <2>2 DEF SearchResponse
    <3>2. Offset(s)' = Offset(s) + PageSize
      BY <3>1 DEF Offset
    <3> QED BY <1>7, <1>10, <3>1, <3>2
  <2>3. CASE ~(page[s] + 1 < MaxPages)
    <3>1. cut'[s] /\ pc'[s] = "answered"
      BY <1>1, <2>1, <2>3 DEF SearchResponse
    <3> QED BY <1>7, <3>1
  <2> QED BY <2>2, <2>3
<1> QED BY <1>2, <1>3, <1>7, <1>8, <1>9, <1>10

LEMMA PagingNext ==
  ASSUME TypeOK, TypeOK', StillToCome, CompleteUnlessShrunk, [Next]_vars
  PROVE  StillToCome' /\ CompleteUnlessShrunk'
<1> SUFFICES ASSUME NEW s \in Sync
    PROVE /\ pc'[s] = "paging" /\ ~shrunk'[s] =>
               \A m \in steady'[s] :
                 m \in inbox' /\ (m \in Listed(s)' \/ Rank(m)' >= Offset(s)')
          /\ pc'[s] = "answered" /\ ~shrunk'[s] /\ ~cut'[s] =>
               steady'[s] \subseteq Listed(s)'
  BY DEF StillToCome, CompleteUnlessShrunk
<1> DEFINE Kept == /\ pc'[s] = pc[s] /\ page'[s] = page[s] /\ got'[s] = got[s]
                   /\ steady'[s] = steady[s] /\ shrunk'[s] = shrunk[s]
                   /\ cut'[s] = cut[s] /\ inbox \subseteq inbox'
<1>1. CASE Kept
  BY <1>1, PagingUndisturbed
<1>2. ASSUME NEW m \in Message, Leaves(m)
      PROVE  \/ pc[s] = "paging" /\ pc'[s] = "paging" /\ shrunk'[s]
             \/ /\ pc[s] # "paging" /\ pc'[s] = pc[s] /\ got'[s] = got[s]
                /\ steady'[s] = steady[s] /\ shrunk'[s] = shrunk[s] /\ cut'[s] = cut[s]
  BY <1>2 DEF Leaves, TypeOK
<1>3. ASSUME NEW m \in Message, Leaves(m), pc[s] # "paging"
      PROVE  pc'[s] = "answered" /\ ~shrunk'[s] /\ ~cut'[s] =>
               steady'[s] \subseteq Listed(s)'
  <2>1. Listed(s)' = Listed(s)
    BY <1>2, <1>3 DEF Listed
  <2> QED BY <1>2, <1>3, <2>1 DEF CompleteUnlessShrunk
<1>4. CASE \E m \in Message : Arrives(m) \/ Leaves(m)
  <2>1. ASSUME NEW m \in Message, Arrives(m) PROVE Kept
    BY <2>1 DEF Arrives, taskVars, headerVars
  <2> QED BY <1>1, <1>2, <1>3, <1>4, <2>1
<1>5. ASSUME NEW r \in Sync, SyncNext(r), r # s PROVE Kept
  <2> USE DEF TypeOK, Reset, serverVars
  <2>1. CASE SyncMessages(r) \/ OnOperationFailure(r) \/ OnSuccess(r)
    BY <1>5, <2>1 DEF SyncMessages, OnOperationFailure, OnSuccess
  <2>2. CASE SearchResponse(r)
    BY <1>5, <2>2 DEF SearchResponse, Collect
  <2>3. CASE DeliverMessageListSync(r)
    BY <1>5, <2>3 DEF DeliverMessageListSync
  <2>4. CASE \E m \in Message : OnMessage(r, m) \/ OnMessageFails(r, m)
    BY <1>5, <2>4 DEF OnMessage, OnMessageFails, TakeListed
  <2> QED BY <1>5, <2>1, <2>2, <2>3, <2>4 DEF SyncNext, Deliver
<1>6. CASE SyncMessages(s)
  <2>1. /\ pc'[s] = "paging" /\ page'[s] = 0 /\ steady'[s] = inbox
        /\ inbox' = inbox
    BY <1>6 DEF SyncMessages, Reset, serverVars, TypeOK
  <2>2. Offset(s)' = 0
    BY <2>1 DEF Offset
  <2>3. \A m \in inbox : Rank(m)' \in Nat
    BY RankGrows, <2>1 DEF TypeOK
  <2> QED BY <2>1, <2>2, <2>3
<1>7. CASE SearchResponse(s)
  BY <1>7, ResponseKeepsPaging
<1>8. CASE OnOperationFailure(s) \/ Deliver(s)
  <2>1. pc'[s] \in {"idle", "delivering"}
    BY <1>8
    DEF OnOperationFailure, Deliver, DeliverMessageListSync, OnMessage,
        OnMessageFails, TakeListed, OnSuccess, TypeOK
  <2> QED BY <2>1
<1>9. CASE UNCHANGED vars
  BY <1>1, <1>9 DEF vars
<1> QED BY <1>4, <1>1, <1>5, <1>6, <1>7, <1>8, <1>9 DEF Next, SyncNext

THEOREM ListCorrect == Spec => []ListInv
<1>1. ListInv /\ TypeOK /\ TypeOK' /\ [Next]_vars => ListInv'
  BY NoDuplicatesNext, PagingNext DEF ListInv
<1> QED BY <1>1, InvInit, TypeCorrect, PTL DEF Spec

\* No message gets a second header (UpsertMessageHeader).
THEOREM NoSecondHeader == Spec => []NoDuplicates
<1>1. ListInv => NoDuplicates
  BY DEF ListInv
<1> QED BY <1>1, ListCorrect, PTL

\* The list is complete unless a message left the folder while it was fetched
\* or MAX_PAGES cut it (sync_messages_for_folder).
THEOREM ListComplete == Spec => []CompleteUnlessShrunk
<1>1. ListInv => CompleteUnlessShrunk
  BY DEF ListInv
<1> QED BY <1>1, ListCorrect, PTL

=============================================================================
