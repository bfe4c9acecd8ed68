----------------------------- MODULE MessageList -----------------------------
(***************************************************************************)
(* The message list of one folder: CarbonioFolder::SyncMessages asks the   *)
(* Rust client for the folder's messages, which collects them page by page *)
(* (sync_messages_for_folder), newest first, and then delivers them in one *)
(* turn of the event loop; UpsertMessageHeader creates the headers that    *)
(* are missing.  While pages are fetched messages come into the folder and *)
(* leave it, and several syncs of one folder may be under way.             *)
(***************************************************************************)
EXTENDS Integers, FiniteSets

CONSTANTS
  MaxMessage,  \* bound on the messages; a greater one has a later date
  Sync,        \* sync tasks
  PageSize,    \* PAGE_SIZE
  MaxPages,    \* MAX_PAGES
  MaxChanges,  \* bound on the changes of the folder
  MaxHeaders   \* bound on the headers that carry the id of one message

ASSUME MessageListAssumption ==
  /\ MaxMessage \in Nat /\ MaxChanges \in Nat /\ MaxHeaders \in Nat
  /\ PageSize \in Nat \ {0} /\ MaxPages \in Nat \ {0}

Message == 1..MaxMessage

VARIABLES
  inbox,    \* the messages the folder has on the server
  changes,  \* how often it changed
  local,    \* how many local headers carry the id of a message
  overlooked, \* history: the messages that have a header nobody could read the id of
  pc,       \* what each sync does
  page,     \* the page it asks for
  got,      \* how often the pages fetched so far list a message
  steady,   \* history: what was in the folder all the time of the paging
  shrunk,   \* history: did a message leave meanwhile?
  cut       \* history: were there more pages than MaxPages?

vars == <<inbox, changes, local, overlooked, pc, page, got, steady, shrunk, cut>>
serverVars == <<inbox, changes>>
headerVars == <<local, overlooked>>
taskVars == <<pc, page, got, steady, shrunk, cut>>

PC == {"idle", "paging", "answered", "delivering"}
Nothing == [m \in Message |-> 0]

TypeOK ==
  /\ inbox \subseteq Message
  /\ changes \in Nat
  /\ local \in [Message -> Nat]
  /\ overlooked \subseteq Message
  /\ pc \in [Sync -> PC]
  /\ page \in [Sync -> 0..MaxPages - 1]
  /\ got \in [Sync -> [Message -> Nat]]
  /\ steady \in [Sync -> SUBSET Message]
  /\ shrunk \in [Sync -> BOOLEAN]
  /\ cut \in [Sync -> BOOLEAN]

-----------------------------------------------------------------------------
(* The server *)

\* How many messages of the folder are newer (sortBy dateDesc).
Rank(m) == Cardinality({n \in inbox : n > m})

Arrives(m) ==
  /\ m \notin inbox
  /\ changes < MaxChanges
  /\ inbox' = inbox \cup {m}
  /\ changes' = changes + 1
  /\ UNCHANGED <<headerVars, taskVars>>

\* Deleted, or moved to another folder.
Leaves(m) ==
  /\ m \in inbox
  /\ changes < MaxChanges
  /\ inbox' = inbox \ {m}
  /\ changes' = changes + 1
  /\ steady' = [s \in Sync |->
       IF pc[s] = "paging" THEN steady[s] \ {m} ELSE steady[s]]
  /\ shrunk' = [s \in Sync |-> shrunk[s] \/ pc[s] = "paging"]
  /\ UNCHANGED <<headerVars, pc, page, got, cut>>

-----------------------------------------------------------------------------
(* Collecting the pages *)

Idle == \A s \in Sync : pc[s] # "delivering"

Reset(s) ==
  /\ page' = [page EXCEPT ![s] = 0]
  /\ got' = [got EXCEPT ![s] = Nothing]
  /\ shrunk' = [shrunk EXCEPT ![s] = FALSE]
  /\ cut' = [cut EXCEPT ![s] = FALSE]

SyncMessages(s) ==
  /\ Idle
  /\ pc[s] = "idle"
  /\ pc' = [pc EXCEPT ![s] = "paging"]
  /\ steady' = [steady EXCEPT ![s] = inbox]
  /\ Reset(s)
  /\ UNCHANGED <<serverVars, headerVars>>

\* Broken variant: the offset runs ahead by one message a page.
OffsetPlusOne(s) == page[s] * (PageSize + 1)

Offset(s) == page[s] * PageSize

PageOf(s) == {m \in inbox : Offset(s) <= Rank(m) /\ Rank(m) < Offset(s) + PageSize}

More(s) == \E m \in inbox : Rank(m) >= Offset(s) + PageSize

\* The answer to one SearchRequest is added to what there is.
Collect(s) ==
  got' = [got EXCEPT ![s] = [m \in Message |->
            IF m \in PageOf(s) THEN @[m] + 1 ELSE @[m]]]

\* Broken variant: the loop ends one page early.
SearchResponseShort(s) ==
  /\ pc[s] = "paging"
  /\ Collect(s)
  /\ IF More(s) /\ page[s] + 2 < MaxPages
       THEN page' = [page EXCEPT ![s] = @ + 1] /\ UNCHANGED <<pc, cut>>
       ELSE /\ pc' = [pc EXCEPT ![s] = "answered"]
            /\ cut' = [cut EXCEPT ![s] = More(s)]
            /\ UNCHANGED page
  /\ UNCHANGED <<serverVars, headerVars, steady, shrunk>>

\* Broken variant: only the server decides when to stop.
SearchResponseEndless(s) ==
  /\ pc[s] = "paging"
  /\ Collect(s)
  /\ IF More(s)
       THEN page' = [page EXCEPT ![s] = @ + 1] /\ UNCHANGED pc
       ELSE pc' = [pc EXCEPT ![s] = "answered"] /\ UNCHANGED page
  /\ UNCHANGED <<serverVars, headerVars, steady, shrunk, cut>>

\* An empty page ends the loop as well: More is false there.
SearchResponse(s) ==
  /\ pc[s] = "paging"
  /\ Collect(s)
  /\ IF More(s) /\ page[s] + 1 < MaxPages
       THEN page' = [page EXCEPT ![s] = @ + 1] /\ UNCHANGED <<pc, cut>>
       ELSE /\ pc' = [pc EXCEPT ![s] = "answered"]
            /\ cut' = [cut EXCEPT ![s] = More(s)]
            /\ UNCHANGED page
  /\ UNCHANGED <<serverVars, headerVars, steady, shrunk>>

\* The pages fetched so far are lost.
OnOperationFailure(s) ==
  /\ Idle
  /\ pc[s] = "paging"
  /\ pc' = [pc EXCEPT ![s] = "idle"]
  /\ steady' = [steady EXCEPT ![s] = {}]
  /\ Reset(s)
  /\ UNCHANGED <<serverVars, headerVars>>

-----------------------------------------------------------------------------
(* The delivery *)

DeliverMessageListSync(s) ==
  /\ Idle
  /\ pc[s] = "answered"
  /\ pc' = [pc EXCEPT ![s] = "delivering"]
  /\ UNCHANGED <<serverVars, headerVars, page, got, steady, shrunk, cut>>

TakeListed(s, m) ==
  /\ pc[s] = "delivering"
  /\ got[s][m] > 0
  /\ got' = [got EXCEPT ![s][m] = @ - 1]
  /\ UNCHANGED <<serverVars, pc, page, steady, shrunk, cut>>

\* Broken variant: nobody looks for the header first.
InsertMessageHeader(m) ==
  /\ local' = [local EXCEPT ![m] = @ + 1]
  /\ UNCHANGED overlooked

UpsertMessageHeader(m) ==
  /\ local' = IF local[m] > 0 THEN local ELSE [local EXCEPT ![m] = 1]
  /\ UNCHANGED overlooked

\* The id of the header that is there cannot be read: the look for it passes
\* it over, and makes another one.
UpsertOverlooking(m) ==
  /\ local[m] \in 1..MaxHeaders - 1
  /\ local' = [local EXCEPT ![m] = @ + 1]
  /\ overlooked' = overlooked \cup {m}

OnMessage(s, m) ==
  TakeListed(s, m) /\ (UpsertMessageHeader(m) \/ UpsertOverlooking(m))

\* The database refuses; the error is logged and the delivery goes on.
OnMessageFails(s, m) == TakeListed(s, m) /\ UNCHANGED headerVars

OnSuccess(s) ==
  /\ pc[s] = "delivering"
  /\ got[s] = Nothing
  /\ pc' = [pc EXCEPT ![s] = "idle"]
  /\ steady' = [steady EXCEPT ![s] = {}]
  /\ Reset(s)
  /\ UNCHANGED <<serverVars, headerVars>>

-----------------------------------------------------------------------------

Init ==
  /\ inbox \in SUBSET Message
  /\ changes = 0
  /\ local = Nothing
  /\ overlooked = {}
  /\ pc = [s \in Sync |-> "idle"]
  /\ page = [s \in Sync |-> 0]
  /\ got = [s \in Sync |-> Nothing]
  /\ steady = [s \in Sync |-> {}]
  /\ shrunk = [s \in Sync |-> FALSE]
  /\ cut = [s \in Sync |-> FALSE]

Deliver(s) ==
  \/ DeliverMessageListSync(s)
  \/ \E m \in Message : OnMessage(s, m) \/ OnMessageFails(s, m)
  \/ OnSuccess(s)

SyncNext(s) ==
  SyncMessages(s) \/ SearchResponse(s) \/ OnOperationFailure(s) \/ Deliver(s)

Next ==
  \/ \E m \in Message : Arrives(m) \/ Leaves(m)
  \/ \E s \in Sync : SyncNext(s)

Spec == Init /\ [][Next]_vars

\* The future of a sync ends each request with an answer or an error, and the
\* event loop runs the callbacks of an answer.
Fairness ==
  /\ WF_vars(\E s \in Sync : Deliver(s))
  /\ \A s \in Sync : WF_vars(SearchResponse(s) \/ OnOperationFailure(s))

FairSpec == Spec /\ Fairness

-----------------------------------------------------------------------------
(* Properties *)

\* However syncs overlap and pages repeat messages, no message gets a second
\* header ("so re-running a sync doesn't create duplicates"), unless the id of
\* the first one could not be read.
NoDuplicates == \A m \in Message \ overlooked : local[m] <= 1

Listed(s) == {m \in Message : got[s][m] > 0}

\* "this call always delivers the complete list for the folder", says
\* ICarbonioClient.idl.  What the paging does achieve: the list has at least
\* what was in the folder from the first page to the last, unless a message
\* left the folder meanwhile or the last page allowed was not the last one.
CompleteUnlessShrunk ==
  \A s \in Sync : pc[s] = "answered" /\ ~shrunk[s] /\ ~cut[s] =>
    steady[s] \subseteq Listed(s)

\* Why: arrivals only push messages to later pages, so one that is not listed
\* yet is still to come.
StillToCome ==
  \A s \in Sync : pc[s] = "paging" /\ ~shrunk[s] =>
    \A m \in steady[s] : m \in inbox /\ (m \in Listed(s) \/ Rank(m) >= Offset(s))

\* The database does not refuse a header for ever.
Takes(m) == SF_vars(\E s \in Sync : OnMessage(s, m))

\* As long as syncs that the user asks for keep being answered, the folder that
\* has come to rest, if it fits, gets all its messages listed: what one sync
\* lost to paging or to the database, a later one brings.
ListedIfAnswered ==
  /\ []<>(\E s \in Sync : pc[s] = "delivering")
  /\ \A m \in Message : Takes(m)
  => <>[](\/ Cardinality(inbox) > PageSize * MaxPages
          \/ \A m \in inbox : local[m] > 0)

=============================================================================
