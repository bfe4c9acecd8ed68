----------------------------- MODULE Discovery -----------------------------
(***************************************************************************)
(* The local folders after a start of Thunderbird.  A CarbonioFolder comes *)
(* to know its subfolders from the message store when somebody first asks  *)
(* for them (GetSubFolders, CreateChildrenFromStore), and the store may    *)
(* fail half-way.  The folder sync looks for a folder by walking over what *)
(* is known (FindFolderWithId), and what it does not find it takes to be   *)
(* deleted already, or creates.                                            *)
(*                                                                         *)
(* Module FolderSync takes the local tree to be known completely; this     *)
(* module says what becomes of its callbacks when it is not.               *)
(***************************************************************************)
EXTENDS Integers, FiniteSets

CONSTANTS
  Slot,       \* places a folder can be at, numbered in the order of a walk
              \* from the root down, a subtree at a time
  Up,         \* the place above each place, Root for the topmost ones
  Root,       \* the account root, which is no CarbonioFolder
  Id,         \* Carbonio folder ids
  Nothing,    \* no folder, no place
  MaxChanges  \* bound on the server's changes

ASSUME DiscoveryAssumption ==
  /\ Slot \subseteq Nat \ {0} /\ Root = 0
  /\ Up \in [Slot -> Slot \cup {Root}]
  /\ \A s \in Slot : Up[s] < s
  /\ Nothing \notin Id \cup Slot
  /\ MaxChanges \in Nat

\* Every place is reached from the root.  It follows from the numbering, but
\* by induction.
ASSUME ReachedAssumption ==
  \A S \in SUBSET Slot : (\A s \in Slot : Up[s] \in S \cup {Root} => s \in S) => S = Slot

VARIABLES
  disk,      \* the id of the folder the message store has at each place
  known,     \* places whose folder is in the mSubFolders of its parent
  loaded,    \* mHasLoadedSubfolders
  skipped,   \* history: subfolders AddSubfolder was not reached for, or refused
  server,    \* where the server has each folder
  due,       \* ids whose change the client has not been told of yet
  changes,   \* how often the server changed
  walk,      \* the callback under way: its id, and its walk over the folders
  lost       \* history: ids whose change a callback did not carry out

vars == <<disk, known, loaded, skipped, server, due, changes, walk, lost>>

Stage == {"none", "delete", "update", "again", "move", "parent"}
Walk == [stage : Stage, id : Id \cup {Nothing}, want : Id \cup {Nothing},
         at : Slot \cup {Nothing}, level : SUBSET (Slot \cup {Root}), below : SUBSET Slot,
         failed : BOOLEAN]
NoWalk == [stage |-> "none", id |-> Nothing, want |-> Nothing, at |-> Nothing,
           level |-> {}, below |-> {}, failed |-> FALSE]

TypeOK ==
  /\ disk \in [Slot -> Id \cup {Nothing}]
  /\ known \subseteq Slot /\ loaded \subseteq Slot /\ skipped \subseteq Slot
  /\ server \in [Id -> Slot \cup {Nothing}]
  /\ due \subseteq Id /\ lost \subseteq Id
  /\ changes \in 0..MaxChanges
  /\ walk \in Walk

-----------------------------------------------------------------------------

OnDisk == {s \in Slot : disk[s] # Nothing}
Children(s) == {c \in OnDisk : Up[c] = s}

\* A place and all places below it.
Below(s) ==
  {z \in Slot : \A S \in SUBSET Slot :
     (s \in S /\ \A c \in Slot : Up[c] \in S => c \in S) => z \in S}

Idle == walk.stage = "none"

\* Broken variant: the flag is set before the store is asked.
LoadsFlagFirst(s) ==
  LET D == Below(s) \cap OnDisk
      Done(y) == {z \in D : z < y}
  IN {[ok |-> TRUE, loaded |-> D, known |-> D, skipped |-> {}]} \cup
     {[ok |-> FALSE, loaded |-> Done(y) \cup {y},
       known |-> {c \in OnDisk : Up[c] \in Done(y)}, skipped |-> {}] : y \in D}

\* CreateChildrenFromStore on s, as the things it may come to: all is well; or
\* DiscoverChildFolders fails for some folder y that the recursion reaches; or
\* AddSubfolder fails for the subfolder c of y.  What comes later in the
\* recursion is left out, and every folder up to s returns the error.
CreateChildrenFromStore(s) ==
  LET D == Below(s) \cap OnDisk
      Done(y) == {z \in D : z < y}
      AddedBefore(y) == {c \in OnDisk : Up[c] \in Done(y)}
  IN {[ok |-> TRUE, loaded |-> D, known |-> D, skipped |-> {}]} \cup
     {[ok |-> FALSE, loaded |-> Done(y), known |-> AddedBefore(y), skipped |-> {}] :
        y \in D} \cup
     {[ok |-> FALSE, loaded |-> Done(Up[c]) \cup {Up[c]},
       known |-> AddedBefore(Up[c]) \cup {d \in Children(Up[c]) : d < c},
       skipped |-> {d \in Children(Up[c]) : d >= c}] : c \in D \ {s}}

\* What GetSubFolders may come to: a loaded folder lists what it knows.
GetSubFolders(s) ==
  IF s \in loaded \cup {Root}
    THEN {[ok |-> TRUE, loaded |-> {}, known |-> {}, skipped |-> {}]}
    ELSE CreateChildrenFromStore(s)

Discovered(r) ==
  /\ known' = known \cup r.known
  /\ loaded' = loaded \cup r.loaded
  /\ skipped' = (skipped \cup r.skipped) \ known'

-----------------------------------------------------------------------------
(* The server, and the folder pane *)

Free(s) == \A i \in Id : server[i] # s
IsLeaf(s) == \A c \in Slot : Up[c] # s

ServerChanges(i, s) ==
  /\ Idle /\ changes < MaxChanges
  /\ server' = [server EXCEPT ![i] = s]
  /\ changes' = changes + 1
  /\ due' = due \cup {i}
  /\ UNCHANGED <<disk, known, loaded, skipped, walk, lost>>

\* A folder without subfolders is deleted, or moved to another place that
\* cannot have any; folders directly below the root stay where they are.
ServerDeletes(i) ==
  /\ server[i] # Nothing
  /\ \A c \in Slot : Up[c] = server[i] => Free(c)
  /\ ServerChanges(i, Nothing)

ServerMoves(i, s) ==
  /\ server[i] # Nothing /\ IsLeaf(server[i]) /\ Up[server[i]] # Root
  /\ Free(s) /\ IsLeaf(s) /\ Up[s] # Root /\ ~Free(Up[s])
  /\ ServerChanges(i, s)

\* The user, or SyncAllFolders, looks into a folder.
Browse(s) ==
  /\ Idle
  /\ s \in known \ loaded
  /\ \E r \in GetSubFolders(s) : Discovered(r)
  /\ UNCHANGED <<disk, server, due, changes, walk, lost>>

\* Thunderbird starts anew; the account manager makes the topmost folders.
Restart ==
  /\ Idle
  /\ known' = Children(Root)
  /\ loaded' = {} /\ skipped' = {}
  /\ UNCHANGED <<disk, server, due, changes, walk, lost>>

-----------------------------------------------------------------------------
(* A callback of the folder sync: one turn of the event loop, here one     *)
(* step for each folder it looks at.                                       *)

\* FindFolderWithId begins at the root.
Find(stage, want, at) ==
  walk' = [walk EXCEPT !.stage = stage, !.want = want, !.at = at,
                       !.level = {Root}, !.below = {}, !.failed = FALSE]

\* OnFolderUpserted or OnFolderDeleted; deletions come behind the folders.
Deliver(i) ==
  /\ Idle
  /\ i \in due
  /\ server[i] = Nothing => \A j \in due : server[j] = Nothing
  /\ walk' = [NoWalk EXCEPT !.stage = IF server[i] = Nothing THEN "delete" ELSE "update",
                            !.id = i, !.want = i, !.level = {Root}]
  /\ UNCHANGED <<disk, known, loaded, skipped, server, due, changes, lost>>

InPlace(d, i) == {s \in Slot : d[s] = i} = {server[i]} \ {Nothing}

\* The callback returns; nobody hears whether it did what it should.
Return ==
  /\ walk' = NoWalk
  /\ due' = due \ {walk.id}
  /\ lost' = IF InPlace(disk', walk.id) THEN lost \ {walk.id} ELSE lost \cup {walk.id}
  /\ UNCHANGED <<server, changes>>

Stay == UNCHANGED <<disk, known, loaded, skipped>>

Wanted(s) == s # Root /\ disk[s] = walk.want

\* Broken variant: only the topmost folders are looked at.
ScanOnlyTop(s) ==
  /\ s \in walk.level /\ ~Wanted(s)
  /\ \E r \in GetSubFolders(s) :
       /\ Discovered(r)
       /\ walk' = [walk EXCEPT !.level = @ \ {s},
                               !.below = IF s = Root THEN {c \in known' : Up[c] = s} ELSE {},
                               !.failed = @ \/ ~r.ok]
  /\ UNCHANGED <<disk, server, due, changes, lost>>

\* FindFolderWithId looks at a folder that is not the one it wants: its
\* subfolders are for the next round, unless they cannot be listed.
Scan(s) ==
  /\ s \in walk.level /\ ~Wanted(s)
  /\ \E r \in GetSubFolders(s) :
       /\ Discovered(r)
       /\ walk' = [walk EXCEPT !.level = @ \ {s},
                               !.below = @ \cup {c \in known' : r.ok /\ Up[c] = s},
                               !.failed = @ \/ ~r.ok]
  /\ UNCHANGED <<disk, server, due, changes, lost>>

NextLevel ==
  /\ walk.level = {} /\ walk.below # {}
  /\ walk' = [walk EXCEPT !.level = walk.below, !.below = {}]
  /\ Stay /\ UNCHANGED <<server, due, changes, lost>>

\* FindFolderWithId succeeds with s.
Finds(s) == s \in walk.level /\ Wanted(s)

\* Broken variant: the subfolders stay in the store.
DeleteFolderAlone(s) ==
  /\ walk.stage = "delete" /\ Finds(s)
  /\ disk' = [disk EXCEPT ![s] = Nothing]
  /\ known' = known \ {s} /\ loaded' = loaded \ {s} /\ skipped' = skipped \ {s}
  /\ Return

\* Broken variant: the folder above is deleted instead.
DeleteParent(s) ==
  /\ walk.stage = "delete" /\ Finds(s)
  /\ LET gone == IF Up[s] = Root THEN Below(s) ELSE Below(Up[s])
     IN /\ disk' = [z \in Slot |-> IF z \in gone THEN Nothing ELSE disk[z]]
        /\ known' = known \ gone /\ loaded' = loaded \ gone /\ skipped' = skipped \ gone
  /\ Return

\* PropagateDelete takes along all that the store has below the folder.
DeleteFolderWithId(s) ==
  /\ walk.stage = "delete" /\ Finds(s)
  /\ disk' = [z \in Slot |-> IF z \in Below(s) THEN Nothing ELSE disk[z]]
  /\ known' = known \ Below(s) /\ loaded' = loaded \ Below(s)
  /\ skipped' = skipped \ Below(s)
  /\ Return

\* Broken variant: the place is taken for an id.
ParentPlace(i) == Up[server[i]]

ParentId(i) == CHOOSE p \in Id : server[p] = Up[server[i]]

\* UpdateFolderWithDetails has its folder and looks for the new parent.
UpdateFolder(s) ==
  /\ walk.stage = "update" /\ Finds(s)
  /\ Find("move", ParentId(walk.id), s)
  /\ Stay /\ UNCHANGED <<server, due, changes, lost>>

\* LocalRenameOrReparentFolder, which refuses a place that is taken.
MoveFolder(s) ==
  LET to == server[walk.id]
  IN /\ walk.stage = "move" /\ Finds(s)
     /\ IF disk[to] = Nothing
          THEN /\ disk' = [disk EXCEPT ![walk.at] = Nothing, ![to] = walk.id]
               /\ known' = (known \ {walk.at}) \cup {to}
               /\ loaded' = loaded \ {walk.at, to}
               /\ skipped' = skipped \ {walk.at, to}
          ELSE Stay
     /\ Return

\* MaybeCreateFolderWithDetails looks once more, and this time finds it.
CreatedAlready(s) == walk.stage = "again" /\ Finds(s) /\ Stay /\ Return

\* Its parent is there: ContainsChildNamed has the subfolders listed, whether
\* or not that works, and the store refuses a place it has a folder at.
MaybeCreateFolder(s) ==
  LET to == server[walk.id]
  IN /\ walk.stage = "parent" /\ Finds(s)
     /\ \E r \in GetSubFolders(s) :
          IF disk[to] = Nothing
            THEN /\ disk' = [disk EXCEPT ![to] = walk.id]
                 /\ Discovered([r EXCEPT !.known = @ \cup {to}])
            ELSE UNCHANGED disk /\ Discovered(r)
     /\ Return

\* FindFolderWithId fails: "assume it's already been deleted locally", or take
\* the folder for a new one, or give up.
NotFound ==
  /\ ~Idle /\ walk.level = {} /\ walk.below = {}
  /\ Stay
  /\ \/ walk.stage \in {"delete", "move", "parent"} /\ Return
     \/ /\ walk.stage = "update" /\ Find("again", walk.id, Nothing)
        /\ UNCHANGED <<server, due, changes, lost>>
     \/ /\ walk.stage = "again" /\ Find("parent", ParentId(walk.id), Nothing)
        /\ UNCHANGED <<server, due, changes, lost>>

-----------------------------------------------------------------------------

\* A previous session left the store as the server was.
Init ==
  /\ server \in [Id -> Slot \cup {Nothing}]
  /\ \A i, j \in Id : server[i] = server[j] /\ server[i] # Nothing => i = j
  /\ \A i \in Id : server[i] # Nothing =>
       Up[server[i]] = Root \/ \E p \in Id : server[p] = Up[server[i]]
  /\ disk = [s \in Slot |-> IF \E i \in Id : server[i] = s
                              THEN CHOOSE i \in Id : server[i] = s ELSE Nothing]
  /\ known = Children(Root)
  /\ loaded = {} /\ skipped = {}
  /\ due = {} /\ changes = 0 /\ lost = {}
  /\ walk = NoWalk

Callback(s) ==
  \/ Scan(s) \/ DeleteFolderWithId(s) \/ UpdateFolder(s)
  \/ MoveFolder(s) \/ CreatedAlready(s) \/ MaybeCreateFolder(s)

Next ==
  \/ \E i \in Id : ServerDeletes(i) \/ Deliver(i) \/ \E s \in Slot : ServerMoves(i, s)
  \/ \E s \in Slot : Browse(s)
  \/ Restart
  \/ \E s \in Slot \cup {Root} : Callback(s)
  \/ NextLevel \/ NotFound

Spec == Init /\ [][Next]_vars

-----------------------------------------------------------------------------
(* Properties *)

\* The flag of a folder whose discovery broke off says the truth as far as it
\* can: what the store has below a loaded folder is known, or AddSubfolder
\* failed at it or before it since Thunderbird was started; a folder whose
\* DiscoverChildFolders failed will be asked again.  And only folders that are
\* there are known, each under a parent that is known.
KnownTree ==
  /\ \A s \in OnDisk : Up[s] \in loaded \cup {Root} => s \in known \cup skipped
  /\ \A s \in known : disk[s] # Nothing /\ Up[s] \in known \cup {Root}

\* "If not found locally, assume it's already been deleted locally" is right,
\* unless the folder, or one above it, is one that AddSubfolder failed to bring
\* back since Thunderbird was started, or the store failed in this very walk:
\* what discovery failed at earlier, or before the start, is made good.
NotFoundExplained ==
  ~Idle /\ walk.level = {} /\ walk.below = {} /\ ~walk.failed =>
    \A s \in OnDisk : disk[s] = walk.want => \E a \in skipped : s \in Below(a)

\* What the client was told of is where the server has it, except for the
\* folders that a callback, silently, did nothing or the wrong thing for.
DiskFollows ==
  \A i \in Id \ (due \cup lost) : InPlace(disk, i)

=============================================================================
