-------------------------- MODULE DiscoveryProofs --------------------------
(***************************************************************************)
(* Proofs about module Discovery, for any tree of places and any folders.  *)
(*                                                                         *)
(* What is known of the message store is a part of its tree, complete but  *)
(* for what AddSubfolder failed at (IInv).  A callback moves and creates   *)
(* folders where a walk over the known ones found their parent; that this  *)
(* is the parent the place lies below needs an account of where store and  *)
(* server may differ (DiskNearServer).                                     *)
(*                                                                         *)
(* A walk that ends without finding its folder has passed it by for one    *)
(* reason only (WalkCovers says what is still ahead of it).  And callbacks *)
(* do not disturb what is in its place already (FollowInv).                *)
(***************************************************************************)
EXTENDS Discovery, TLAPS

USE DiscoveryAssumption

\* A folder is not without the one above it, on the server and in the store.
ServerTree ==
  \A i \in Id : server[i] # Nothing =>
    Up[server[i]] = Root \/ \E p \in Id : server[p] = Up[server[i]]
DiskTree == \A s \in OnDisk : Up[s] \in OnDisk \cup {Root}

\* The store has a folder where the server has it, unless it is gone there, or
\* it is one of those that move, between places that have nothing below.
DiskNearServer ==
  \A s \in OnDisk :
    LET at == server[disk[s]]
    IN at = Nothing \/ at = s \/ (IsLeaf(at) /\ IsLeaf(s))

\* What the client is told of is deleted, or has nothing below.
Movable(i) == server[i] \in Slot /\ IsLeaf(server[i]) /\ Up[server[i]] # Root
DueMovable == \A i \in due : server[i] # Nothing => Movable(i)

\* A walk goes over known folders; what each stage looks for.
WalkGood ==
  /\ Idle => walk.level = {} /\ walk.below = {}
  /\ walk.level \subseteq known \cup {Root} /\ walk.below \subseteq known
  /\ ~Idle => walk.id \in Id
  /\ walk.stage \in {"update", "again"} => Movable(walk.id) /\ walk.want = walk.id
  /\ walk.stage \in {"move", "parent"} =>
       Movable(walk.id) /\ walk.want = ParentId(walk.id)
  /\ walk.stage = "move" => walk.at \in Slot /\ IsLeaf(walk.at)

IInv ==
  /\ TypeOK /\ ServerTree /\ DiskTree /\ DiskNearServer
  /\ DueMovable /\ WalkGood /\ KnownTree

-----------------------------------------------------------------------------
(* Places below a place *)

LEMMA BelowSelf == \A s \in Slot : s \in Below(s)
BY DEF Below

LEMMA BelowChild ==
  ASSUME NEW s, NEW z \in Below(s), NEW c \in Slot, Up[c] = z
  PROVE  c \in Below(s)
BY DEF Below

LEMMA BelowUp ==
  ASSUME NEW s \in Slot, NEW z \in Below(s), z # s
  PROVE  Up[z] \in Below(s)
<1> DEFINE S == {x \in Slot : x \in Below(s) /\ (x = s \/ Up[x] \in Below(s))}
<1>1. s \in S
  BY BelowSelf
<1>2. \A c \in Slot : Up[c] \in S => c \in S
  BY BelowChild
<1>3. S \in SUBSET Slot
  OBVIOUS
<1> HIDE DEF S
<1>4. z \in S
  BY <1>1, <1>2, <1>3 DEF Below
<1> QED BY <1>4 DEF S

LEMMA BelowInSlot == \A s : Below(s) \subseteq Slot
BY DEF Below

-----------------------------------------------------------------------------
(* Discovery *)

\* What a discovery may come to, as sets of places.
LEMMA DiscoveryType ==
  ASSUME NEW s \in Slot \cup {Root}, NEW r \in GetSubFolders(s)
  PROVE  /\ r.known \subseteq Slot /\ r.loaded \subseteq Slot
         /\ r.skipped \subseteq Slot /\ r.ok \in BOOLEAN
<1> DEFINE D == Below(s) \cap OnDisk
           Typed == /\ r.known \subseteq Slot /\ r.loaded \subseteq Slot
                    /\ r.skipped \subseteq Slot /\ r.ok \in BOOLEAN
<1>1. CASE s \in loaded \cup {Root}
  <2>1. r = [ok |-> TRUE, loaded |-> {}, known |-> {}, skipped |-> {}]
    BY <1>1 DEF GetSubFolders
  <2> QED BY <2>1
<1>2. CASE s \notin loaded \cup {Root}
  <2>1. r \in CreateChildrenFromStore(s)
    BY <1>2 DEF GetSubFolders
  <2>2. OnDisk \subseteq Slot /\ D \subseteq Slot /\ \A c : Children(c) \subseteq Slot
    BY DEF Children, OnDisk
  <2>3. \A c \in D \ {s} : Up[c] \in Slot
    BY <1>2, BelowUp, BelowInSlot
  <2>4. CASE r = [ok |-> TRUE, loaded |-> D, known |-> D, skipped |-> {}]
    BY <2>2, <2>4
  <2>5. ASSUME NEW y \in D,
               r = [ok |-> FALSE, loaded |-> {z \in D : z < y},
                    known |-> {c \in OnDisk : Up[c] \in {z \in D : z < y}},
                    skipped |-> {}]
        PROVE  Typed
    BY <2>2, <2>5
  <2>6. ASSUME NEW c \in D \ {s},
               r = [ok |-> FALSE,
                    loaded |-> {z \in D : z < Up[c]} \cup {Up[c]},
                    known |-> {d \in OnDisk : Up[d] \in {z \in D : z < Up[c]}} \cup
                              {d \in Children(Up[c]) : d < c},
                    skipped |-> {d \in Children(Up[c]) : d >= c}]
        PROVE  Typed
    <3>1. r.loaded \subseteq Slot
      BY <2>2, <2>3, <2>6
    <3>2. r.known \subseteq OnDisk \cup Children(Up[c])
      BY <2>6
    <3>3. r.skipped \subseteq Children(Up[c])
      BY <2>6
    <3>4. r.ok \in BOOLEAN
      BY <2>6
    <3> QED BY <2>2, <3>1, <3>2, <3>3, <3>4
  <2>7. \/ r = [ok |-> TRUE, loaded |-> D, known |-> D, skipped |-> {}]
        \/ \E y \in D :
             r = [ok |-> FALSE, loaded |-> {z \in D : z < y},
                  known |-> {c \in OnDisk : Up[c] \in {z \in D : z < y}},
                  skipped |-> {}]
        \/ \E c \in D \ {s} :
             r = [ok |-> FALSE,
                  loaded |-> {z \in D : z < Up[c]} \cup {Up[c]},
                  known |-> {d \in OnDisk : Up[d] \in {z \in D : z < Up[c]}} \cup
                            {d \in Children(Up[c]) : d < c},
                  skipped |-> {d \in Children(Up[c]) : d >= c}]
    BY <2>1 DEF CreateChildrenFromStore
  <2> QED BY <2>4, <2>5, <2>6, <2>7
<1> QED BY <1>1, <1>2

\* The folder a callback makes is added to what its discovery found.
LEMMA DiscoveryFields ==
  ASSUME NEW s \in Slot \cup {Root}, NEW r \in GetSubFolders(s), NEW to
  PROVE  LET made == [r EXCEPT !.known = @ \cup {to}]
         IN /\ made.known = r.known \cup {to} /\ made.loaded = r.loaded
            /\ made.skipped = r.skipped
<1>1. r = [ok |-> r.ok, loaded |-> r.loaded, known |-> r.known, skipped |-> r.skipped]
  BY DEF GetSubFolders, CreateChildrenFromStore
<1> QED BY <1>1

\* A discovery that begins at a known folder adds to the tree what KnownTree
\* asks for, whichever way it goes.
LEMMA DiscoveryGrows ==
  ASSUME TypeOK, DiskTree, KnownTree,
         NEW s \in known \cup {Root}, NEW r \in GetSubFolders(s)
  PROVE  /\ \A z \in OnDisk : Up[z] \in loaded \cup r.loaded \cup {Root} =>
              z \in known \cup r.known \cup skipped \cup r.skipped
         /\ \A z \in known \cup r.known :
              disk[z] # Nothing /\ Up[z] \in known \cup r.known \cup {Root}
<1> USE DEF TypeOK
<1> DEFINE D == Below(s) \cap OnDisk
           known2 == known \cup r.known
<1>2. CASE s \in loaded \cup {Root}
  <2>1. r.known = {} /\ r.loaded = {} /\ r.skipped = {}
    BY <1>2 DEF GetSubFolders
  <2> QED BY <2>1 DEF KnownTree
<1>3. CASE s \notin loaded \cup {Root}
  <2>1. s \in Slot /\ s \in known /\ s \in OnDisk
    BY <1>3 DEF KnownTree, OnDisk
  <2>2. r \in CreateChildrenFromStore(s)
    BY <1>3 DEF GetSubFolders
  <2>3. \A z \in D : z \in Slot /\ z \in OnDisk
    BY DEF OnDisk
  \* Above a member other than s there is a member, which comes earlier.
  <2>4. \A z \in D \ {s} : Up[z] \in D /\ Up[z] < z
    <3> TAKE z \in D \ {s}
    <3>1. Up[z] \in Below(s)
      BY <2>1, BelowUp
    <3>2. Up[z] \in Slot
      BY <3>1, BelowInSlot
    <3>3. Up[z] \in OnDisk
      BY <2>3, <3>2 DEF DiskTree
    <3> QED BY <2>3, <3>1, <3>3
  <2>5. \A z \in OnDisk : Up[z] \in D => z \in D
    BY BelowChild DEF OnDisk
  \* It is enough that what is added has its parent known, and what is loaded
  \* its children.
  <2>6. SUFFICES /\ \A z \in r.known : z \in OnDisk /\ Up[z] \in known2 \cup {Root}
                 /\ \A z \in OnDisk : Up[z] \in r.loaded => z \in r.known \cup r.skipped
    BY <2>6 DEF KnownTree, OnDisk
  <2>7. Up[s] \in known \cup {Root}
    BY <2>1 DEF KnownTree
  <2>8. CASE r = [ok |-> TRUE, loaded |-> D, known |-> D, skipped |-> {}]
    BY <2>3, <2>4, <2>5, <2>7, <2>8
  <2>9. ASSUME NEW y \in D,
               r = [ok |-> FALSE, loaded |-> {z \in D : z < y},
                    known |-> {c \in OnDisk : Up[c] \in {z \in D : z < y}},
                    skipped |-> {}]
        PROVE  /\ \A z \in r.known : z \in OnDisk /\ Up[z] \in known2 \cup {Root}
               /\ \A z \in OnDisk : Up[z] \in r.loaded => z \in r.known \cup r.skipped
    <3>1. ASSUME NEW z \in r.known PROVE z \in OnDisk /\ Up[z] \in known2
      <4>1. z \in OnDisk /\ Up[z] \in D /\ Up[z] < y
        BY <2>9, <3>1
      <4>2. CASE Up[z] = s
        BY <2>1, <4>1, <4>2
      <4>3. CASE Up[z] # s
        <5>1. Up[Up[z]] \in D /\ Up[Up[z]] < Up[z]
          BY <2>4, <4>1, <4>3
        <5>2. Up[Up[z]] \in Nat /\ Up[z] \in Nat /\ y \in Nat
          BY <2>3, <4>1, <5>1
        <5>3. Up[z] \in r.known
          BY <2>3, <2>9, <4>1, <5>1, <5>2
        <5> QED BY <4>1, <5>3
      <4> QED BY <4>2, <4>3
    <3> QED BY <2>9, <3>1
  <2>10. ASSUME NEW c \in D \ {s},
                r = [ok |-> FALSE,
                     loaded |-> {z \in D : z < Up[c]} \cup {Up[c]},
                     known |-> {d \in OnDisk : Up[d] \in {z \in D : z < Up[c]}} \cup
                               {d \in Children(Up[c]) : d < c},
                     skipped |-> {d \in Children(Up[c]) : d >= c}]
         PROVE  /\ \A z \in r.known : z \in OnDisk /\ Up[z] \in known2 \cup {Root}
                /\ \A z \in OnDisk : Up[z] \in r.loaded => z \in r.known \cup r.skipped
    <3>1. Up[c] \in D
      BY <2>4
    <3>2. ASSUME NEW u \in D, u < Up[c] \/ u = Up[c] PROVE u \in known2
      <4>1. CASE u = s
        BY <2>1, <4>1
      <4>2. CASE u # s
        <5>1. Up[u] \in D /\ Up[u] < u
          BY <2>4, <4>2
        <5>2. u \in Nat /\ Up[u] \in Nat /\ Up[c] \in Nat
          BY <2>3, <3>1, <5>1
        <5>3. u \in r.known
          BY <2>3, <2>10, <3>2, <5>1, <5>2
        <5> QED BY <5>3
      <4> QED BY <4>1, <4>2
    <3>3. ASSUME NEW z \in r.known PROVE z \in OnDisk /\ Up[z] \in known2
      <4>1. z \in OnDisk /\ (Up[z] \in {u \in D : u < Up[c]} \/ Up[z] = Up[c])
        BY <2>10, <3>3 DEF Children
      <4> QED BY <3>1, <3>2, <4>1
    <3>4. ASSUME NEW z \in OnDisk, Up[z] \in r.loaded
          PROVE  z \in r.known \cup r.skipped
      <4>1. CASE Up[z] = Up[c]
        <5>1. z \in Children(Up[c])
          BY <4>1 DEF Children
        <5>2. z \in Nat /\ c \in Nat
          BY <2>3 DEF OnDisk
        <5>3. z < c \/ z >= c
          BY <5>2
        <5> QED BY <2>10, <5>1, <5>3
      <4>2. CASE Up[z] # Up[c]
        BY <2>10, <3>4, <4>2
      <4> QED BY <4>1, <4>2
    <3> QED BY <3>3, <3>4
  <2> QED BY <2>2, <2>8, <2>9, <2>10 DEF CreateChildrenFromStore
<1> QED BY <1>2, <1>3

\* Hence it keeps KnownTree.
LEMMA DiscoveryKeepsTree ==
  ASSUME TypeOK, DiskTree, KnownTree, UNCHANGED disk,
         NEW s \in known \cup {Root}, NEW r \in GetSubFolders(s), Discovered(r)
  PROVE  KnownTree' /\ known \subseteq known'
<1>1. OnDisk' = OnDisk /\ known' = known \cup r.known /\ loaded' = loaded \cup r.loaded
      /\ known' \cup skipped' = known' \cup skipped \cup r.skipped
  BY DEF OnDisk, Discovered
<1> QED BY <1>1, DiscoveryGrows DEF KnownTree

-----------------------------------------------------------------------------
(* Walks *)

LEMMA FindStarts ==
  ASSUME TypeOK, NEW stage \in Stage, NEW want \in Id, NEW at \in Slot \cup {Nothing},
         Find(stage, want, at)
  PROVE  /\ walk' \in Walk
         /\ walk'.stage = stage /\ walk'.id = walk.id
         /\ walk'.want = want /\ walk'.at = at
         /\ walk'.level = {Root} /\ walk'.below = {}
BY DEF TypeOK, Find, Walk

LEMMA NoWalkType ==
  NoWalk \in Walk /\ NoWalk.stage = "none" /\ NoWalk.level = {} /\ NoWalk.below = {}
BY DEF NoWalk, Walk, Stage

\* A folder that can move has another one above it.
LEMMA ParentThere ==
  ASSUME ServerTree, NEW i \in Id, Movable(i)
  PROVE  ParentId(i) \in Id /\ server[ParentId(i)] = Up[server[i]]
<1>1. server[i] # Nothing /\ Up[server[i]] # Root
  BY DEF Movable
<1>2. \E p \in Id : server[p] = Up[server[i]]
  BY <1>1 DEF ServerTree
<1> QED BY <1>2 DEF ParentId

\* The folder that a walk for the parent finds is at the place above.
LEMMA ParentFound ==
  ASSUME TypeOK, ServerTree, DiskNearServer, WalkGood,
         walk.stage \in {"move", "parent"}, NEW s \in Slot \cup {Root}, Finds(s)
  PROVE  /\ s \in Slot /\ s \in known /\ s = Up[server[walk.id]]
         /\ server[walk.id] \in Slot
<1>1. walk.id \in Id /\ Movable(walk.id) /\ walk.want = ParentId(walk.id)
  BY DEF WalkGood, Idle
<1>2. ParentId(walk.id) \in Id /\ server[ParentId(walk.id)] = Up[server[walk.id]]
  BY <1>1, ParentThere
<1>3. s \in Slot /\ disk[s] = ParentId(walk.id) /\ s \in known
  BY <1>1 DEF Finds, Wanted, WalkGood
<1>4. s \in OnDisk
  BY <1>2, <1>3 DEF OnDisk
<1>5. server[walk.id] \in Slot /\ Up[server[walk.id]] \in Slot
  BY <1>1 DEF Movable
<1>6. ~IsLeaf(Up[server[walk.id]])
  BY <1>5 DEF IsLeaf
<1>7. server[disk[s]] = Nothing \/ server[disk[s]] = s \/ IsLeaf(server[disk[s]])
  BY <1>4 DEF DiskNearServer
<1> QED BY <1>2, <1>3, <1>5, <1>6, <1>7

-----------------------------------------------------------------------------
(* The invariant *)

LEMMA InvInit == Init => IInv
<1> SUFFICES ASSUME Init PROVE IInv
  OBVIOUS
<1> USE DEF Init
<1>1. \A s \in Slot : (\E i \in Id : server[i] = s) =>
        disk[s] \in Id /\ server[disk[s]] = s
  OBVIOUS
<1>2. \A s \in Slot : ~(\E i \in Id : server[i] = s) => disk[s] = Nothing
  OBVIOUS
<1>3. disk \in [Slot -> Id \cup {Nothing}]
  <2>1. \A s \in Slot : disk[s] \in Id \cup {Nothing}
    BY <1>1, <1>2
  <2>2. disk = [s \in Slot |-> disk[s]]
    OBVIOUS
  <2> QED BY <2>1, <2>2
<1>4. TypeOK
  BY <1>3, NoWalkType DEF TypeOK, Children, OnDisk
<1>5. ServerTree
  BY DEF ServerTree
<1>6. DiskTree
  <2> SUFFICES ASSUME NEW s \in OnDisk PROVE Up[s] \in OnDisk \cup {Root}
    BY DEF DiskTree
  <2>1. s \in Slot /\ disk[s] # Nothing
    BY DEF OnDisk
  <2>2. PICK i \in Id : server[i] = s
    BY <1>2, <2>1
  <2>3. Up[s] = Root \/ \E p \in Id : server[p] = Up[s]
    BY <2>1, <2>2
  <2>4. Up[s] = Root \/ disk[Up[s]] \in Id
    BY <1>1, <2>1, <2>3
  <2> QED BY <2>1, <2>4 DEF OnDisk
<1>7. DiskNearServer
  BY <1>1, <1>2 DEF DiskNearServer, OnDisk
<1>8. DueMovable
  BY DEF DueMovable
<1>9. WalkGood
  BY NoWalkType DEF WalkGood, Idle
<1>10. KnownTree
  BY DEF KnownTree, Children, OnDisk
<1> QED BY <1>4, <1>5, <1>6, <1>7, <1>8, <1>9, <1>10 DEF IInv

\* The server changes while no walk goes on.
LEMMA InvServer ==
  ASSUME IInv, NEW i \in Id, NEW s \in Slot \cup {Nothing}, ServerChanges(i, s),
         \/ ServerDeletes(i) /\ s = Nothing
         \/ s \in Slot /\ ServerMoves(i, s)
  PROVE  IInv'
<1> USE DEF IInv, ServerChanges
<1>0. /\ Idle /\ walk' = walk /\ disk' = disk
      /\ \A j \in Id \ {i} : server'[j] = server[j]
      /\ server'[i] = s
  BY DEF TypeOK
<1>1. TypeOK'
  BY DEF TypeOK
<1>2. ServerTree'
  <2> SUFFICES ASSUME NEW j \in Id, server'[j] # Nothing
               PROVE  Up[server'[j]] = Root \/ \E p \in Id : server'[p] = Up[server'[j]]
    BY DEF ServerTree
  <2>1. CASE j = i
    <3>1. s \in Slot /\ ServerMoves(i, s)
      BY <1>0, <2>1
    <3>2. PICK p \in Id : server[p] = Up[s]
      BY <3>1 DEF ServerMoves, Free
    <3>3. server[p] # server[i]
      BY <3>1, <3>2 DEF ServerMoves, IsLeaf
    <3> QED BY <1>0, <2>1, <3>2, <3>3
  <2>2. CASE j # i
    <3>1. server[j] \in Slot /\ server'[j] = server[j]
      BY <1>0, <2>2 DEF TypeOK
    <3>2. Up[server[j]] # server[i] \/ Up[server[j]] = Root
      BY <3>1 DEF ServerMoves, ServerDeletes, IsLeaf, Free
    <3> QED BY <1>0, <3>1, <3>2 DEF ServerTree
  <2> QED BY <2>1, <2>2
<1>3. DiskTree'
  BY DEF DiskTree, OnDisk
<1>4. DiskNearServer'
  <2> SUFFICES ASSUME NEW z \in OnDisk
               PROVE  LET at == server'[disk[z]]
                      IN at = Nothing \/ at = z \/ (IsLeaf(at) /\ IsLeaf(z))
    BY <1>0 DEF DiskNearServer, OnDisk, IsLeaf
  <2>1. z \in Slot /\ disk[z] \in Id
    BY DEF OnDisk, TypeOK
  <2>2. CASE disk[z] # i
    BY <1>0, <2>1, <2>2 DEF DiskNearServer
  <2>3. CASE disk[z] = i /\ s # Nothing
    <3>1. IsLeaf(server[i]) /\ IsLeaf(s) /\ server[i] # Nothing
      BY <2>3 DEF ServerMoves
    <3> QED BY <1>0, <2>3, <3>1 DEF DiskNearServer
  <2>4. CASE disk[z] = i /\ s = Nothing
    BY <1>0, <2>4
  <2> QED BY <2>2, <2>3, <2>4
<1>5. DueMovable'
  <2> SUFFICES ASSUME NEW j \in due \cup {i}, server'[j] # Nothing PROVE Movable(j)'
    BY DEF DueMovable
  <2>1. CASE j = i
    BY <1>0, <2>1 DEF Movable, ServerMoves, IsLeaf
  <2>2. CASE j # i
    BY <1>0, <2>2 DEF DueMovable, Movable, IsLeaf, TypeOK
  <2> QED BY <2>1, <2>2
<1>6. WalkGood'
  BY <1>0 DEF WalkGood, Idle
<1>7. KnownTree'
  BY DEF KnownTree, OnDisk
<1> QED BY <1>1, <1>2, <1>3, <1>4, <1>5, <1>6, <1>7

\* What depends on the server alone stays while the server does.
LEMMA ServerKept ==
  ASSUME IInv, UNCHANGED server, due' \subseteq due
  PROVE  ServerTree' /\ DueMovable' /\ \A i \in Id : Movable(i)' = Movable(i)
                                             /\ ParentId(i)' = ParentId(i)
BY DEF IInv, ServerTree, DueMovable, Movable, ParentId, IsLeaf

LEMMA DiskKept ==
  ASSUME IInv, UNCHANGED <<server, disk>>
  PROVE  DiskTree' /\ DiskNearServer'
BY DEF IInv, DiskTree, DiskNearServer, OnDisk, IsLeaf

\* At the end of a callback there is no walk.
LEMMA WalkOver == walk' = NoWalk => WalkGood'
BY NoWalkType DEF WalkGood, Idle

\* The types of what a discovery changes.
LEMMA DiscoveredType ==
  ASSUME TypeOK, NEW s \in Slot \cup {Root}, NEW r \in GetSubFolders(s), Discovered(r)
  PROVE  known' \subseteq Slot /\ loaded' \subseteq Slot /\ skipped' \subseteq Slot
BY DiscoveryType DEF TypeOK, Discovered

LEMMA InvBrowse ==
  ASSUME IInv, NEW s \in Slot, Browse(s)
  PROVE  IInv'
<1> USE DEF IInv
<1>1. PICK r \in GetSubFolders(s) : Discovered(r)
  BY DEF Browse
<1>2. UNCHANGED <<disk, server, due, changes, walk, lost>> /\ s \in known /\ Idle
  BY DEF Browse
<1>3. TypeOK'
  BY <1>1, <1>2, DiscoveredType DEF TypeOK
<1>4. KnownTree'
  BY <1>1, <1>2, DiscoveryKeepsTree
<1>5. WalkGood'
  BY <1>2 DEF WalkGood, Idle
<1> QED BY <1>2, <1>3, <1>4, <1>5, ServerKept, DiskKept

LEMMA InvRestart == IInv /\ Restart => IInv'
<1> SUFFICES ASSUME IInv, Restart PROVE IInv'
  OBVIOUS
<1> USE DEF IInv, Restart
<1>1. TypeOK'
  BY DEF TypeOK, Children, OnDisk
<1>2. KnownTree'
  BY DEF KnownTree, Children, OnDisk
<1>3. WalkGood'
  BY DEF WalkGood, Idle
<1> QED BY <1>1, <1>2, <1>3, ServerKept, DiskKept

LEMMA InvDeliver ==
  ASSUME IInv, NEW i \in Id, Deliver(i)
  PROVE  IInv'
<1> USE DEF IInv
<1>1. /\ i \in due
      /\ UNCHANGED <<disk, known, loaded, skipped, server, due, changes, lost>>
  BY DEF Deliver
<1>2. /\ walk' \in Walk /\ walk'.id = i /\ walk'.want = i
      /\ walk'.level = {Root} /\ walk'.below = {}
      /\ walk'.stage = IF server[i] = Nothing THEN "delete" ELSE "update"
  BY DEF Deliver, NoWalk, Walk, Stage
<1>3. TypeOK'
  BY <1>1, <1>2 DEF TypeOK
<1>4. KnownTree'
  BY <1>1 DEF KnownTree, OnDisk
<1>5. server[i] # Nothing => Movable(i)
  BY <1>1 DEF DueMovable
<1>6. WalkGood'
  BY <1>1, <1>2, <1>5, ServerKept DEF WalkGood, Idle
<1> QED BY <1>1, <1>3, <1>4, <1>6, ServerKept, DiskKept

LEMMA InvScan ==
  ASSUME IInv, NEW s \in Slot \cup {Root}, Scan(s)
  PROVE  IInv'
<1> USE DEF IInv
<1>1. PICK r \in GetSubFolders(s) :
        /\ Discovered(r)
        /\ walk' = [walk EXCEPT !.level = @ \ {s},
                                !.below = @ \cup {c \in known' : r.ok /\ Up[c] = s},
                                !.failed = @ \/ ~r.ok]
  BY DEF Scan
<1>2. UNCHANGED <<disk, server, due, changes, lost>> /\ s \in walk.level
  BY DEF Scan
<1>3. s \in known \cup {Root}
  BY <1>2 DEF WalkGood
<1>4. KnownTree' /\ known \subseteq known'
  BY <1>1, <1>2, <1>3, DiscoveryKeepsTree
<1>5. known' \subseteq Slot /\ loaded' \subseteq Slot /\ skipped' \subseteq Slot
  BY <1>1, DiscoveredType
<1>6. /\ walk'.stage = walk.stage /\ walk'.id = walk.id /\ walk'.want = walk.want
      /\ walk'.at = walk.at /\ walk'.level = walk.level \ {s}
      /\ walk'.below \subseteq walk.below \cup known'
  BY <1>1 DEF TypeOK, Walk
<1>7. walk' \in Walk
  <2>1. r.ok \in BOOLEAN
    BY DiscoveryType
  <2>2. {c \in known' : r.ok /\ Up[c] = s} \subseteq Slot
    BY <1>5
  <2>3. (walk.failed \/ ~r.ok) \in BOOLEAN
    OBVIOUS
  <2> QED BY <1>1, <2>2, <2>3 DEF TypeOK, Walk
<1>8. TypeOK'
  BY <1>2, <1>5, <1>7 DEF TypeOK
<1>9. ~Idle
  BY <1>2 DEF WalkGood
<1>10. WalkGood'
  BY <1>2, <1>4, <1>6, <1>9, ServerKept DEF WalkGood, Idle, TypeOK, Walk, IsLeaf
<1> QED BY <1>2, <1>4, <1>8, <1>10, ServerKept, DiskKept

LEMMA InvNextLevel == IInv /\ NextLevel => IInv'
<1> SUFFICES ASSUME IInv, NextLevel PROVE IInv'
  OBVIOUS
<1> USE DEF IInv, NextLevel, Stay
<1>1. /\ walk' \in Walk
      /\ walk'.stage = walk.stage /\ walk'.id = walk.id /\ walk'.want = walk.want
      /\ walk'.at = walk.at /\ walk'.level = walk.below /\ walk'.below = {}
  BY DEF TypeOK, Walk
<1>2. TypeOK'
  BY <1>1 DEF TypeOK
<1>3. KnownTree'
  BY DEF KnownTree, OnDisk
<1>4. WalkGood'
  BY <1>1, ServerKept DEF WalkGood, Idle, TypeOK, Walk, IsLeaf
<1> QED BY <1>2, <1>3, <1>4, ServerKept, DiskKept

LEMMA InvDelete ==
  ASSUME IInv, NEW s \in Slot \cup {Root}, DeleteFolderWithId(s)
  PROVE  IInv'
<1> USE DEF IInv
<1>1. /\ s \in Slot
      /\ disk' = [z \in Slot |-> IF z \in Below(s) THEN Nothing ELSE disk[z]]
      /\ known' = known \ Below(s) /\ loaded' = loaded \ Below(s)
      /\ skipped' = skipped \ Below(s)
      /\ walk' = NoWalk /\ due' = due \ {walk.id}
      /\ UNCHANGED <<server, changes>>
  BY DEF DeleteFolderWithId, Finds, Wanted, Return
<1>2. lost' \subseteq Id
  BY DEF DeleteFolderWithId, Return, TypeOK, WalkGood, Idle
<1>3. TypeOK'
  BY <1>1, <1>2, NoWalkType DEF TypeOK
<1>4. OnDisk' = OnDisk \ Below(s)
  BY <1>1 DEF OnDisk
<1>5. \A z \in Slot : z \notin Below(s) => Up[z] \notin Below(s)
  BY BelowChild
<1>6. DiskTree'
  BY <1>4, <1>5 DEF DiskTree, OnDisk
<1>7. DiskNearServer'
  BY <1>1, <1>4 DEF DiskNearServer, OnDisk, IsLeaf
<1>8. KnownTree'
  <2>1. \A z \in OnDisk' : Up[z] \in loaded' \cup {Root} => z \in known' \cup skipped'
    BY <1>1, <1>4 DEF KnownTree
  <2>2. \A z \in known' : disk'[z] # Nothing /\ Up[z] \in known' \cup {Root}
    BY <1>1, <1>5 DEF KnownTree, TypeOK
  <2> QED BY <2>1, <2>2 DEF KnownTree
<1> QED BY <1>1, <1>3, <1>6, <1>7, <1>8, ServerKept, WalkOver

LEMMA InvUpdate ==
  ASSUME IInv, NEW s \in Slot \cup {Root}, UpdateFolder(s)
  PROVE  IInv'
<1> USE DEF IInv
<1>1. /\ Find("move", ParentId(walk.id), s)
      /\ walk.stage = "update" /\ Finds(s)
      /\ UNCHANGED <<disk, known, loaded, skipped, server, due, changes, lost>>
  BY DEF UpdateFolder, Stay
<1>2. walk.id \in Id /\ Movable(walk.id) /\ s \in Slot /\ disk[s] = walk.id
  BY <1>1 DEF WalkGood, Idle, Finds, Wanted
<1>3. /\ walk' \in Walk /\ walk'.stage = "move" /\ walk'.id = walk.id
      /\ walk'.want = ParentId(walk.id) /\ walk'.at = s
      /\ walk'.level = {Root} /\ walk'.below = {}
  BY <1>1, <1>2, ParentThere, FindStarts DEF Stage
<1>4. IsLeaf(s)
  <2>1. s \in OnDisk
    BY <1>2 DEF OnDisk
  <2> QED BY <1>2, <2>1 DEF DiskNearServer, Movable
<1>5. TypeOK'
  BY <1>1, <1>3 DEF TypeOK
<1>6. KnownTree'
  BY <1>1 DEF KnownTree, OnDisk
<1>7. WalkGood'
  BY <1>1, <1>2, <1>3, <1>4, ServerKept DEF WalkGood, Idle, IsLeaf
<1> QED BY <1>1, <1>5, <1>6, <1>7, ServerKept, DiskKept

LEMMA InvNotFound == IInv /\ NotFound => IInv'
<1> SUFFICES ASSUME IInv, NotFound PROVE IInv'
  OBVIOUS
<1> USE DEF IInv
<1>1. UNCHANGED <<disk, known, loaded, skipped, server, changes>> /\ due' \subseteq due
      /\ lost' \subseteq Id
  BY DEF NotFound, Stay, Return, Find, TypeOK, WalkGood, Idle
<1>2. walk.id \in Id
  BY DEF NotFound, WalkGood
<1>3. walk' \in Walk /\ WalkGood'
  <2>1. CASE Return
    BY <2>1, WalkOver, NoWalkType DEF Return
  <2>2. CASE walk.stage = "update" /\ Find("again", walk.id, Nothing)
    BY <1>1, <1>2, <2>2, FindStarts, ServerKept DEF WalkGood, Idle, Stage
  <2>3. CASE walk.stage = "again" /\ Find("parent", ParentId(walk.id), Nothing)
    <3>1. Movable(walk.id) /\ ParentId(walk.id) \in Id
      BY <1>2, <2>3, ParentThere DEF WalkGood
    <3> QED BY <1>1, <1>2, <2>3, <3>1, FindStarts, ServerKept DEF WalkGood, Idle, Stage
  <2> QED BY <2>1, <2>2, <2>3 DEF NotFound
<1>4. TypeOK'
  BY <1>1, <1>3 DEF TypeOK
<1>5. KnownTree'
  BY <1>1 DEF KnownTree, OnDisk
<1> QED BY <1>1, <1>3, <1>4, <1>5, ServerKept, DiskKept

LEMMA InvMove ==
  ASSUME IInv, NEW s \in Slot \cup {Root}, MoveFolder(s)
  PROVE  IInv'
<1> DEFINE to == server[walk.id]
           at == walk.at
<1> USE DEF IInv
<1>1. walk.stage = "move" /\ Finds(s)
  BY DEF MoveFolder
<1>2. s \in Slot /\ s \in known /\ s = Up[to] /\ to \in Slot
  BY <1>1, ParentFound
<1>3. walk.id \in Id /\ Movable(walk.id) /\ at \in Slot /\ IsLeaf(at) /\ IsLeaf(to)
  BY <1>1 DEF WalkGood, Idle, Movable
<1>4. s # at /\ s # to /\ disk[s] # Nothing
  BY <1>2, <1>3 DEF IsLeaf, KnownTree
<1>5. /\ UNCHANGED <<server, changes>> /\ walk' = NoWalk /\ due' \subseteq due
      /\ lost' \subseteq Id
  BY <1>3 DEF MoveFolder, Return, TypeOK
<1>6. CASE disk[to] # Nothing
  <2>1. UNCHANGED <<disk, known, loaded, skipped>>
    BY <1>6 DEF MoveFolder, Stay
  <2> QED BY <1>5, <2>1, ServerKept, DiskKept, WalkOver, NoWalkType
          DEF TypeOK, KnownTree, OnDisk
<1>7. CASE disk[to] = Nothing
  <2>1. /\ disk' = [disk EXCEPT ![at] = Nothing, ![to] = walk.id]
        /\ known' = (known \ {at}) \cup {to}
        /\ loaded' = loaded \ {at, to} /\ skipped' = skipped \ {at, to}
    BY <1>7 DEF MoveFolder
  <2>2. TypeOK'
    BY <1>2, <1>3, <1>5, <2>1, NoWalkType DEF TypeOK
  <2>3. /\ disk'[to] = walk.id /\ walk.id # Nothing
        /\ \A z \in Slot \ {at, to} : disk'[z] = disk[z]
        /\ at # to => disk'[at] = Nothing
    BY <1>2, <1>3, <2>1 DEF TypeOK
  <2>4. OnDisk' = (OnDisk \ {at}) \cup {to}
    <3> HIDE DEF IInv
    <3>1. \A z \in Slot : disk'[z] # Nothing <=> z = to \/ (z # at /\ disk[z] # Nothing)
      BY <1>2, <1>3, <2>3
    <3> QED BY <1>2, <3>1 DEF OnDisk
  <2>5. \A z \in Slot : Up[z] # at /\ Up[z] # to
    BY <1>3 DEF IsLeaf
  <2>6. DiskTree'
    BY <1>2, <1>4, <2>4, <2>5 DEF DiskTree, OnDisk
  <2>7. DiskNearServer'
    <3> SUFFICES ASSUME NEW z \in OnDisk'
                 PROVE  LET d == server[disk'[z]]
                        IN d = Nothing \/ d = z \/ (IsLeaf(d) /\ IsLeaf(z))
      BY <1>5 DEF DiskNearServer, IsLeaf
    <3>1. CASE z = to
      BY <2>3, <3>1
    <3>2. CASE z # to
      BY <2>3, <2>4, <3>2, <1>2 DEF DiskNearServer, OnDisk, TypeOK
    <3> QED BY <3>1, <3>2
  <2>8. KnownTree'
    <3>1. \A z \in OnDisk' : Up[z] \in loaded' \cup {Root} => z \in known' \cup skipped'
      BY <2>1, <2>4 DEF KnownTree
    <3>2. ASSUME NEW z \in known'
          PROVE  disk'[z] # Nothing /\ Up[z] \in known' \cup {Root}
      <4>1. CASE z = to
        BY <1>2, <1>4, <2>1, <2>3, <4>1
      <4>2. CASE z # to
        BY <2>1, <2>3, <2>5, <4>2 DEF KnownTree, TypeOK
      <4> QED BY <4>1, <4>2
    <3> QED BY <3>1, <3>2 DEF KnownTree
  <2> QED BY <1>5, <2>2, <2>6, <2>7, <2>8, ServerKept, WalkOver
<1> QED BY <1>6, <1>7

LEMMA InvCreate ==
  ASSUME IInv, NEW s \in Slot \cup {Root}, MaybeCreateFolder(s)
  PROVE  IInv'
<1> DEFINE to == server[walk.id]
<1> USE DEF IInv
<1>1. walk.stage = "parent" /\ Finds(s)
  BY DEF MaybeCreateFolder
<1>2. s \in Slot /\ s \in known /\ s = Up[to] /\ to \in Slot
  BY <1>1, ParentFound
<1>3. walk.id \in Id /\ walk.id # Nothing
  BY <1>1 DEF WalkGood, Idle
<1>4. /\ UNCHANGED <<server, changes>> /\ walk' = NoWalk /\ due' \subseteq due
      /\ lost' \subseteq Id
  BY <1>3 DEF MaybeCreateFolder, Return, TypeOK
<1>5. PICK r \in GetSubFolders(s) :
        IF disk[to] = Nothing
          THEN /\ disk' = [disk EXCEPT ![to] = walk.id]
               /\ Discovered([r EXCEPT !.known = @ \cup {to}])
          ELSE UNCHANGED disk /\ Discovered(r)
  BY DEF MaybeCreateFolder
<1>6. CASE disk[to] # Nothing
  <2>1. UNCHANGED disk /\ Discovered(r)
    BY <1>5, <1>6
  <2>2. KnownTree'
    BY <1>2, <2>1, DiscoveryKeepsTree
  <2>3. TypeOK'
    BY <1>4, <2>1, DiscoveredType, NoWalkType DEF TypeOK
  <2> QED BY <1>4, <2>1, <2>2, <2>3, ServerKept, DiskKept, WalkOver
<1>7. CASE disk[to] = Nothing
  <2>1. disk' = [disk EXCEPT ![to] = walk.id] /\ Discovered([r EXCEPT !.known = @ \cup {to}])
    BY <1>5, <1>7
  <2>2. /\ known' = known \cup r.known \cup {to}
        /\ loaded' = loaded \cup r.loaded
        /\ skipped' = (skipped \cup r.skipped) \ known'
    BY <2>1, DiscoveryFields DEF Discovered
  <2>3. /\ disk'[to] = walk.id /\ \A z \in Slot \ {to} : disk'[z] = disk[z]
        /\ OnDisk' = OnDisk \cup {to}
    BY <1>2, <1>3, <2>1 DEF OnDisk, TypeOK
  <2>4. TypeOK'
    BY <1>2, <1>3, <1>4, <2>1, <2>2, DiscoveryType, NoWalkType DEF TypeOK
  <2>5. DiskTree'
    BY <1>2, <2>3 DEF DiskTree, KnownTree, OnDisk
  <2>6. DiskNearServer'
    BY <1>2, <1>4, <2>3 DEF DiskNearServer, OnDisk, IsLeaf
  <2>7. KnownTree'
    <3>1. /\ \A z \in OnDisk : Up[z] \in loaded \cup r.loaded \cup {Root} =>
               z \in known \cup r.known \cup skipped \cup r.skipped
          /\ \A z \in known \cup r.known :
               disk[z] # Nothing /\ Up[z] \in known \cup r.known \cup {Root}
      BY <1>2, DiscoveryGrows
    <3>2. known \cup r.known \subseteq Slot
      BY DiscoveryType DEF TypeOK
    <3>3. \A z \in OnDisk' : Up[z] \in loaded' \cup {Root} => z \in known' \cup skipped'
      BY <2>2, <2>3, <3>1
    <3>4. \A z \in known' : disk'[z] # Nothing /\ Up[z] \in known' \cup {Root}
      BY <1>2, <1>3, <2>2, <2>3, <3>1, <3>2
    <3> QED BY <3>3, <3>4 DEF KnownTree
  <2> QED BY <1>4, <2>4, <2>5, <2>6, <2>7, ServerKept, WalkOver
<1> QED BY <1>6, <1>7

LEMMA InvCreated ==
  ASSUME IInv, NEW s \in Slot \cup {Root}, CreatedAlready(s)
  PROVE  IInv'
<1> USE DEF IInv
<1>1. /\ UNCHANGED <<disk, known, loaded, skipped, server, changes>>
      /\ walk' = NoWalk /\ due' \subseteq due /\ lost' \subseteq Id
  BY DEF CreatedAlready, Stay, Return, TypeOK, WalkGood, Idle
<1> QED BY <1>1, ServerKept, DiskKept, WalkOver, NoWalkType
        DEF TypeOK, KnownTree, OnDisk

LEMMA InvNext == IInv /\ [Next]_vars => IInv'
<1> SUFFICES ASSUME IInv, [Next]_vars PROVE IInv'
  OBVIOUS
<1>1. ASSUME NEW i \in Id, ServerDeletes(i) PROVE IInv'
  BY <1>1, InvServer DEF ServerDeletes
<1>2. ASSUME NEW i \in Id, NEW s \in Slot, ServerMoves(i, s) PROVE IInv'
  BY <1>2, InvServer DEF ServerMoves
<1>3. CASE UNCHANGED vars
  BY <1>3 DEF vars, IInv, TypeOK, ServerTree, DiskTree, DiskNearServer, DueMovable,
              Movable, WalkGood, Idle, IsLeaf, ParentId, KnownTree, OnDisk
<1> QED BY <1>1, <1>2, <1>3, InvDeliver, InvBrowse, InvRestart, InvScan, InvDelete,
           InvUpdate, InvMove, InvCreated, InvCreate, InvNextLevel, InvNotFound
        DEF Next, Callback

\* The type invariant of Discovery.
THEOREM TypeCorrect == Spec => []TypeOK
<1>1. Init => IInv
  BY InvInit
<1>2. IInv /\ [Next]_vars => IInv'
  BY InvNext
<1>3. IInv => TypeOK
  BY DEF IInv
<1> QED BY <1>1, <1>2, <1>3, PTL DEF Spec

\* For any tree of places, whatever the store fails at and however it is
\* restarted: what is known is a part of the store's tree, and complete below
\* a folder with mHasLoadedSubfolders but for what AddSubfolder failed at
\* (CreateChildrenFromStore, FindFolderWithId).
THEOREM DiscoveredTree == Spec => []KnownTree
<1>1. Init => IInv
  BY InvInit
<1>2. IInv /\ [Next]_vars => IInv'
  BY InvNext
<1>3. IInv => KnownTree
  BY DEF IInv
<1> QED BY <1>1, <1>2, <1>3, PTL DEF Spec

-----------------------------------------------------------------------------
(* What a walk has not come to yet *)

SkippedUnknown == skipped \cap known = {}

\* In a walk without failures so far, what it looks for is below a folder that
\* it still has to look at, or below one that is skipped.
Ahead(z) ==
  \/ Root \in walk.level
  \/ \E a \in (walk.level \ {Root}) \cup walk.below \cup skipped : z \in Below(a)
WalkCovers ==
  ~Idle /\ ~walk.failed => \A z \in OnDisk : disk[z] = walk.want => Ahead(z)

LEMMA BelowTrans ==
  ASSUME NEW s \in Slot, NEW a \in Below(s), NEW z \in Below(a)
  PROVE  z \in Below(s)
<1>1. a \in Below(s) /\ \A c \in Slot : Up[c] \in Below(s) => c \in Below(s)
  BY BelowChild
<1>2. Below(s) \in SUBSET Slot
  BY BelowInSlot
<1>3. \A S \in SUBSET Slot :
        (a \in S /\ \A c \in Slot : Up[c] \in S => c \in S) => z \in S
  BY DEF Below
<1> QED BY <1>1, <1>2, <1>3

\* What is below a place is below one of the places directly under it.
LEMMA BelowByChild ==
  ASSUME NEW s \in Slot, NEW z \in Below(s), z # s
  PROVE  \E c \in Slot : Up[c] = s /\ z \in Below(c)
<1> DEFINE S == {x \in Slot : x = s \/ \E c \in Slot : Up[c] = s /\ x \in Below(c)}
<1>1. s \in S
  OBVIOUS
<1>2. ASSUME NEW x \in Slot, Up[x] \in S PROVE x \in S
  <2>1. CASE Up[x] = s
    BY <2>1, BelowSelf
  <2>2. CASE Up[x] # s
    BY <1>2, <2>2, BelowChild
  <2> QED BY <2>1, <2>2
<1>3. S \in SUBSET Slot
  OBVIOUS
<1> HIDE DEF S
<1>4. z \in S
  BY <1>1, <1>2, <1>3 DEF Below
<1> QED BY <1>4 DEF S

\* Every place is below one of the topmost ones.
LEMMA BelowTopmost ==
  ASSUME NEW z \in Slot
  PROVE  \E t \in Slot : Up[t] = Root /\ z \in Below(t)
<1> DEFINE S == {x \in Slot : \E t \in Slot : Up[t] = Root /\ x \in Below(t)}
<1>1. ASSUME NEW x \in Slot, Up[x] \in S \cup {Root} PROVE x \in S
  <2>1. CASE Up[x] = Root
    BY <2>1, BelowSelf
  <2>2. CASE Up[x] # Root
    BY <1>1, <2>2, BelowChild
  <2> QED BY <2>1, <2>2
<1>2. S \in SUBSET Slot
  OBVIOUS
<1> HIDE DEF S
<1>3. S = Slot
  BY <1>1, <1>2, ReachedAssumption
<1> QED BY <1>3 DEF S

\* The store has what is above a folder it has.
LEMMA AboveOnDisk ==
  ASSUME DiskTree, NEW a \in Slot, NEW z \in Below(a), z \in OnDisk
  PROVE  a \in OnDisk
<1> DEFINE S == {x \in Slot : x \in OnDisk => a \in OnDisk}
<1>1. a \in S
  OBVIOUS
<1>2. \A c \in Slot : Up[c] \in S => c \in S
  BY DEF DiskTree
<1>3. S \in SUBSET Slot
  OBVIOUS
<1> HIDE DEF S
<1>4. z \in S
  BY <1>1, <1>2, <1>3 DEF Below
<1> QED BY <1>4 DEF S

\* A discovery that works makes its folder a loaded one, and adds only what
\* is below it.
LEMMA DiscoveryOk ==
  ASSUME KnownTree, NEW s \in Slot, s \in known, NEW r \in GetSubFolders(s), r.ok
  PROVE  s \in loaded \cup r.loaded /\ r.known \subseteq Below(s)
<1>1. CASE s \in loaded
  BY <1>1 DEF GetSubFolders
<1>2. CASE s \notin loaded
  <2>1. r \in CreateChildrenFromStore(s)
    BY <1>2 DEF GetSubFolders
  <2>2. r = [ok |-> TRUE, loaded |-> Below(s) \cap OnDisk,
             known |-> Below(s) \cap OnDisk, skipped |-> {}]
    BY <2>1 DEF CreateChildrenFromStore
  <2>3. s \in Below(s) \cap OnDisk
    BY BelowSelf DEF KnownTree, OnDisk
  <2> QED BY <2>2, <2>3
<1> QED BY <1>1, <1>2

LEMMA CoverScan ==
  ASSUME IInv, SkippedUnknown, WalkCovers, NEW s \in Slot \cup {Root}, Scan(s)
  PROVE  WalkCovers'
<1> USE DEF IInv
<1>1. PICK r \in GetSubFolders(s) :
        /\ Discovered(r)
        /\ walk' = [walk EXCEPT !.level = @ \ {s},
                                !.below = @ \cup {c \in known' : r.ok /\ Up[c] = s},
                                !.failed = @ \/ ~r.ok]
  BY DEF Scan
<1>2. UNCHANGED disk /\ s \in walk.level /\ ~Wanted(s) /\ s \in known \cup {Root}
  BY DEF Scan, WalkGood
<1>3. /\ walk'.level = walk.level \ {s} /\ walk'.want = walk.want
      /\ walk'.stage = walk.stage
      /\ walk'.below = walk.below \cup {c \in known' : r.ok /\ Up[c] = s}
      /\ walk'.failed = (walk.failed \/ ~r.ok)
  BY <1>1 DEF TypeOK, Walk
<1>4. KnownTree'
  BY <1>1, <1>2, DiscoveryKeepsTree
<1>5. /\ known' = known \cup r.known /\ loaded' = loaded \cup r.loaded
      /\ skipped' = (skipped \cup r.skipped) \ known'
  BY <1>1 DEF Discovered
<1> SUFFICES ASSUME ~Idle', ~walk'.failed, NEW z \in OnDisk, disk[z] = walk.want
             PROVE  Ahead(z)'
  BY <1>2, <1>3 DEF WalkCovers, OnDisk
<1>6. ~Idle /\ ~walk.failed /\ r.ok
  <2>1. walk.failed \in BOOLEAN /\ r.ok \in BOOLEAN
    BY DiscoveryType DEF TypeOK, Walk
  <2> QED BY <1>3, <2>1 DEF Idle
<1>7. Ahead(z) /\ z \in Slot
  BY <1>6 DEF WalkCovers, OnDisk
\* The folder below s that z is under is looked at later, or skipped.
<1>8. ASSUME NEW c \in Slot, Up[c] = s, z \in Below(c), s \in loaded' \cup {Root}
      PROVE  Ahead(z)'
  <2>1. c \in OnDisk'
    BY <1>2, <1>8, AboveOnDisk DEF OnDisk
  <2>2. c \in known' \cup skipped'
    BY <1>4, <1>8, <2>1 DEF KnownTree
  <2>3. c \in walk'.below \cup skipped'
    BY <1>3, <1>6, <1>8, <2>2
  <2> QED BY <1>8, <2>3 DEF Ahead, Below
<1>9. CASE s = Root
  BY <1>7, <1>8, <1>9, BelowTopmost
<1>10. CASE s # Root
  <2>1. s \in Slot /\ s \in known /\ disk[s] # walk.want
    BY <1>2, <1>10 DEF Wanted
  <2>2. s \in loaded' /\ r.known \subseteq Below(s)
    BY <1>5, <1>6, <2>1, DiscoveryOk
  <2>3. ASSUME z \in Below(s) PROVE Ahead(z)'
    BY <1>8, <2>1, <2>2, <2>3, BelowByChild
  <2>4. CASE Root \in walk.level
    BY <1>3, <1>10, <2>4 DEF Ahead
  <2>5. ASSUME NEW a \in (walk.level \ {Root}) \cup walk.below \cup skipped, z \in Below(a)
        PROVE  Ahead(z)'
    <3>1. CASE a = s
      BY <2>3, <2>5, <3>1
    <3>2. CASE a \in (walk.level \ {Root}) \cup walk.below /\ a # s
      BY <1>3, <2>5, <3>2 DEF Ahead, Below
    <3>3. CASE a \in skipped /\ a \notin known'
      BY <1>5, <2>5, <3>3 DEF Ahead, Below
    <3>4. CASE a \in skipped /\ a \in known'
      <4>1. a \in Below(s)
        BY <1>5, <2>2, <3>4 DEF SkippedUnknown
      <4> QED BY <2>1, <2>3, <2>5, <4>1, BelowTrans
    <3> QED BY <2>5, <3>1, <3>2, <3>3, <3>4
  <2> QED BY <1>7, <2>4, <2>5 DEF Ahead
<1> QED BY <1>9, <1>10

LEMMA CoverInit == Init => SkippedUnknown /\ WalkCovers
BY NoWalkType DEF Init, SkippedUnknown, WalkCovers, Idle

\* A walk begins at the root, and there is none when a callback is over.
LEMMA CoverStarts ==
  /\ \A stage, want, at : TypeOK /\ Find(stage, want, at) => WalkCovers'
  /\ walk' = NoWalk => WalkCovers'
<1>1. ASSUME TypeOK, NEW stage, NEW want, NEW at, Find(stage, want, at) PROVE WalkCovers'
  <2>1. walk'.level = {Root}
    BY <1>1 DEF TypeOK, Walk, Find
  <2> QED BY <2>1 DEF WalkCovers, Ahead
<1>2. walk' = NoWalk => WalkCovers'
  BY NoWalkType DEF WalkCovers, Idle
<1> QED BY <1>1, <1>2

LEMMA CoverNext ==
  IInv /\ SkippedUnknown /\ WalkCovers /\ [Next]_vars => SkippedUnknown' /\ WalkCovers'
<1> SUFFICES ASSUME IInv, SkippedUnknown, WalkCovers, [Next]_vars
             PROVE  SkippedUnknown' /\ WalkCovers'
  OBVIOUS
<1>a. UNCHANGED <<known, skipped>> => SkippedUnknown'
  BY DEF SkippedUnknown
<1>b. \A r : Discovered(r) => SkippedUnknown'
  BY DEF Discovered, SkippedUnknown
<1>c. Idle /\ walk' = walk => WalkCovers'
  BY DEF WalkCovers, Idle
<1>1. ASSUME NEW i \in Id, NEW s, ServerChanges(i, s)
      PROVE  SkippedUnknown' /\ WalkCovers'
  BY <1>1, <1>a, <1>c DEF ServerChanges
<1>2. ASSUME NEW i \in Id, Deliver(i) PROVE SkippedUnknown' /\ WalkCovers'
  <2>1. walk'.level = {Root}
    BY <1>2 DEF Deliver, NoWalk
  <2> QED BY <1>2, <1>a, <2>1 DEF Deliver, WalkCovers, Ahead
<1>3. ASSUME NEW s \in Slot, Browse(s) PROVE SkippedUnknown' /\ WalkCovers'
  BY <1>3, <1>b, <1>c DEF Browse
<1>4. CASE Restart
  BY <1>4, <1>c DEF Restart, SkippedUnknown
<1>5. ASSUME NEW s \in Slot \cup {Root}, Scan(s) PROVE SkippedUnknown' /\ WalkCovers'
  BY <1>5, <1>b, CoverScan DEF Scan
<1>6. ASSUME NEW s \in Slot \cup {Root}, DeleteFolderWithId(s)
      PROVE  SkippedUnknown' /\ WalkCovers'
  BY <1>6, CoverStarts DEF DeleteFolderWithId, Return, SkippedUnknown
<1>7. ASSUME NEW s \in Slot \cup {Root}, UpdateFolder(s)
      PROVE  SkippedUnknown' /\ WalkCovers'
  BY <1>7, <1>a, CoverStarts DEF UpdateFolder, Stay, IInv
<1>8. ASSUME NEW s \in Slot \cup {Root}, MoveFolder(s)
      PROVE  SkippedUnknown' /\ WalkCovers'
  BY <1>8, <1>a, CoverStarts DEF MoveFolder, Return, Stay, SkippedUnknown
<1>9. ASSUME NEW s \in Slot \cup {Root}, CreatedAlready(s)
      PROVE  SkippedUnknown' /\ WalkCovers'
  BY <1>9, <1>a, CoverStarts DEF CreatedAlready, Return, Stay
<1>10. ASSUME NEW s \in Slot \cup {Root}, MaybeCreateFolder(s)
       PROVE  SkippedUnknown' /\ WalkCovers'
  BY <1>10, <1>b, CoverStarts DEF MaybeCreateFolder, Return
<1>11. CASE NextLevel
  <2>1. /\ walk'.level = walk.below /\ walk'.below = {} /\ walk'.want = walk.want
        /\ walk'.stage = walk.stage /\ walk'.failed = walk.failed
    BY <1>11 DEF NextLevel, IInv, TypeOK, Walk
  <2>2. Root \notin walk.below
    BY DEF IInv, TypeOK, Walk
  <2>3. \A z : Ahead(z) => Ahead(z)'
    BY <1>11, <2>1, <2>2 DEF NextLevel, Stay, Ahead, Below
  <2>4. WalkCovers'
    BY <1>11, <2>1, <2>3 DEF NextLevel, Stay, WalkCovers, Idle, OnDisk
  <2> QED BY <1>11, <1>a, <2>4 DEF NextLevel, Stay
<1>12. CASE NotFound
  BY <1>12, <1>a, CoverStarts DEF NotFound, Stay, Return, IInv
<1>13. CASE UNCHANGED vars
  BY <1>13 DEF vars, SkippedUnknown, WalkCovers, Ahead, Idle, OnDisk, Below
<1> QED BY <1>1, <1>2, <1>3, <1>4, <1>5, <1>6, <1>7, <1>8, <1>9, <1>10, <1>11, <1>12,
           <1>13 DEF Next, Callback, ServerDeletes, ServerMoves

\* A walk without failures that does not find its folder proves it gone, or
\* below one that AddSubfolder failed to bring back (FindFolderWithId,
\* DeleteFolderWithId, CreateChildrenFromStore).
THEOREM NotFoundMeansGone == Spec => []NotFoundExplained
<1> DEFINE Inv == IInv /\ SkippedUnknown /\ WalkCovers
<1>1. Init => Inv
  BY InvInit, CoverInit
<1>2. Inv /\ [Next]_vars => Inv'
  BY InvNext, CoverNext
<1>3. Inv => NotFoundExplained
  BY DEF WalkCovers, Ahead, NotFoundExplained
<1> QED BY <1>1, <1>2, <1>3, PTL DEF Spec

-----------------------------------------------------------------------------
(* What the store has in the right place stays there *)

LostMovable == \A i \in lost : server[i] # Nothing => Movable(i)

\* The folder that is about to be moved is the one the callback is about.
MovesOwn == walk.stage = "move" => disk[walk.at] = walk.id

\* A callback is about a folder that is deleted, or can move.
WalkMovable == ~Idle => walk.id \in Id /\ (server[walk.id] # Nothing => Movable(walk.id))
DeletesGone == walk.stage = "delete" => walk.want = walk.id /\ server[walk.id] = Nothing

\* The server has what is above a folder it has.
LEMMA AboveOnServer ==
  ASSUME ServerTree, NEW s \in Slot, NEW j \in Id, server[j] \in Below(s)
  PROVE  \E p \in Id : server[p] = s
<1> DEFINE S == {x \in Slot : (\E i \in Id : server[i] = x) => \E p \in Id : server[p] = s}
<1>1. s \in S
  OBVIOUS
<1>2. ASSUME NEW c \in Slot, Up[c] \in S PROVE c \in S
  <2> SUFFICES ASSUME NEW i \in Id, server[i] = c PROVE \E p \in Id : server[p] = s
    OBVIOUS
  <2>1. Up[c] \in Slot /\ c # Nothing
    BY <1>2
  <2>2. \E p \in Id : server[p] = Up[c]
    BY <2>1 DEF ServerTree
  <2> QED BY <1>2, <2>2
<1>3. S \in SUBSET Slot
  OBVIOUS
<1> HIDE DEF S
<1>4. server[j] \in S
  BY <1>1, <1>2, <1>3 DEF Below
<1> QED BY <1>4 DEF S

\* A folder the server has deleted has nothing below that is in its place.
LEMMA DeletesNothingElse ==
  ASSUME IInv, LostMovable, DiskFollows,
         NEW s \in Slot, disk[s] \in Id, server[disk[s]] = Nothing,
         NEW j \in Id \ (due \cup lost), NEW z \in Below(s), disk[z] = j
  PROVE  FALSE
<1> USE DEF IInv
<1>1. z \in Slot /\ server[j] = z
  BY BelowInSlot DEF DiskFollows, InPlace
<1>2. PICK p \in Id : server[p] = s
  BY <1>1, AboveOnServer
<1>3. z # s /\ p # disk[s]
  BY <1>1, <1>2
<1>4. ~IsLeaf(s)
  BY <1>3, BelowByChild DEF IsLeaf
<1>5. p \notin due \cup lost
  BY <1>2, <1>4 DEF DueMovable, LostMovable, Movable
<1>6. disk[s] = p
  BY <1>2, <1>5 DEF DiskFollows, InPlace
<1> QED BY <1>3, <1>6

\* What a callback leaves alone stays in place; of its own folder, lost tells.
LEMMA OthersFollow ==
  ASSUME IInv, LostMovable, WalkMovable, DiskFollows, ~Idle, Return,
         \A j \in Id \ (due \cup lost \cup {walk.id}), z \in Slot :
           disk'[z] = j <=> disk[z] = j
  PROVE  LostMovable' /\ DiskFollows' /\ MovesOwn'
<1> USE DEF Return
<1>1. walk.id \in lost' \/ InPlace(disk', walk.id)
  OBVIOUS
<1>2. \A j \in Id \ (due' \cup lost') : InPlace(disk', j)
  BY <1>1 DEF DiskFollows, InPlace
<1>3. DiskFollows'
  BY <1>2 DEF DiskFollows, InPlace
<1>4. ASSUME NEW i \in lost', server[i] # Nothing PROVE Movable(i)
  <2>1. CASE i \in lost
    BY <1>4, <2>1 DEF LostMovable
  <2>2. CASE i \notin lost
    BY <1>4, <2>2 DEF WalkMovable
  <2> QED BY <2>1, <2>2
<1>5. LostMovable'
  BY <1>4 DEF LostMovable, Movable, IsLeaf
<1> QED BY <1>3, <1>5, NoWalkType DEF MovesOwn

FollowInv == LostMovable /\ WalkMovable /\ DeletesGone /\ MovesOwn /\ DiskFollows

LEMMA FollowInit == Init => FollowInv
<1> SUFFICES ASSUME Init PROVE FollowInv
  OBVIOUS
<1> USE DEF Init
<1>1. \A i \in Id : InPlace(disk, i)
  <2> SUFFICES ASSUME NEW i \in Id, NEW s \in Slot PROVE disk[s] = i <=> s = server[i]
    BY DEF InPlace
  <2>1. disk[s] = IF \E j \in Id : server[j] = s
                    THEN CHOOSE j \in Id : server[j] = s ELSE Nothing
    OBVIOUS
  <2>2. CASE \E j \in Id : server[j] = s
    <3>1. disk[s] \in Id /\ server[disk[s]] = s
      BY <2>1, <2>2
    <3> QED BY <3>1
  <2>3. CASE ~\E j \in Id : server[j] = s
    BY <2>1, <2>3
  <2> QED BY <2>2, <2>3
<1> QED BY <1>1, NoWalkType
        DEF FollowInv, LostMovable, WalkMovable, DeletesGone, MovesOwn, DiskFollows, Idle

\* What is about the walk stays while the callback goes on.
LEMMA FollowKept ==
  ASSUME FollowInv, ~Idle, UNCHANGED <<server, due, lost, disk>>, walk'.id = walk.id,
         walk'.stage = "move" => disk[walk'.at] = walk.id,
         walk'.stage = "delete" => walk.stage = "delete" /\ walk'.want = walk.want
  PROVE  FollowInv'
<1> USE DEF FollowInv
<1>1. \A i : Movable(i)' = Movable(i) /\ InPlace(disk, i)' = InPlace(disk, i)
  BY DEF Movable, IsLeaf, InPlace
<1>2. LostMovable' /\ WalkMovable' /\ DeletesGone' /\ DiskFollows'
  BY <1>1 DEF LostMovable, WalkMovable, DeletesGone, DiskFollows, Idle
<1> QED BY <1>2 DEF MovesOwn

LEMMA FollowDelete ==
  ASSUME IInv, FollowInv, NEW s \in Slot \cup {Root}, DeleteFolderWithId(s)
  PROVE  FollowInv'
<1>1. /\ ~Idle /\ s \in Slot /\ disk[s] = walk.want /\ Return /\ walk' = NoWalk
      /\ disk' = [z \in Slot |-> IF z \in Below(s) THEN Nothing ELSE disk[z]]
  BY DEF DeleteFolderWithId, Idle, Finds, Wanted, Return
<1>2. disk[s] = walk.id /\ walk.id \in Id /\ server[walk.id] = Nothing
  BY <1>1 DEF DeleteFolderWithId, DeletesGone, WalkMovable, FollowInv
<1>3. ASSUME NEW j \in Id \ (due \cup lost \cup {walk.id}), NEW z \in Slot
      PROVE  disk'[z] = j <=> disk[z] = j
  <2>1. CASE z \in Below(s)
    BY <1>1, <1>2, <2>1, DeletesNothingElse DEF FollowInv
  <2>2. CASE z \notin Below(s)
    BY <1>1, <2>2
  <2> QED BY <2>1, <2>2
<1>4. LostMovable' /\ DiskFollows' /\ MovesOwn'
  BY <1>1, <1>3, OthersFollow DEF FollowInv
<1> QED BY <1>1, <1>4, NoWalkType DEF FollowInv, WalkMovable, DeletesGone, Idle

LEMMA FollowMove ==
  ASSUME IInv, FollowInv, NEW s \in Slot \cup {Root}, MoveFolder(s)
  PROVE  FollowInv'
<1>1. walk.stage = "move" /\ Finds(s) /\ Return /\ ~Idle /\ walk' = NoWalk
  BY DEF MoveFolder, Return, Idle
<1>2. walk.at \in Slot /\ disk[walk.at] = walk.id /\ walk.id \in Id
      /\ server[walk.id] \in Slot
  BY <1>1 DEF IInv, WalkGood, MovesOwn, FollowInv, Movable, Idle
<1>3. ASSUME NEW j \in Id \ (due \cup lost \cup {walk.id}), NEW z \in Slot
      PROVE  disk'[z] = j <=> disk[z] = j
  <2>1. CASE disk[server[walk.id]] = Nothing
    BY <1>2, <2>1 DEF MoveFolder, IInv, TypeOK
  <2>2. CASE disk[server[walk.id]] # Nothing
    BY <2>2 DEF MoveFolder, Stay
  <2> QED BY <2>1, <2>2
<1>4. LostMovable' /\ DiskFollows' /\ MovesOwn'
  BY <1>1, <1>3, OthersFollow DEF FollowInv
<1> QED BY <1>1, <1>4, NoWalkType DEF FollowInv, WalkMovable, DeletesGone, Idle

LEMMA FollowCreate ==
  ASSUME IInv, FollowInv, NEW s \in Slot \cup {Root}, MaybeCreateFolder(s)
  PROVE  FollowInv'
<1>1. walk.stage = "parent" /\ Return /\ ~Idle /\ walk' = NoWalk
  BY DEF MaybeCreateFolder, Return, Idle
<1>2. walk.id \in Id /\ server[walk.id] \in Slot
  BY <1>1 DEF IInv, WalkGood, Movable, Idle
<1>3. disk' = disk \/ (disk[server[walk.id]] = Nothing
                       /\ disk' = [disk EXCEPT ![server[walk.id]] = walk.id])
  BY DEF MaybeCreateFolder
<1>4. ASSUME NEW j \in Id \ (due \cup lost \cup {walk.id}), NEW z \in Slot
      PROVE  disk'[z] = j <=> disk[z] = j
  BY <1>2, <1>3 DEF IInv, TypeOK
<1>5. LostMovable' /\ DiskFollows' /\ MovesOwn'
  BY <1>1, <1>4, OthersFollow DEF FollowInv
<1> QED BY <1>1, <1>5, NoWalkType DEF FollowInv, WalkMovable, DeletesGone, Idle

\* A callback that leaves the store as it is.
LEMMA FollowReturn ==
  ASSUME IInv, FollowInv, ~Idle, Return, UNCHANGED disk
  PROVE  FollowInv'
<1>1. LostMovable' /\ DiskFollows' /\ MovesOwn' /\ walk' = NoWalk
  BY OthersFollow DEF FollowInv, Return
<1> QED BY <1>1, NoWalkType DEF FollowInv, WalkMovable, DeletesGone, Idle

LEMMA FollowServer ==
  ASSUME IInv, FollowInv, NEW i \in Id, NEW s \in Slot \cup {Nothing}, ServerChanges(i, s),
         s # Nothing => IsLeaf(s) /\ Up[s] # Root
  PROVE  FollowInv'
<1>1. /\ Idle /\ UNCHANGED <<disk, walk, lost>> /\ due' = due \cup {i}
      /\ server'[i] = s /\ \A j \in Id \ {i} : server'[j] = server[j]
  BY DEF ServerChanges, IInv, TypeOK
<1>2. LostMovable'
  <2> SUFFICES ASSUME NEW j \in lost, server'[j] # Nothing PROVE Movable(j)'
    BY <1>1 DEF LostMovable
  <2>1. CASE j = i
    BY <1>1, <2>1 DEF Movable, IsLeaf
  <2>2. CASE j # i
    BY <1>1, <2>2 DEF LostMovable, FollowInv, Movable, IsLeaf, IInv, TypeOK
  <2> QED BY <2>1, <2>2
<1>3. DiskFollows'
  <2> SUFFICES ASSUME NEW j \in Id \ (due \cup lost), j # i PROVE InPlace(disk, j)'
    BY <1>1 DEF DiskFollows
  <2>1. InPlace(disk, j)
    BY DEF DiskFollows, FollowInv
  <2> QED BY <1>1, <2>1 DEF InPlace
<1> QED BY <1>1, <1>2, <1>3 DEF FollowInv, WalkMovable, DeletesGone, MovesOwn, Idle

LEMMA FollowDeliver ==
  ASSUME IInv, FollowInv, NEW i \in Id, Deliver(i)
  PROVE  FollowInv'
<1>1. /\ i \in due /\ UNCHANGED <<disk, server, due, lost>>
      /\ walk'.id = i /\ walk'.want = i
      /\ walk'.stage = IF server[i] = Nothing THEN "delete" ELSE "update"
  BY DEF Deliver, NoWalk
<1>2. \A j : Movable(j)' = Movable(j) /\ InPlace(disk, j)' = InPlace(disk, j)
  BY <1>1 DEF Movable, IsLeaf, InPlace
<1>3. server[i] # Nothing => Movable(i)
  BY <1>1 DEF IInv, DueMovable
<1> QED BY <1>1, <1>2, <1>3
        DEF FollowInv, LostMovable, WalkMovable, DeletesGone, MovesOwn, DiskFollows

LEMMA FollowNext == IInv /\ FollowInv /\ [Next]_vars => FollowInv'
<1> SUFFICES ASSUME IInv, FollowInv, [Next]_vars PROVE FollowInv'
  OBVIOUS
<1>1. ASSUME NEW i \in Id, ServerDeletes(i) PROVE FollowInv'
  BY <1>1, FollowServer DEF ServerDeletes
<1>2. ASSUME NEW i \in Id, NEW s \in Slot, ServerMoves(i, s) PROVE FollowInv'
  BY <1>2, FollowServer DEF ServerMoves
<1>3. CASE UNCHANGED <<disk, server, due, walk, lost>>
  BY <1>3 DEF FollowInv, LostMovable, WalkMovable, DeletesGone, MovesOwn, DiskFollows,
              Movable, IsLeaf, InPlace, Idle
<1>4. ASSUME NEW s \in Slot \cup {Root}, Scan(s) PROVE FollowInv'
  <2>1. /\ UNCHANGED <<disk, server, due, lost>> /\ s \in walk.level
        /\ walk'.id = walk.id /\ walk'.stage = walk.stage /\ walk'.at = walk.at
        /\ walk'.want = walk.want
    BY <1>4 DEF Scan, IInv, TypeOK, Walk
  <2>2. ~Idle
    BY <2>1 DEF IInv, WalkGood
  <2> QED BY <2>1, <2>2, FollowKept DEF FollowInv, MovesOwn
<1>5. CASE NextLevel
  <2>1. /\ UNCHANGED <<disk, server, due, lost>> /\ ~Idle
        /\ walk'.id = walk.id /\ walk'.stage = walk.stage /\ walk'.at = walk.at
        /\ walk'.want = walk.want
    BY <1>5 DEF NextLevel, Stay, IInv, TypeOK, Walk, WalkGood
  <2> QED BY <2>1, FollowKept DEF FollowInv, MovesOwn
<1>6. ASSUME NEW s \in Slot \cup {Root}, UpdateFolder(s) PROVE FollowInv'
  <2>1. /\ UNCHANGED <<disk, server, due, lost>> /\ ~Idle
        /\ walk'.id = walk.id /\ walk'.at = s /\ walk'.stage = "move"
        /\ disk[s] = walk.id
    BY <1>6 DEF UpdateFolder, Stay, Find, Finds, Wanted, IInv, TypeOK, Walk, WalkGood, Idle
  <2> QED BY <2>1, FollowKept
<1>7. ASSUME NEW s \in Slot \cup {Root}, CreatedAlready(s) PROVE FollowInv'
  BY <1>7, FollowReturn DEF CreatedAlready, Stay, Idle
<1>8. CASE NotFound
  <2>1. ~Idle /\ UNCHANGED disk
    BY <1>8 DEF NotFound, Stay
  <2>2. CASE Return
    BY <2>1, <2>2, FollowReturn
  <2>3. ASSUME NEW stage \in {"again", "parent"}, NEW want, Find(stage, want, Nothing),
               UNCHANGED <<server, due, lost>>
        PROVE  FollowInv'
    <3>1. walk'.id = walk.id /\ walk'.stage = stage
      BY <2>3 DEF Find, IInv, TypeOK, Walk
    <3> QED BY <2>1, <2>3, <3>1, FollowKept
  <2> QED BY <1>8, <2>2, <2>3 DEF NotFound
<1> QED BY <1>1, <1>2, <1>3, <1>4, <1>5, <1>6, <1>7, <1>8, FollowDeliver, FollowDelete,
           FollowMove, FollowCreate
        DEF Next, Callback, Browse, Restart, vars

\* Whatever callbacks fail at, move or take along: a folder whose changes were
\* all carried out is at the server's place in the store, and nowhere else
\* (DeleteFolderWithId, UpdateFolderWithDetails, MaybeCreateFolderWithDetails).
THEOREM StoreFollows == Spec => []DiskFollows
<1> DEFINE Inv == IInv /\ FollowInv
<1>1. Init => Inv
  BY InvInit, FollowInit
<1>2. Inv /\ [Next]_vars => Inv'
  BY InvNext, FollowNext
<1>3. Inv => DiskFollows
  BY DEF FollowInv
<1> QED BY <1>1, <1>2, <1>3, PTL DEF Spec

=============================================================================
