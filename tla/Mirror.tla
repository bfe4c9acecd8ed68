------------------------------- MODULE Mirror -------------------------------
(***************************************************************************)
(* What a folder synchronisation promises (ICarbonioClient.idl:            *)
(* "Synchronizes the local folder listing with changes made on the remote  *)
(* server"): between two turns of the event loop the local listing is the  *)
(* mail part of the server's hierarchy as it was at some version, and it   *)
(* only ever moves on to a later version.                                  *)
(***************************************************************************)
EXTENDS Integers

CONSTANTS Folder, MailFolder, Absent

VARIABLES
  hist,      \* the server's hierarchy at each version
  version,   \* the server's current version
  listing,   \* the local listing
  seen       \* the version the listing shows, 0 before the first sync

mirrorVars == <<hist, version, listing, seen>>

Snapshot(v) == [f \in Folder |-> IF f \in MailFolder THEN hist[v][f] ELSE Absent]

Init ==
  /\ version = 1
  /\ seen = 0
  /\ listing = [f \in Folder |-> Absent]

\* The past of the server's hierarchy never changes.
ServerChanges ==
  /\ version' = version + 1
  /\ \A v \in 0..version : hist'[v] = hist[v]
  /\ UNCHANGED <<listing, seen>>

Pull ==
  /\ seen' \in seen..version
  /\ listing' = Snapshot(seen')
  /\ UNCHANGED <<hist, version>>

Next == ServerChanges \/ Pull

Spec == Init /\ [][Next]_mirrorVars

=============================================================================
