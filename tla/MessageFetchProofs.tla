------------------------- MODULE MessageFetchProofs -------------------------
(***************************************************************************)
(* Proofs about module MessageFetch, for any channels, messages, folders   *)
(* and ids: the in-progress markers, the Offline flags and the callbacks   *)
(* of every consumer stay exact.                                           *)
(***************************************************************************)
EXTENDS MessageFetch, SequenceTheorems, TLAPS

USE MessageFetchAssumption

\* What a consumer has heard when Report is done with it.
LEMMA Reported == <<>> \o <<"start", "stop">> = <<"start", "stop">>
OBVIOUS

\* The stack of dialogs stays one when a dialog opens or the innermost closes.
LEMMA StackTypes ==
  ASSUME NEW q \in Seq(Channel), NEW c \in Channel
  PROVE  /\ Append(q, c) \in Seq(Channel)
         /\ q # <<>> => SubSeq(q, 1, Len(q) - 1) \in Seq(Channel)
<1>1. Append(q, c) \in Seq(Channel)
  OBVIOUS
<1>2. ASSUME q # <<>> PROVE SubSeq(q, 1, Len(q) - 1) \in Seq(Channel)
  <2>1. Len(q) \in Nat \ {0} /\ \A i \in 1..Len(q) : q[i] \in Channel
    BY <1>2
  <2> QED BY <2>1, SubSeqProperties
<1> QED BY <1>1, <1>2

LEMMA TypeInit == Init => TypeOK
BY DEF Init, TypeOK, State

LEMMA InvInit == Init => FetchInv
BY DEF Init, FetchInv, MarkersExact, OfflineIsStored, StartThenStop,
       DownloadsMissing, Downloading

\* Report turns a channel that was downloading into one that is done.
LEMMA ReportOK ==
  ASSUME TypeOK, StartThenStop, NEW c \in Channel, Downloading(c), Report(c)
  PROVE  /\ heard' = [heard EXCEPT ![c] = <<"start", "stop">>]
         /\ state' = [state EXCEPT ![c] = "done"]
<1>1. heard[c] = <<>>
  BY DEF StartThenStop, Downloading
<1> QED BY <1>1, Reported DEF Report

\* What the four ways to go on after GetProtocolClient have in common.
LEMMA WithClientOK ==
  ASSUME TypeOK, NEW c \in Channel, NEW m \in Message, WithClient(c, m)
  PROVE  /\ UNCHANGED <<heard, copies, offline, overtaken>>
         /\ inProgress' \subseteq Id
         /\ stream' \in [Folder -> Channel \cup {Nobody}]
         /\ clients' \subseteq Account
         /\ \E l \in {"failed", "downloading"} : state' = [state EXCEPT ![c] = l]
         /\ \/ inProgress' = inProgress /\ state' = [state EXCEPT ![c] = "failed"]
            \/ /\ IdOf[m] \notin inProgress
               /\ inProgress' = inProgress \cup {IdOf[m]}
               /\ state' = [state EXCEPT ![c] = "downloading"]
<1> USE DEF TypeOK, WithClient, storeVars
<1>1. CASE DuplicateDownload(c, m) \/ Fail(c)
  BY <1>1 DEF DuplicateDownload, Fail
<1>2. CASE BeginDownload(c, m)
  BY <1>2 DEF BeginDownload
<1>3. CASE GetMessageRefused(c, m)
  BY <1>3 DEF GetMessageRefused
<1> QED BY <1>1, <1>2, <1>3

LEMMA TypeNext == TypeOK /\ FetchInv /\ [Next]_vars => TypeOK'
<1> SUFFICES ASSUME TypeOK, FetchInv, [Next]_vars PROVE TypeOK'
  OBVIOUS
<1> USE DEF TypeOK, State, storeVars, clientVars
<1>1. ASSUME NEW c \in Channel, NEW m \in Message, AsyncOpen(c, m)
      PROVE  TypeOK'
  <2>1. msg' \in [Channel -> Message \cup {Nobody}]
    BY <1>1 DEF AsyncOpen
  <2>2. CASE WithClient(c, m) /\ UNCHANGED prompts
    BY <2>1, <2>2, WithClientOK
  <2>3. CASE PromptForPassword(c, m)
    BY <2>1, <2>3, StackTypes DEF PromptForPassword
  <2>4. CASE StartMessageReadFromStore(c, m) \/ AsyncOpenFails(c)
    BY <2>1, <2>4 DEF StartMessageReadFromStore, AsyncOpenFails, Fail
  <2> QED BY <1>1, <2>2, <2>3, <2>4 DEF AsyncOpen, DownloadMessageAndReadFromStore
<1>6. ASSUME NEW c \in Channel, PasswordEntered(c) \/ PasswordCancelled(c) PROVE TypeOK'
  <2>1. /\ prompts' \in Seq(Channel) /\ msg[c] \in Message /\ msg' = msg
    BY <1>6, StackTypes
    DEF PasswordEntered, PasswordCancelled, Innermost, Unwind, FetchInv, DownloadsMissing
  <2>2. CASE PasswordEntered(c)
    BY <2>1, <2>2, WithClientOK DEF PasswordEntered
  <2>3. CASE PasswordCancelled(c)
    BY <2>1, <2>3 DEF PasswordCancelled, Fail
  <2> QED BY <1>6, <2>2, <2>3
<1>7. ASSUME NEW a \in Account, OthersMakeClient(a) PROVE TypeOK'
  BY <1>7 DEF OthersMakeClient
<1>2. ASSUME NEW c \in Channel, FetchFails(c) PROVE TypeOK'
  <2>1. /\ heard' = [heard EXCEPT ![c] = <<"start", "stop">>]
        /\ state' = [state EXCEPT ![c] = "done"]
    BY <1>2, ReportOK DEF FetchFails, FetchInv
  <2> QED BY <1>2, <2>1 DEF FetchFails, ReleaseMarker, CloseStream
<1>3. ASSUME NEW c \in Channel, FetchSucceeds(c) PROVE TypeOK'
  <2>1. msg[c] \in Message
    BY <1>3 DEF FetchSucceeds, FetchInv, DownloadsMissing, Downloading
  <2>2. /\ inProgress' \subseteq Id /\ offline' \subseteq Message /\ msg' = msg
        /\ copies' \in [Message -> Nat] /\ stream' \in [Folder -> Channel \cup {Nobody}]
        /\ overtaken' \subseteq Message /\ UNCHANGED <<clients, prompts>>
    BY <1>3, <2>1 DEF FetchSucceeds, ReleaseMarker, CloseStream, Overtakes
  <2>3. CASE Report(c)
    <3>1. /\ heard' = [heard EXCEPT ![c] = <<"start", "stop">>]
          /\ state' = [state EXCEPT ![c] = "done"]
      BY <1>3, <2>3, ReportOK DEF FetchSucceeds, FetchInv
    <3> QED BY <2>2, <3>1
  <2>4. CASE state' = [state EXCEPT ![c] = "reading"] /\ UNCHANGED heard
    BY <2>2, <2>4
  <2> QED BY <1>3, <2>3, <2>4 DEF FetchSucceeds
<1>4. ASSUME NEW c \in Channel, Read(c) \/ Release(c) PROVE TypeOK'
  BY <1>4 DEF Read, ReadStarts, ReadStops, Release
<1>5. CASE UNCHANGED vars
  BY <1>5 DEF vars
<1> QED BY <1>1, <1>2, <1>3, <1>4, <1>5, <1>6, <1>7 DEF Next, FetchStop

\* A channel that goes to another state without a download of its own.
LEMMA NoDownloadKeepsInv ==
  ASSUME TypeOK, FetchInv, NEW c \in Channel, NEW m \in Message,
         NEW l \in {"failed", "prompting", "reading"},
         state[c] \in {"new", "prompting"},
         state' = [state EXCEPT ![c] = l],
         msg' = [msg EXCEPT ![c] = m],
         l = "prompting" => m \notin offline,
         UNCHANGED <<heard, inProgress, copies, offline, overtaken>>
  PROVE  FetchInv'
<1> USE DEF FetchInv, TypeOK, Downloading
<1>1. OfflineIsStored'
  BY DEF OfflineIsStored
<1>2. \A d \in Channel \ {c} : state'[d] = state[d] /\ msg'[d] = msg[d]
  OBVIOUS
<1>3. state'[c] = l /\ msg'[c] = m
  OBVIOUS
<1>4. {e \in Channel : state'[e] = "downloading"}
        = {e \in Channel : state[e] = "downloading"}
  BY <1>2, <1>3
<1>5. MarkersExact'
  <2>1. \A d \in Channel : state'[d] = "downloading" =>
          state[d] = "downloading" /\ msg'[d] = msg[d]
    BY <1>2, <1>3
  <2>2. inProgress' = {IdOf[msg'[d]] : d \in {e \in Channel : state'[e] = "downloading"}}
    BY <1>4, <2>1 DEF MarkersExact
  <2> QED BY <2>1, <2>2 DEF MarkersExact
<1>6. StartThenStop'
  BY <1>2, <1>3 DEF StartThenStop
<1>7. DownloadsMissing'
  BY <1>2, <1>3 DEF DownloadsMissing
<1> QED BY <1>1, <1>5, <1>6, <1>7

\* A channel that has its client, and a message that was missing when it
\* looked at the flag: the only way to begin a download.
LEMMA WithClientKeepsInv ==
  ASSUME TypeOK, FetchInv, NEW c \in Channel, NEW m \in Message,
         state[c] \in {"new", "prompting"},
         m \notin offline \/ m \in overtaken,
         msg' = [msg EXCEPT ![c] = m],
         WithClient(c, m)
  PROVE  FetchInv'
<1> USE DEF FetchInv, TypeOK, Downloading
<1>1. UNCHANGED <<heard, copies, offline, overtaken>>
  BY WithClientOK
<1>2. CASE inProgress' = inProgress /\ state' = [state EXCEPT ![c] = "failed"]
  BY <1>1, <1>2, NoDownloadKeepsInv
<1>3. CASE /\ IdOf[m] \notin inProgress
           /\ inProgress' = inProgress \cup {IdOf[m]}
           /\ state' = [state EXCEPT ![c] = "downloading"]
  <2>2. \A d \in Channel \ {c} : state'[d] = state[d] /\ msg'[d] = msg[d]
    BY <1>3
  <2>3. state'[c] = "downloading" /\ msg'[c] = m
    BY <1>3
  <2>4. MarkersExact'
    <3>1. \A d \in Channel \ {c} :
            state[d] = "downloading" => IdOf[msg[d]] # IdOf[m]
      BY <1>3 DEF MarkersExact
    <3>2. inProgress' = {IdOf[msg'[d]] : d \in {e \in Channel : state'[e] = "downloading"}}
      BY <1>3, <2>2, <2>3 DEF MarkersExact
    <3> QED BY <3>1, <3>2, <2>2, <2>3 DEF MarkersExact
  <2>5. StartThenStop'
    BY <1>1, <2>2, <2>3 DEF StartThenStop
  <2>6. DownloadsMissing'
    BY <1>1, <2>2, <2>3 DEF DownloadsMissing
  <2>7. OfflineIsStored'
    BY <1>1 DEF OfflineIsStored
  <2> QED BY <2>4, <2>5, <2>6, <2>7
<1> QED BY <1>2, <1>3, WithClientOK

LEMMA OpenKeepsInv ==
  ASSUME TypeOK, FetchInv, NEW c \in Channel, NEW m \in Message, AsyncOpen(c, m)
  PROVE  FetchInv'
<1> USE DEF storeVars
<1>1. state[c] = "new" /\ msg' = [msg EXCEPT ![c] = m]
  BY DEF AsyncOpen
<1>2. CASE StartMessageReadFromStore(c, m)
  BY <1>1, <1>2, NoDownloadKeepsInv DEF StartMessageReadFromStore
<1>3. CASE AsyncOpenFails(c)
  BY <1>1, <1>3, NoDownloadKeepsInv DEF AsyncOpenFails, Fail
<1>4. CASE DownloadMessageAndReadFromStore(c, m)
  <2>1. m \notin offline
    BY <1>4 DEF DownloadMessageAndReadFromStore
  <2>2. CASE PromptForPassword(c, m)
    BY <1>1, <2>1, <2>2, NoDownloadKeepsInv DEF PromptForPassword
  <2>3. CASE WithClient(c, m)
    BY <1>1, <2>1, <2>3, WithClientKeepsInv
  <2> QED BY <1>4, <2>2, <2>3 DEF DownloadMessageAndReadFromStore
<1> QED BY <1>2, <1>3, <1>4 DEF AsyncOpen

\* The end of a dialog: its channel was waiting for a message that was missing
\* when it began to wait.
LEMMA DialogKeepsInv ==
  ASSUME TypeOK, FetchInv, NEW c \in Channel, PasswordEntered(c) \/ PasswordCancelled(c)
  PROVE  FetchInv'
<1>1. /\ state[c] = "prompting" /\ msg' = msg
  BY DEF PasswordEntered, PasswordCancelled, Innermost
<1>2. /\ msg[c] \in Message
      /\ msg[c] \notin offline \/ msg[c] \in overtaken
  BY <1>1 DEF FetchInv, DownloadsMissing
<1>3. msg' = [msg EXCEPT ![c] = msg[c]]
  BY <1>1 DEF TypeOK
<1>4. CASE PasswordEntered(c)
  BY <1>1, <1>2, <1>3, <1>4, WithClientKeepsInv DEF PasswordEntered
<1>5. CASE PasswordCancelled(c)
  BY <1>1, <1>2, <1>3, <1>5, NoDownloadKeepsInv DEF PasswordCancelled, Fail, storeVars
<1> QED BY <1>4, <1>5

\* A download that ends takes its own marker along and no other one.
LEMMA EndKeepsMarkers ==
  ASSUME TypeOK, FetchInv, NEW c \in Channel, Downloading(c), ReleaseMarker(c),
         msg' = msg, NEW l \in {"reading", "done"},
         state' = [state EXCEPT ![c] = l]
  PROVE  MarkersExact'
<1> USE DEF FetchInv, TypeOK, Downloading, MarkersExact
<1>1. \A d \in Channel : state'[d] = "downloading" <=>
        state[d] = "downloading" /\ d # c
  OBVIOUS
<1>2. \A d \in Channel : state[d] = "downloading" /\ d # c =>
        IdOf[msg[d]] # IdOf[msg[c]]
  OBVIOUS
<1>3. inProgress' = {IdOf[msg[d]] : d \in {e \in Channel : state'[e] = "downloading"}}
  BY <1>1, <1>2 DEF ReleaseMarker
<1> QED BY <1>1, <1>3

LEMMA FailKeepsInv ==
  ASSUME TypeOK, FetchInv, NEW c \in Channel, FetchFails(c) PROVE FetchInv'
<1> USE DEF FetchInv, TypeOK
<1>1. /\ heard' = [heard EXCEPT ![c] = <<"start", "stop">>]
      /\ state' = [state EXCEPT ![c] = "done"]
      /\ Downloading(c) /\ ReleaseMarker(c) /\ UNCHANGED <<msg, copies, offline, overtaken>>
  BY ReportOK DEF FetchFails, storeVars
<1>2. MarkersExact'
  BY <1>1, EndKeepsMarkers
<1>3. OfflineIsStored'
  BY <1>1 DEF OfflineIsStored
<1>4. StartThenStop'
  BY <1>1 DEF StartThenStop
<1>5. DownloadsMissing'
  BY <1>1 DEF DownloadsMissing, Downloading
<1> QED BY <1>2, <1>3, <1>4, <1>5

LEMMA SuccessKeepsInv ==
  ASSUME TypeOK, FetchInv, NEW c \in Channel, FetchSucceeds(c) PROVE FetchInv'
<1> USE DEF FetchInv, TypeOK
<1>1. /\ Downloading(c) /\ ReleaseMarker(c) /\ msg' = msg
      /\ offline' = offline \cup {msg[c]}
      /\ copies' = [copies EXCEPT ![msg[c]] = @ + 1]
      /\ overtaken \subseteq overtaken'
      /\ \A d \in Channel : state[d] = "prompting" /\ msg[d] = msg[c] => msg[c] \in overtaken'
  BY DEF FetchSucceeds, Overtakes
<1>2. msg[c] \in Message /\ (msg[c] \notin offline \/ msg[c] \in overtaken)
  BY <1>1 DEF DownloadsMissing, Downloading
<1>3. \/ state' = [state EXCEPT ![c] = "reading"] /\ heard' = heard
      \/ /\ state' = [state EXCEPT ![c] = "done"]
         /\ heard' = [heard EXCEPT ![c] = <<"start", "stop">>]
  BY <1>1, ReportOK DEF FetchSucceeds
<1>4. MarkersExact'
  BY <1>1, <1>3, EndKeepsMarkers
<1>5. OfflineIsStored'
  BY <1>1, <1>2 DEF OfflineIsStored
<1>6. StartThenStop'
  BY <1>1, <1>3 DEF StartThenStop, Downloading
<1>7. DownloadsMissing'
  <2>1. \A d \in Channel : state[d] = "downloading" /\ d # c => msg[d] # msg[c]
    BY <1>1 DEF MarkersExact, Downloading
  <2>2. \A d \in Channel : /\ state'[d] = "downloading" => state[d] = "downloading" /\ d # c
                           /\ state'[d] = "prompting" => state[d] = "prompting"
                           /\ state'[d] # "new" => state[d] # "new"
    BY <1>1, <1>3 DEF Downloading
  <2>3. ASSUME NEW d \in Channel, state'[d] \in {"downloading", "prompting"}
        PROVE  msg[d] \notin offline' \/ msg[d] \in overtaken'
    BY <1>1, <2>1, <2>2, <2>3 DEF DownloadsMissing, Downloading
  <2>4. \A d \in Channel : state'[d] # "new" => msg'[d] \in Message
    BY <1>1, <2>2 DEF DownloadsMissing
  <2> QED BY <1>1, <2>3, <2>4 DEF DownloadsMissing, Downloading
<1> QED BY <1>4, <1>5, <1>6, <1>7

\* Reading and dropping a channel touch no download.
LEMMA ReadKeepsInv ==
  ASSUME TypeOK, FetchInv, NEW c \in Channel, Read(c) \/ Release(c) PROVE FetchInv'
<1> USE DEF FetchInv, TypeOK, Downloading, Read, ReadStarts, ReadStops, Release
<1>1. UNCHANGED <<inProgress, copies, offline, overtaken>>
  BY DEF storeVars
<1>2. \A d \in Channel : /\ state'[d] = "downloading" <=> state[d] = "downloading"
                         /\ state'[d] = "downloading" => msg'[d] = msg[d]
  OBVIOUS
<1>3. MarkersExact'
  <2>1. inProgress' = {IdOf[msg'[d]] : d \in {e \in Channel : state'[e] = "downloading"}}
    BY <1>1, <1>2 DEF MarkersExact
  <2> QED BY <1>2, <2>1 DEF MarkersExact
<1>4. OfflineIsStored'
  BY <1>1 DEF OfflineIsStored
<1>5. StartThenStop'
  BY DEF StartThenStop
<1>6. DownloadsMissing'
  BY <1>1 DEF DownloadsMissing
<1> QED BY <1>3, <1>4, <1>5, <1>6

LEMMA InvNext == TypeOK /\ FetchInv /\ [Next]_vars => FetchInv'
<1> SUFFICES ASSUME TypeOK, FetchInv, [Next]_vars PROVE FetchInv'
  OBVIOUS
<1>1. CASE UNCHANGED vars
  BY <1>1 DEF vars, FetchInv, MarkersExact, OfflineIsStored, StartThenStop,
              DownloadsMissing, Downloading
<1>2. ASSUME NEW a \in Account, OthersMakeClient(a) PROVE FetchInv'
  BY <1>2 DEF OthersMakeClient, storeVars, FetchInv, MarkersExact, OfflineIsStored,
              StartThenStop, DownloadsMissing, Downloading
<1> QED
  BY <1>1, <1>2, OpenKeepsInv, DialogKeepsInv, FailKeepsInv, SuccessKeepsInv, ReadKeepsInv
  DEF Next, FetchStop

\* The type invariant of MessageFetch.tla together with what it rests on.
THEOREM FetchCorrect == Spec => [](TypeOK /\ FetchInv)
BY TypeInit, InvInit, TypeNext, InvNext, PTL DEF Spec

\* The type invariant of MessageFetch.tla.
THEOREM TypeCorrect == Spec => []TypeOK
BY FetchCorrect, PTL

\* No marker of sInProgressDownloads is left behind, none is shared.
THEOREM MarkersStayExact == Spec => []MarkersExact
<1>1. FetchInv => MarkersExact
  BY DEF FetchInv
<1> QED BY <1>1, FetchCorrect, PTL

\* The Offline flag of a header tells whether the store has the message; it
\* has it once, unless a channel that had looked at the flag already waited for
\* a password when it was stored.
THEOREM FlagsStayExact == Spec => []OfflineIsStored
<1>1. FetchInv => OfflineIsStored
  BY DEF FetchInv
<1> QED BY <1>1, FetchCorrect, PTL

\* Consumers hear one OnStartRequest, then one OnStopRequest.
THEOREM ConsumersHearOnce == Spec => []StartThenStop
<1>1. FetchInv => StartThenStop
  BY DEF FetchInv
<1> QED BY <1>1, FetchCorrect, PTL

=============================================================================
