---------------------------- MODULE MessageFetch ----------------------------
(***************************************************************************)
(* Opening messages (CarbonioMessageChannel).  AsyncOpen streams a message *)
(* from the local store if its header is flagged Offline; otherwise it     *)
(* downloads it first: it opens an output stream of the folder's store,    *)
(* enters the message id in sInProgressDownloads and asks the Rust client, *)
(* whose answer (deliver_message_fetch) writes the message in one turn of  *)
(* the event loop and ends in onFetchStop.                                 *)
(*                                                                         *)
(* Before a download GetProtocolClient may have to make the account's      *)
(* client, and may then ask for the password in a modal dialog: between    *)
(* the look at the flag and the look at the marker its nested event loop   *)
(* lets other channels through (module Account).                           *)
(*                                                                         *)
(* The store, external to this repository, accepts one new message per     *)
(* folder at a time: a second GetNewMsgOutputStream closes the stream that *)
(* the first one returned.                                                 *)
(***************************************************************************)
EXTENDS Integers, Sequences

CONSTANTS
  Channel,    \* message channels; a finished one stands for the next one
  Message,    \* the headers that can be opened, of all accounts
  Folder,
  Id,         \* Carbonio message ids: unique in one mailbox only
  FolderOf,   \* the folder of a message
  IdOf,       \* the id of a message
  Account,
  AccountOf,  \* the account of a message
  Nobody      \* no stream is open

ASSUME MessageFetchAssumption ==
  /\ FolderOf \in [Message -> Folder]
  /\ IdOf \in [Message -> Id]
  /\ AccountOf \in [Message -> Account]
  /\ Nobody \notin Channel \cup Message

VARIABLES
  state,       \* what each channel does
  msg,         \* the message it was opened for
  heard,       \* the callbacks its consumer got
  inProgress,  \* sInProgressDownloads
  stream,      \* per folder, the channel whose output stream is open
  copies,      \* copies of each message in the store
  offline,     \* the messages flagged Offline
  clients,     \* the accounts that have a client
  prompts,     \* the channels that wait for a dialog, the innermost last
  overtaken    \* history: messages stored while a channel waited to download them

vars == <<state, msg, heard, inProgress, stream, copies, offline,
          clients, prompts, overtaken>>
storeVars == <<copies, offline, overtaken>>
clientVars == <<clients, prompts>>

\* "failed": AsyncOpen returned an error, so the consumer hears nothing.
State == {"new", "failed", "prompting", "downloading", "reading", "done"}

TypeOK ==
  /\ state \in [Channel -> State]
  /\ msg \in [Channel -> Message \cup {Nobody}]
  /\ heard \in [Channel -> {<<>>, <<"start">>, <<"start", "stop">>}]
  /\ inProgress \subseteq Id
  /\ stream \in [Folder -> Channel \cup {Nobody}]
  /\ copies \in [Message -> Nat]
  /\ offline \subseteq Message
  /\ clients \subseteq Account
  /\ prompts \in Seq(Channel)
  /\ overtaken \subseteq Message

Downloading(c) == state[c] = "downloading"

-----------------------------------------------------------------------------
(* From the client to the request.  The flag has been looked at.           *)

\* The security check, the header, the server, the client, the message id, the
\* store or its stream cannot be had.
Fail(c) ==
  /\ state' = [state EXCEPT ![c] = "failed"]
  /\ UNCHANGED <<heard, inProgress, stream, storeVars>>

\* NS_ERROR_IN_PROGRESS
DuplicateDownload(c, m) ==
  /\ IdOf[m] \in inProgress
  /\ Fail(c)

BeginDownload(c, m) ==
  /\ IdOf[m] \notin inProgress
  /\ inProgress' = inProgress \cup {IdOf[m]}
  /\ stream' = [stream EXCEPT ![FolderOf[m]] = c]
  /\ state' = [state EXCEPT ![c] = "downloading"]
  /\ UNCHANGED <<heard, storeVars>>

\* The client refuses the request: the marker is taken back, but the stream,
\* with nobody to use it, already took the place of the folder's former one.
GetMessageRefused(c, m) ==
  /\ IdOf[m] \notin inProgress
  /\ stream' = [stream EXCEPT ![FolderOf[m]] = Nobody]
  /\ state' = [state EXCEPT ![c] = "failed"]
  /\ UNCHANGED <<heard, inProgress, storeVars>>

\* What comes after GetProtocolClient; nothing looks at the flag again.
WithClient(c, m) ==
  /\ clients' = clients \cup {AccountOf[m]}
  /\ DuplicateDownload(c, m) \/ BeginDownload(c, m) \/ GetMessageRefused(c, m) \/ Fail(c)

-----------------------------------------------------------------------------
(* AsyncOpen *)

StartMessageReadFromStore(c, m) ==
  /\ m \in offline
  /\ state' = [state EXCEPT ![c] = "reading"]
  /\ UNCHANGED <<heard, inProgress, stream, storeVars, clientVars>>

AsyncOpenFails(c) == Fail(c) /\ UNCHANGED clientVars

\* There is no client, nor a password to make one with: Initialize opens its
\* dialog, and does not return yet.
PromptForPassword(c, m) ==
  /\ AccountOf[m] \notin clients
  /\ prompts' = Append(prompts, c)
  /\ state' = [state EXCEPT ![c] = "prompting"]
  /\ UNCHANGED <<heard, inProgress, stream, storeVars, clients>>

DownloadMessageAndReadFromStore(c, m) ==
  /\ m \notin offline
  /\ \/ PromptForPassword(c, m)
     \/ WithClient(c, m) /\ UNCHANGED prompts

AsyncOpen(c, m) ==
  /\ state[c] = "new"
  /\ msg' = [msg EXCEPT ![c] = m]
  /\ \/ StartMessageReadFromStore(c, m)
     \/ AsyncOpenFails(c)
     \/ DownloadMessageAndReadFromStore(c, m)

-----------------------------------------------------------------------------
(* The dialogs of waiting channels, which return innermost first *)

Innermost(c) ==
  state[c] = "prompting" /\ prompts # <<>> /\ prompts[Len(prompts)] = c

Unwind == prompts' = SubSeq(prompts, 1, Len(prompts) - 1)

PasswordEntered(c) ==
  /\ Innermost(c)
  /\ Unwind
  /\ WithClient(c, msg[c])
  /\ UNCHANGED msg

PasswordCancelled(c) ==
  /\ Innermost(c)
  /\ Unwind
  /\ Fail(c)
  /\ UNCHANGED <<msg, clients>>

\* A folder sync, say, has the account's client made.
OthersMakeClient(a) ==
  /\ a \notin clients
  /\ clients' = clients \cup {a}
  /\ UNCHANGED <<state, msg, heard, inProgress, stream, storeVars, prompts>>

-----------------------------------------------------------------------------
(* The answer of the server: deliver_message_fetch calls back              *)
(* OnFetchedDataAvailable and OnFetchStop without an await in between.     *)

HasStream(c) == stream[FolderOf[msg[c]]] = c

\* FinishNewMessage or DiscardNewMessage; the latter leaves another channel's
\* stream alone.
CloseStream(c) ==
  stream' = IF HasStream(c) THEN [stream EXCEPT ![FolderOf[msg[c]]] = Nobody]
                            ELSE stream

\* A channel that waits for a password does not see that its message is there.
Overtakes(c) ==
  overtaken' = IF \E d \in Channel : state[d] = "prompting" /\ msg[d] = msg[c]
                 THEN overtaken \cup {msg[c]} ELSE overtaken

ReleaseMarker(c) == inProgress' = inProgress \ {IdOf[msg[c]]}

\* Broken variant: the consumer is told of the end of what never started.
ReportStopOnly(c) ==
  /\ heard' = [heard EXCEPT ![c] = Append(@, "stop")]
  /\ state' = [state EXCEPT ![c] = "done"]

\* The consumer gets OnStartRequest and OnStopRequest with the error.
Report(c) ==
  /\ heard' = [heard EXCEPT ![c] = @ \o <<"start", "stop">>]
  /\ state' = [state EXCEPT ![c] = "done"]

\* Broken variant: on failure the marker stays.
FetchFailsMarked(c) ==
  /\ Downloading(c)
  /\ CloseStream(c)
  /\ Report(c)
  /\ UNCHANGED <<msg, inProgress, storeVars, clientVars>>

\* Broken variant: on failure the consumer waits for ever.
FetchFailsUntold(c) ==
  /\ Downloading(c)
  /\ ReleaseMarker(c)
  /\ CloseStream(c)
  /\ UNCHANGED <<state, heard, msg, storeVars, clientVars>>

\* The request failed, or a write did, or FinishNewMessage; a download whose
\* stream was closed by another one always gets here.
FetchFails(c) ==
  /\ Downloading(c)
  /\ ReleaseMarker(c)
  /\ CloseStream(c)
  /\ Report(c)
  /\ UNCHANGED <<msg, storeVars, clientVars>>

\* Broken variant: the header is flagged whatever became of the stream.
FetchSucceedsFlagged(c) ==
  /\ Downloading(c)
  /\ ReleaseMarker(c)
  /\ CloseStream(c)
  /\ offline' = offline \cup {msg[c]}
  /\ copies' = IF HasStream(c) THEN [copies EXCEPT ![msg[c]] = @ + 1] ELSE copies
  /\ state' = [state EXCEPT ![c] = "reading"]
  /\ Overtakes(c)
  /\ UNCHANGED <<msg, heard, clientVars>>

\* Broken variant: the failed read is reported after it has begun.
FetchSucceedsTwice(c) ==
  /\ Downloading(c)
  /\ HasStream(c)
  /\ ReleaseMarker(c)
  /\ CloseStream(c)
  /\ offline' = offline \cup {msg[c]}
  /\ copies' = [copies EXCEPT ![msg[c]] = @ + 1]
  /\ heard' = [heard EXCEPT ![c] = @ \o <<"start", "stop">>]
  /\ state' = [state EXCEPT ![c] = "reading"]
  /\ Overtakes(c)
  /\ UNCHANGED <<msg, clientVars>>

\* FinishNewMessage succeeded: the header is flagged, and the message is read
\* back from the store, unless that fails to start.
FetchSucceeds(c) ==
  /\ Downloading(c)
  /\ HasStream(c)
  /\ ReleaseMarker(c)
  /\ CloseStream(c)
  /\ copies' = [copies EXCEPT ![msg[c]] = @ + 1]
  /\ offline' = offline \cup {msg[c]}
  /\ \/ state' = [state EXCEPT ![c] = "reading"] /\ UNCHANGED heard
     \/ Report(c)
  /\ Overtakes(c)
  /\ UNCHANGED <<msg, clientVars>>

-----------------------------------------------------------------------------
(* Reading from the store; Cancel reaches the read, and only the read.     *)

ReadStarts(c) ==
  /\ state[c] = "reading"
  /\ heard[c] = <<>>
  /\ heard' = [heard EXCEPT ![c] = <<"start">>]
  /\ UNCHANGED <<state, msg, inProgress, stream, storeVars, clientVars>>

\* At the end of the message, or after Cancel.
ReadStops(c) ==
  /\ state[c] = "reading"
  /\ heard[c] = <<"start">>
  /\ heard' = [heard EXCEPT ![c] = <<"start", "stop">>]
  /\ state' = [state EXCEPT ![c] = "done"]
  /\ UNCHANGED <<msg, inProgress, stream, storeVars, clientVars>>

\* The channel is dropped; the next one takes its place.
Release(c) ==
  /\ state[c] \in {"failed", "done"}
  /\ state' = [state EXCEPT ![c] = "new"]
  /\ msg' = [msg EXCEPT ![c] = Nobody]
  /\ heard' = [heard EXCEPT ![c] = <<>>]
  /\ UNCHANGED <<inProgress, stream, storeVars, clientVars>>

-----------------------------------------------------------------------------

Init ==
  /\ state = [c \in Channel |-> "new"]
  /\ msg = [c \in Channel |-> Nobody]
  /\ heard = [c \in Channel |-> <<>>]
  /\ inProgress = {}
  /\ stream = [f \in Folder |-> Nobody]
  /\ copies = [m \in Message |-> 0]
  /\ offline = {} /\ overtaken = {}
  /\ clients = {} /\ prompts = <<>>

FetchStop(c) == FetchFails(c) \/ FetchSucceeds(c)
Read(c) == ReadStarts(c) \/ ReadStops(c)

Next ==
  \/ \E c \in Channel :
       \/ \E m \in Message : AsyncOpen(c, m)
       \/ PasswordEntered(c) \/ PasswordCancelled(c)
       \/ FetchStop(c) \/ Read(c) \/ Release(c)
  \/ \E a \in Account : OthersMakeClient(a)

Spec == Init /\ [][Next]_vars

\* Every request is answered or fails, and the event loop runs the callbacks.
\* Nobody has to answer a dialog.
Fairness == \A c \in Channel : WF_vars(FetchStop(c)) /\ WF_vars(Read(c))

FairSpec == Spec /\ Fairness

-----------------------------------------------------------------------------
(* Properties *)

\* A marker stands for exactly one download: none is left behind to refuse
\* its message for ever, and no two downloads share an id ("otherwise this
\* message id would be stuck as in progress forever").
MarkersExact ==
  /\ inProgress = {IdOf[msg[c]] : c \in {d \in Channel : Downloading(d)}}
  /\ \A c, d \in Channel :
       Downloading(c) /\ Downloading(d) /\ IdOf[msg[c]] = IdOf[msg[d]] => c = d

\* The Offline flag tells what the store has, however downloads disturb each
\* other and dialogs come between: a flagged message is there, and stored once,
\* unless a channel that had seen no flag waited for a password meanwhile.
OfflineIsStored ==
  \A m \in Message :
    /\ m \in offline <=> copies[m] > 0
    /\ copies[m] > 1 => m \in overtaken

\* Every consumer hears one OnStartRequest and one OnStopRequest in this
\* order, unless AsyncOpen itself failed, and then nothing.
StartThenStop ==
  \A c \in Channel :
    /\ state[c] \in {"new", "failed", "prompting", "downloading"} => heard[c] = <<>>
    /\ state[c] = "reading" => heard[c] \in {<<>>, <<"start">>}
    /\ state[c] = "done" => heard[c] = <<"start", "stop">>

(* What the three rest on: a download, or a channel that waits to begin    *)
(* one, is for a message that is still missing, unless it was overtaken.   *)

DownloadsMissing ==
  \A c \in Channel :
    /\ state[c] # "new" => msg[c] \in Message
    /\ Downloading(c) \/ state[c] = "prompting" =>
         msg[c] \notin offline \/ msg[c] \in overtaken

FetchInv == MarkersExact /\ OfflineIsStored /\ StartThenStop /\ DownloadsMissing

\* A channel that was opened comes to an end.
OpensEnd ==
  \A c \in Channel : state[c] \in {"downloading", "reading"} ~> state[c] = "done"

\* The guard is there because a second download "implicitly invalidates the
\* first's stream": a download under way keeps its stream.
StreamKept == \A c \in Channel : Downloading(c) => HasStream(c)

=============================================================================
