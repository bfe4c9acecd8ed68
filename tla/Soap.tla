-------------------------------- MODULE Soap --------------------------------
(***************************************************************************)
(* One exchange with the server (soap.rs), and what becomes of the answer: *)
(* the shapes types.rs asks for, the errors of error.rs and the nsresult   *)
(* the listener is told.  Pure definitions; module ReadPath runs them.     *)
(*                                                                         *)
(* An answer is a record of what decoding can tell apart:                  *)
(*   arrived   the HTTP exchange as such came to its end                   *)
(*   status    the class of the HTTP status                                *)
(*   json      the body is a JSON object with a member Body                *)
(*   fault     Body.Fault, or Absent                                       *)
(*   content   what else Body has: the document it names and its members   *)
(***************************************************************************)
EXTENDS Integers, Sequences

CONSTANT Absent      \* a member that is not there (None)

\* The element of Body each operation sends (AuthRequestBody and the like).
Documents == {"Auth", "Sync", "Search", "GetMsg"}

\* Envelope and Context: the token is left out when there is none.
Envelope(document, token) == [document |-> document, authToken |-> token]

-----------------------------------------------------------------------------
(* The members the types insist on: Absent stands for one that is missing   *)
(* or of another JSON type.  All others may be missing.                     *)

IsDate(d) == d # Absent

SearchMessageFits(m) == m.id # Absent /\ IsDate(m.d)

RawMessageFits(m) == m.id # Absent /\ m.content # Absent

\* TokenValue: a string or an integer; null and none are None.
TokenKinds == {"string", "integer", "null"}
SyncTokenFits(t) == t = Absent \/ t.json \in TokenKinds

\* A list of AuthToken, SyncFolder or IdsBlock, each of them the one member it
\* must have: the token, the folder's id, the ids that were deleted.
AllGiven(list) == \A i \in DOMAIN list : list[i] # Absent

\* Does the content deserialize as the answer to a request with this document?
Fits(document, content) ==
  /\ content # Absent
  /\ content.document = document
  /\ document = "Auth" =>
       /\ content.lifetime # Absent
       /\ content.authToken # Absent /\ AllGiven(content.authToken)
  /\ document = "Sync" =>
       /\ SyncTokenFits(content.token)
       /\ AllGiven(content.folder) /\ AllGiven(content.deleted)
  /\ document = "Search" => \A i \in DOMAIN content.m : SearchMessageFits(content.m[i])
  /\ document = "GetMsg" =>
       content.m # Absent /\ \A i \in DOMAIN content.m : RawMessageFits(content.m[i])

-----------------------------------------------------------------------------
(* Results: Ok(content) or an error of error.rs *)

Ok(content) == [ok |-> TRUE, content |-> content]
Err(error) == [ok |-> FALSE, error |-> error]
Protocol == [kind |-> "Protocol"]
UnexpectedResponse == [kind |-> "UnexpectedResponse"]
Fault(code) == [kind |-> "Fault", code |-> code]

\* Fault.Reason.Text must be there; the code is three optional levels down.
FaultFits(fault) == fault.text # Absent
CodeOf(fault) == IF fault.code = Absent THEN "unknown" ELSE fault.code

\* Broken variant: an HTTP error is an error of the transport.
SendStatusFirst(document, answer) ==
  IF ~answer.arrived \/ answer.status # "success" THEN Err(Protocol)
  ELSE IF Fits(document, answer.content) THEN Ok(answer.content)
  ELSE Err(UnexpectedResponse)

\* Broken variant: content that fits is taken, fault or not.
SendContentFirst(document, answer) ==
  IF ~answer.arrived THEN Err(Protocol)
  ELSE IF answer.json /\ Fits(document, answer.content) THEN Ok(answer.content)
  ELSE Err(UnexpectedResponse)

\* send: the body is decoded before anybody looks at the HTTP status; a fault
\* comes before content.  A content that does not fit is, because Body is
\* flattened into an Option, no content at all: the whole answer is refused,
\* however small the part that is wrong.
Send(document, answer) ==
  IF ~answer.arrived THEN Err(Protocol)
  ELSE IF ~answer.json THEN Err(UnexpectedResponse)
  ELSE IF answer.fault # Absent
    THEN Err(IF FaultFits(answer.fault) THEN Fault(CodeOf(answer.fault))
                                        ELSE UnexpectedResponse)
  ELSE IF Fits(document, answer.content)
    THEN Ok(answer.content)
    ELSE Err(UnexpectedResponse)

\* ok_or_else: the first token, or message, of a list that may be empty.
First(list) == IF list = <<>> THEN Err(UnexpectedResponse) ELSE Ok(Head(list))

\* From<&Error> for nsresult
NsResult(error) ==
  IF error.kind = "Protocol" THEN "network error"
  ELSE IF error.kind = "Fault" THEN "NS_ERROR_FAILURE"
  ELSE "NS_ERROR_UNEXPECTED"

=============================================================================
