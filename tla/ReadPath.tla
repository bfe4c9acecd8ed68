------------------------------ MODULE ReadPath ------------------------------
(***************************************************************************)
(* What one mailbox message goes through until it can be read: the client  *)
(* logs in, searches a folder, the answers are decoded (module Soap), each *)
(* message becomes a summary and then a header in the local database, and  *)
(* the header's URI leads back to it (module MessageUri).                  *)
(*                                                                         *)
(* One operation at a time: what operations do to each other is the matter *)
(* of Session, MessageList and MessageFetch.  Here answers are arbitrary.  *)
(***************************************************************************)
EXTENDS Integers, Sequences, FiniteSets

CONSTANTS
  Id,          \* Carbonio message ids of the folder, numbers
  Mail,        \* the messages a server may have, without their ids
  Token,       \* auth tokens
  Path,        \* the folder's path, as MessageUri has it
  Absent,      \* a member that is not there, a variable without a value
  NoRef, NoQuery, Part,   \* a URI's empty ref and query, and a query
  SizeBits,    \* width of a header's message size
  MaxPages     \* MAX_PAGES

INSTANCE Soap
INSTANCE MessageUri

ASSUME ReadPathAssumption ==
  /\ Absent \notin Documents \cup Token \cup {"NS_OK"}
  /\ \A d \in Documents, t \in Token \cup {Absent} : Envelope(d, t) # Absent
  /\ MaxPages \in Nat \ {0}
  /\ Id \subseteq Nat /\ NoRef \notin Id    \* an id serves as message key, too
  /\ Path \in Seq({Path[k] : k \in DOMAIN Path})

\* Names and addresses are sequences of words and delimiters.
Word == STRING \cup {"quote", "open", "close"}

\* A message as the server has it, and a participant of it: his type, address
\* and name.
Participant == [t : STRING, a : Seq(Word), p : Seq(Word)]
Message == [su : STRING, d : Int, f : SUBSET STRING, s : Nat \cup {Absent},
            e : Seq(Participant)]

\* A header in the database.
Header == [subject : STRING, author : Seq(Word), date : Int, size : Nat, read : BOOLEAN]

\* The server has messages; the last part only spells out what a power is.
ASSUME MailAssumption ==
  /\ Mail \subseteq Message /\ Absent \notin Header
  /\ SizeBits \in Nat /\ 2 ^ SizeBits \in Nat \ {0}

VARIABLES
  mailbox,    \* the messages of the folder as the server has them
  session,    \* the cached token, or Absent
  op,         \* the operation under way: its document, or Absent
  request,    \* the envelope on the network
  page,       \* pages asked for
  summaries,  \* the messages of the pages so far
  told,       \* what the listener heard last
  headers,    \* the folder's database, by Carbonio id
  listed,     \* history: each message as a listener was first given it
  seen,       \* history: what was wrong with the operation's answers
  named,      \* history: the messages its pages named
  refused     \* history: those of them a call of OnMessage failed for

opVars == <<op, request, page, summaries, told, headers, listed, seen, named, refused>>
vars == <<mailbox, session, opVars>>

-----------------------------------------------------------------------------
(* A message on its way into the database *)

\* Broken variant: the first participant, sender or not.
FromAnybody(m) == IF m.e # <<>> THEN m.e[1] ELSE [t |-> "f", a |-> <<>>, p |-> <<>>]

\* The first participant of type "f".
From(m) ==
  IF \E i \in DOMAIN m.e : m.e[i].t = "f"
    THEN m.e[CHOOSE i \in DOMAIN m.e :
               m.e[i].t = "f" /\ \A j \in 1..(i - 1) : m.e[j].t # "f"]
    ELSE [t |-> "f", a |-> <<>>, p |-> <<>>]

\* to_summary: "u" among the flags says unread, no flags at all say read.
IsRead(m) == "u" \notin m.f

ToSummary(m) ==
  [id |-> m.id, subject |-> m.su, date |-> m.d,
   address |-> From(m).a, name |-> From(m).p, read |-> IsRead(m),
   size |-> IF m.s = Absent THEN 0 ELSE m.s]

\* The author as a raw From: value, a sequence of words and delimiters; the
\* name is put between quotes as it is.
Author(s) ==
  IF s.name # <<>>
    THEN <<"quote">> \o s.name \o <<"quote", "open">> \o s.address \o <<"close">>
    ELSE s.address

\* UpsertMessageHeader for a message the database does not have: milliseconds
\* become microseconds, the size is cut to the width of the field.
NewHeader(s) ==
  [subject |-> s.subject, author |-> Author(s), date |-> s.date * 1000,
   size |-> s.size % (2 ^ SizeBits), read |-> s.read]

\* Broken variant: the first OnMessage that fails is the last one.
ThroughUntilFailure(batch, failing) ==
  {k \in DOMAIN batch : \A l \in failing : k < l}

\* The calls of OnMessage that do their work: report_xpcom_error logs one that
\* fails and the next one is made all the same.
Through(batch, failing) == DOMAIN batch \ failing

\* OnMessage for one summary after the other: of those that get through, the
\* first one of an id that has no header makes one, all others change nothing.
Delivered(hs, batch, failing) ==
  LET through == Through(batch, failing)
  IN [i \in Id |->
        IF hs[i] = Absent /\ \E k \in through : batch[k].id = i
          THEN NewHeader(batch[CHOOSE k \in through :
                 batch[k].id = i /\ \A l \in through : l < k => batch[l].id # i])
          ELSE hs[i]]

-----------------------------------------------------------------------------
(* The server: it answers with content that fits or with anything else *)

Listing(order) ==
  [k \in DOMAIN order |->
     [id |-> order[k], su |-> mailbox[order[k]].su, d |-> mailbox[order[k]].d,
      f |-> mailbox[order[k]].f, s |-> mailbox[order[k]].s, e |-> mailbox[order[k]].e]]

\* A listing in which one message lacks its date, or its id.
Spoil(list) ==
  {[list EXCEPT ![k].d = Absent] : k \in DOMAIN list} \cup
  {[list EXCEPT ![k].id = Absent] : k \in DOMAIN list}

\* A page names up to two messages; a message may be on two pages.
Orders ==
  {o \in {<<>>} \cup {<<i>> : i \in Id} \cup {<<i, j>> : i, j \in Id} :
     Cardinality({o[k] : k \in DOMAIN o}) = Len(o)}

Tokens == {Absent, <<>>} \cup {<<k>> : k \in Token \cup {Absent}} \cup
          {<<k, Absent>> : k \in Token}
Ids == {<<>>, <<"id">>, <<"id", Absent>>}
RawMessages ==
  {Absent, <<>>, <<[id |-> Absent, content |-> "mime"]>>} \cup
  {<<[id |-> i, content |-> c]>> : i \in Id, c \in {Absent, "mime"}}
SyncTokens == {Absent} \cup [json : TokenKinds \cup {"boolean"}, value : {"token"}]
Listings == UNION {{Listing(o)} \cup Spoil(Listing(o)) : o \in Orders}

Contents(document) ==
  IF document = "Auth"
    THEN [document : {document}, authToken : Tokens, lifetime : {Absent, 1}]
  ELSE IF document = "Search"
    THEN [document : {document}, m : Listings, more : BOOLEAN]
  ELSE IF document = "GetMsg"
    THEN [document : {document}, m : RawMessages]
  ELSE [document : {document}, token : SyncTokens, folder : Ids, deleted : Ids]

Faults == [text : {Absent, "reason"}, code : {Absent, "account.AUTH_EXPIRED"}]

\* No answer; a body that is not JSON; JSON with nothing the client knows in
\* Body but perhaps a fault; and a content, perhaps together with a fault.
Lost == {[arrived |-> FALSE, status |-> "success", json |-> FALSE,
          fault |-> Absent, content |-> Absent]}
Garbled == [arrived : {TRUE}, status : {"success", "error"}, json : {FALSE},
            fault : {Absent}, content : {Absent}]
Bodies(faults, contents) ==
  [arrived : {TRUE}, status : {"success", "error"}, json : {TRUE},
   fault : {Absent} \cup faults, content : contents]
Answer(document) ==
  Lost \cup Garbled \cup Bodies(Faults, {Absent}) \cup
  Bodies({[text |-> "reason", code |-> Absent]}, Contents(document))

\* Between operations a message is read, or marked unread, elsewhere.
ServerMarks(i) ==
  /\ op = Absent
  /\ mailbox' = [mailbox EXCEPT ![i].f = IF "u" \in @ THEN @ \ {"u"} ELSE @ \cup {"u"}]
  /\ UNCHANGED <<session, opVars>>

SessionExpires ==
  /\ op = Absent /\ session # Absent
  /\ session' = Absent
  /\ UNCHANGED <<mailbox, opVars>>

-----------------------------------------------------------------------------
(* The operations of CarbonioClient *)

\* What an answer gives a listener to hear of: a fault the server names, and
\* any trouble at all, be it the exchange, the body or a part that is missing.
Trouble(document, a) ==
  (IF a.fault # Absent /\ a.fault.text # Absent THEN {"fault"} ELSE {}) \cup
  (IF \/ ~a.arrived \/ ~a.json \/ a.fault # Absent
      \/ ~Fits(document, a.content)
      \/ document = "Auth" /\ a.content.authToken = <<>>
      \/ document = "GetMsg" /\ a.content.m = <<>>
     THEN {"trouble"} ELSE {})

\* ensure_session looks for a token; CheckConnectivity wants no more than that.
Call(document) ==
  /\ op = Absent
  /\ op' = document
  /\ request' = IF session = Absent THEN Envelope("Auth", Absent)
                ELSE IF document = "Auth" THEN Absent
                ELSE Envelope(document, session)
  /\ page' = 0 /\ summaries' = <<>> /\ told' = Absent
  /\ seen' = {} /\ named' = {} /\ refused' = {}
  /\ UNCHANGED <<mailbox, session, headers, listed>>

\* The operation is over, and its listener hears how it went.
Tell(result) ==
  /\ told' = result
  /\ op' = Absent /\ request' = Absent /\ page' = 0 /\ summaries' = <<>>

Fail(error) == Tell(NsResult(error)) /\ UNCHANGED <<headers, listed, refused>>

\* An answer to the request for this document.
Arrives(document, a) ==
  /\ request # Absent /\ request.document = document
  /\ seen' = seen \cup Trouble(document, a)
  /\ UNCHANGED mailbox

\* login, then the request the operation is for.
LoginAnswered(a) ==
  LET sent == Send("Auth", a)
      token == IF sent.ok THEN First(sent.content.authToken) ELSE sent
  IN /\ Arrives("Auth", a)
     /\ \/ /\ token.ok
           /\ session' = token.content
           /\ request' = IF op = "Auth" THEN Absent ELSE Envelope(op, session')
           /\ UNCHANGED <<op, page, summaries, told, headers, listed, refused>>
        \/ ~token.ok /\ Fail(token.error) /\ UNCHANGED session
     /\ UNCHANGED named

\* CheckConnectivity has its token.
Connected ==
  /\ op = "Auth" /\ request = Absent
  /\ Tell("NS_OK")
  /\ UNCHANGED <<mailbox, session, headers, listed, seen, named, refused>>

\* SyncFolderHierarchy and GetMessage: one answer.
Answered(document, a) ==
  LET sent == Send(document, a)
      result == IF sent.ok /\ document = "GetMsg" THEN First(sent.content.m) ELSE sent
  IN /\ Arrives(document, a)
     /\ \/ result.ok /\ Tell("NS_OK") /\ UNCHANGED <<headers, listed, refused>>
        \/ ~result.ok /\ Fail(result.error)
     /\ UNCHANGED <<session, named>>

\* Broken variant: one page too many.
LastPagePlusOne == page = MaxPages
LastPage == page + 1 = MaxPages

\* SyncMessagesForFolder: page after page, and in the end one OnMessage after
\* the other for all of it, any of which may fail, and OnSuccess.
PageAnswered(a) ==
  LET sent == Send("Search", a)
      got == sent.content.m
      batch == summaries \o [k \in DOMAIN got |-> ToSummary(got[k])]
  IN /\ Arrives("Search", a)
     /\ named' = IF sent.ok THEN named \cup {got[k].id : k \in DOMAIN got} ELSE named
     /\ \/ ~sent.ok /\ Fail(sent.error)
        \/ /\ sent.ok /\ sent.content.more /\ got # <<>> /\ ~LastPage
           /\ page' = page + 1
           /\ summaries' = batch
           /\ UNCHANGED <<op, request, told, headers, listed, refused>>
        \/ /\ sent.ok /\ (~sent.content.more \/ got = <<>> \/ LastPage)
           /\ \E failing \in SUBSET DOMAIN batch :
                /\ headers' = Delivered(headers, batch, failing)
                /\ refused' = {batch[k].id : k \in failing}
           /\ listed' = [i \in Id |-> IF headers[i] = Absent /\ headers'[i] # Absent
                                        THEN mailbox[i] ELSE listed[i]]
           /\ Tell("NS_OK")
     /\ UNCHANGED session

Init ==
  /\ mailbox \in [Id -> Mail]
  /\ session = Absent /\ op = Absent /\ request = Absent
  /\ page = 0 /\ summaries = <<>> /\ told = Absent
  /\ seen = {} /\ named = {} /\ refused = {}
  /\ headers = [i \in Id |-> Absent] /\ listed = [i \in Id |-> Absent]

Next ==
  \/ \E i \in Id : ServerMarks(i)
  \/ SessionExpires
  \/ \E document \in Documents : Call(document)
  \/ \E a \in Answer("Auth") : LoginAnswered(a)
  \/ Connected
  \/ \E document \in {"Sync", "GetMsg"} : \E a \in Answer(document) : Answered(document, a)
  \/ \E a \in Answer("Search") : PageAnswered(a)

Spec == Init /\ [][Next]_vars

-----------------------------------------------------------------------------
(* Properties *)

Results == {"NS_OK", "network error", "NS_ERROR_FAILURE", "NS_ERROR_UNEXPECTED"}

\* The type invariant: an Auth request carries no token and any other the
\* session's, and no operation asks for more than MaxPages pages.
TypeOK ==
  /\ session \in Token \cup {Absent}
  /\ op \in Documents \cup {Absent}
  /\ request \in {Absent, Envelope("Auth", Absent)} \cup
                 {Envelope(d, session) : d \in Documents \ {"Auth"}}
  /\ request # Absent => request.document \in {"Auth", op}
  /\ op = Absent => request = Absent
  /\ page \in 0..(MaxPages - 1)
  /\ told \in Results \cup {Absent}
  /\ seen \subseteq {"fault", "trouble"}

\* A listener hears of success exactly if nothing was wrong with any answer of
\* the operation (a call of OnMessage that fails is its own affair), and of a
\* fault as NS_ERROR_FAILURE whatever the HTTP status that came with it and
\* whatever else the body had (send).
ToldWhatHappened ==
  told # Absent =>
    /\ told = "NS_OK" <=> seen = {}
    /\ told = "NS_ERROR_FAILURE" <=> "fault" \in seen

\* The database changes only when every page of the listing was good: nothing
\* of a listing that failed half-way, or that had one message that could not
\* be decoded, gets in.  And when a listener hears of the success of a listing,
\* each message that any of its pages named is in the database, but for those
\* whose own OnMessage failed (sync_messages_for_folder,
\* deliver_message_list_sync).
AllListedUnlessRefused ==
  [][/\ headers' # headers => seen' = {} /\ told' = "NS_OK"
     /\ op = "Search" /\ told' = "NS_OK" =>
          \A i \in named' : headers'[i] # Absent \/ i \in refused']_vars

\* A raw From: value that has the form of a name and an address.
Named(author) ==
  author # <<>> /\ Head(author) = "quote" /\ author[Len(author)] = "close"

\* A raw From: value as a reader of headers splits it: a name between the
\* first two quotes and an address between brackets, or an address alone.
SenderOf(author) ==
  IF Named(author)
    THEN LET close == CHOOSE k \in 2..Len(author) :
               author[k] = "quote" /\ \A j \in 2..(k - 1) : author[j] # "quote"
             rest == SubSeq(author, close + 1, Len(author))
         IN [p |-> SubSeq(author, 2, close - 1),
             a |-> IF rest # <<>> /\ rest[1] = "open"
                     THEN SubSeq(rest, 2, Len(rest) - 1) ELSE rest]
    ELSE [p |-> <<>>, a |-> author]

Unquoted(name) == \A k \in DOMAIN name : name[k] # "quote"

\* Senders the author's form can carry: not a name with a quote in it, nor an
\* address alone that looks like a name and an address.
Writable(s) == Unquoted(s.p) /\ (s.p = <<>> => ~Named(s.a))

\* A header says what a message says: its sender if the author's form can carry
\* all the senders there are, its date, its size if the field can hold it, its
\* read state.
Says(h, m) ==
  LET senders == {m.e[k] : k \in {l \in DOMAIN m.e : m.e[l].t = "f"}}
  IN /\ h.subject = m.su /\ h.date \div 1000 = m.d
     /\ h.read <=> "u" \notin m.f
     /\ m.s # Absent /\ m.s < 2 ^ SizeBits => h.size = m.s
     /\ IF senders = {} THEN h.author = <<>>
        ELSE (\A s \in senders : Writable(s)) =>
               \E s \in senders : SenderOf(h.author) = [p |-> s.p, a |-> s.a]

\* A header says what the server said when the message was first listed, and
\* not what it says since (to_summary, UpsertMessageHeader).
HeadersFaithful ==
  \A i \in Id : headers[i] # Absent => Says(headers[i], listed[i])

\* From its URI, or from the channel URI made of that, with any query, a
\* message in the database is found again; a channel URI is left as it is, and
\* no two messages of the folder share one (GetUrlForUri, MsgHdrFromUri).
UrisLeadBack ==
  \A i \in Id, query \in {NoQuery, Part} :
    headers[i] # Absent =>
      LET message == WithQuery(MessageUriOf(Path, i), query)
          channel == GetUrlForUri(message)
      IN /\ \A uri \in {message, channel} :
              /\ ~Refused(uri)
              /\ MsgHdrFromUri(uri) = [folder |-> FolderUri(Path), key |-> i]
              /\ GetUrlForUri(uri) = channel
         /\ channel.query = query /\ channel.ref = NoRef

=============================================================================
