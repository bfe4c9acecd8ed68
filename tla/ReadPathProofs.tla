--------------------------- MODULE ReadPathProofs ---------------------------
(***************************************************************************)
(* Proofs about modules Soap and ReadPath, for any messages, tokens and    *)
(* number of pages: listeners hear what happened, a listing that fails     *)
(* leaves the database alone, and one that succeeds has all its messages   *)
(* there but those whose OnMessage failed.  The invariant is that nothing  *)
(* was wrong with any answer as long as an operation goes on, for the      *)
(* first trouble ends it, and that the summaries so far are of all the     *)
(* messages the pages named.  A header is faithful because the pages of a listing   *)
(* are summaries of the mailbox as it is, and because its author can be    *)
(* read back.                                                              *)
(***************************************************************************)
EXTENDS ReadPath, SequenceTheorems, WellFoundedInduction, TLAPS

USE ReadPathAssumption

-----------------------------------------------------------------------------
(* One exchange *)

\* A body that could not be had, or read, has no fault in it.
LEMMA AnswerShape ==
  ASSUME NEW document, NEW a \in Answer(document)
  PROVE  /\ a.arrived \in BOOLEAN /\ a.json \in BOOLEAN
         /\ a.arrived = FALSE \/ a.json = FALSE => a.fault = Absent
         /\ a.content = Absent \/ a.content \in Contents(document)
<1>1. CASE a \in Lost
  <2>1. a = [arrived |-> FALSE, status |-> "success", json |-> FALSE,
             fault |-> Absent, content |-> Absent]
    BY <1>1 DEF Lost
  <2> QED BY <2>1
<1>2. CASE a \in Garbled
  BY <1>2 DEF Garbled
<1>3. CASE a \in Bodies(Faults, {Absent})
  BY <1>3 DEF Bodies
<1>4. CASE a \in Bodies({[text |-> "reason", code |-> Absent]}, Contents(document))
  BY <1>4 DEF Bodies
<1> QED BY <1>1, <1>2, <1>3, <1>4 DEF Answer

\* What send takes for content is content without a fault that fits.
LEMMA SendOk ==
  ASSUME NEW document, NEW a, Send(document, a).ok
  PROVE  /\ a.arrived /\ a.json /\ a.fault = Absent /\ Fits(document, a.content)
         /\ Send(document, a) = Ok(a.content)
BY DEF Send, Ok, Err

\* What it takes for an error is trouble, and NS_ERROR_FAILURE says that the
\* server named a fault.
LEMMA SendErr ==
  ASSUME NEW document, NEW a \in Answer(document), ~Send(document, a).ok
  PROVE  /\ "trouble" \in Trouble(document, a)
         /\ NsResult(Send(document, a).error) = "NS_ERROR_FAILURE" <=>
              "fault" \in Trouble(document, a)
         /\ NsResult(Send(document, a).error) \in Results \ {"NS_OK"}
<1> DEFINE sent == Send(document, a)
<1> USE DEF Trouble, NsResult, Results
<1>1. CASE ~a.arrived
  <2>1. sent = Err(Protocol) /\ a.fault = Absent
    BY <1>1, AnswerShape DEF Send, Answer
  <2> QED BY <1>1, <2>1 DEF Err, Protocol
<1>2. CASE a.arrived /\ ~a.json
  <2>1. sent = Err(UnexpectedResponse) /\ a.fault = Absent
    BY <1>2, AnswerShape DEF Send, Answer
  <2> QED BY <1>2, <2>1 DEF Err, UnexpectedResponse
<1>3. CASE a.arrived /\ a.json /\ a.fault # Absent
  <2>1. sent = Err(IF FaultFits(a.fault) THEN Fault(CodeOf(a.fault)) ELSE UnexpectedResponse)
    BY <1>3 DEF Send
  <2>2. FaultFits(a.fault) <=> a.fault.text # Absent
    BY DEF FaultFits
  <2>3. CASE a.fault.text # Absent
    <3>1. sent.error.kind = "Fault"
      BY <2>1, <2>2, <2>3 DEF Err, Fault
    <3> QED BY <1>3, <2>3, <3>1
  <2>4. CASE a.fault.text = Absent
    <3>1. sent.error.kind = "UnexpectedResponse"
      BY <2>1, <2>2, <2>4 DEF Err, UnexpectedResponse
    <3> QED BY <1>3, <2>4, <3>1
  <2> QED BY <2>3, <2>4
<1>4. CASE a.arrived /\ a.json /\ a.fault = Absent
  <2>1. sent = IF Fits(document, a.content) THEN Ok(a.content) ELSE Err(UnexpectedResponse)
    BY <1>4 DEF Send
  <2>2. ~Fits(document, a.content) /\ sent = Err(UnexpectedResponse)
    BY <2>1 DEF Ok
  <2> QED BY <1>4, <2>2 DEF Err, UnexpectedResponse
<1> QED BY <1>1, <1>2, <1>3, <1>4

\* The token of a login that worked is a token.
LEMMA TokenGiven ==
  ASSUME NEW a \in Answer("Auth"), Send("Auth", a).ok,
         First(Send("Auth", a).content.authToken).ok
  PROVE  /\ First(Send("Auth", a).content.authToken).content \in Token
         /\ Trouble("Auth", a) = {}
<1> DEFINE list == a.content.authToken
<1>1. /\ Send("Auth", a).content = a.content /\ Fits("Auth", a.content)
      /\ a.arrived /\ a.json /\ a.fault = Absent
  BY SendOk DEF Ok
<1>2. a.content # Absent /\ list # Absent
  BY <1>1 DEF Fits
<1>3. a.content \in Contents("Auth")
  BY <1>2, AnswerShape
<1>4. list \in Tokens
  BY <1>3 DEF Contents
<1>5. list # <<>> /\ \A i \in DOMAIN list : list[i] # Absent
  BY <1>1 DEF First, Err, Fits, AllGiven
<1>6. ASSUME NEW k \in Token \cup {Absent}, list = <<k>>
      PROVE  k \in Token
  BY <1>5, <1>6
<1>7. ASSUME NEW k \in Token, list = <<k, Absent>>
      PROVE  FALSE
  <2>1. 2 \in DOMAIN list /\ list[2] = Absent
    BY <1>7
  <2> QED BY <1>5, <2>1
<1>8. PICK k \in Token : list = <<k>>
  BY <1>2, <1>4, <1>5, <1>6, <1>7 DEF Tokens
<1>9. First(list).content = k
  BY <1>8 DEF First, Ok
<1> QED BY <1>1, <1>5, <1>9 DEF Trouble

\* The first page that is trouble ends the listing, and so for the others.
LEMMA PageGood ==
  ASSUME NEW a, Send("Search", a).ok
  PROVE  Trouble("Search", a) = {}
BY SendOk DEF Trouble

\* What Answered reports as a success was one.
LEMMA AnswerGood ==
  ASSUME NEW document \in {"Sync", "GetMsg"}, NEW a, Send(document, a).ok,
         document = "GetMsg" => First(Send(document, a).content.m).ok
  PROVE  Trouble(document, a) = {}
<1>1. /\ Send(document, a).content = a.content /\ Fits(document, a.content)
      /\ a.arrived /\ a.json /\ a.fault = Absent
  BY SendOk DEF Ok
<1>2. document = "GetMsg" => a.content.m # <<>>
  BY <1>1 DEF First, Err
<1> QED BY <1>1, <1>2 DEF Trouble

\* A list that is empty, where a token or a message should be.
LEMMA EmptyList ==
  ASSUME NEW document \in {"Auth", "GetMsg"}, NEW a, Send(document, a).ok,
         NEW list, list = IF document = "Auth" THEN a.content.authToken ELSE a.content.m,
         ~First(list).ok
  PROVE  /\ Trouble(document, a) = {"trouble"}
         /\ NsResult(First(list).error) = "NS_ERROR_UNEXPECTED"
<1>1. /\ Fits(document, a.content) /\ a.arrived /\ a.json /\ a.fault = Absent
  BY SendOk
<1>2. list = <<>>
  BY DEF First, Ok
<1>3. First(list).error = UnexpectedResponse
  BY <1>2 DEF First, Err
<1> QED BY <1>1, <1>2, <1>3 DEF Trouble, NsResult, UnexpectedResponse

-----------------------------------------------------------------------------
(* The inductive invariant *)

\* As long as an operation goes on nobody was told anything, and nothing was
\* wrong with the answers it had.
UnderWay == op # Absent => seen = {} /\ told = Absent

IInv == TypeOK /\ UnderWay /\ ToldWhatHappened

LEMMA InitInv == Init => IInv
BY DEF Init, IInv, TypeOK, UnderWay, ToldWhatHappened

\* How an operation ends: a success without trouble, or an error with it.
Ends(document, a) ==
  \/ Trouble(document, a) = {} /\ told' = "NS_OK"
  \/ /\ "trouble" \in Trouble(document, a) /\ told' \in Results \ {"NS_OK"}
     /\ told' = "NS_ERROR_FAILURE" <=> "fault" \in Trouble(document, a)

LEMMA EndKeeps ==
  ASSUME IInv, NEW document, NEW a, op # Absent,
         seen' = seen \cup Trouble(document, a), Ends(document, a),
         op' = Absent, request' = Absent, page' = 0, session' \in Token \cup {Absent}
  PROVE  IInv'
<1>1. seen' = Trouble(document, a) /\ seen' \subseteq {"fault", "trouble"}
  BY DEF IInv, UnderWay, Trouble
<1>2. told' \in Results
  BY DEF Ends, Results
<1>3. TypeOK'
  BY <1>1, <1>2 DEF IInv, TypeOK
<1>4. ToldWhatHappened'
  BY <1>1 DEF Ends, Results, ToldWhatHappened
<1> QED BY <1>3, <1>4 DEF IInv, UnderWay

\* The ends of the three handlers.
LEMMA FailEnds ==
  ASSUME NEW document, NEW a \in Answer(document), ~Send(document, a).ok,
         Fail(Send(document, a).error)
  PROVE  Ends(document, a)
<1>1. told' = NsResult(Send(document, a).error)
  BY DEF Fail, Tell
<1> QED BY <1>1, SendErr DEF Ends

LEMMA CallInv ==
  ASSUME IInv, NEW document \in Documents, Call(document) PROVE IInv'
BY DEF Call, IInv, TypeOK, UnderWay, ToldWhatHappened, Envelope

LEMMA ConnectedInv == IInv /\ Connected => IInv'
<1> SUFFICES ASSUME IInv, Connected PROVE IInv'
  OBVIOUS
<1>1. /\ op # Absent /\ op' = Absent /\ request' = Absent /\ page' = 0
      /\ told' = "NS_OK" /\ UNCHANGED <<session, seen>>
  BY DEF Connected, Tell, Documents
<1>2. seen = {}
  BY <1>1 DEF IInv, UnderWay
<1> QED BY <1>1, <1>2 DEF IInv, TypeOK, UnderWay, ToldWhatHappened, Results

LEMMA LoginInv ==
  ASSUME IInv, NEW a \in Answer("Auth"), LoginAnswered(a)
  PROVE  IInv' /\ told' # "NS_OK"
<1> DEFINE sent == Send("Auth", a)
           token == IF sent.ok THEN First(sent.content.authToken) ELSE sent
<1>1. /\ op # Absent /\ op \in Documents
      /\ seen' = seen \cup Trouble("Auth", a)
  BY DEF LoginAnswered, Arrives, IInv, TypeOK
<1>2. CASE token.ok
  <2>1. /\ session' = token.content
        /\ request' = IF op = "Auth" THEN Absent ELSE Envelope(op, session')
        /\ UNCHANGED <<op, page, told>>
    BY <1>2 DEF LoginAnswered, Fail, Tell
  <2>2. sent.ok
    BY <1>2
  <2>3. token = First(sent.content.authToken)
    BY <2>2
  <2>4. token.content \in Token /\ Trouble("Auth", a) = {}
    BY <1>2, <2>2, <2>3, TokenGiven
  <2> HIDE DEF token
  <2>5. session' \in Token /\ seen' = {}
    BY <1>1, <2>1, <2>4 DEF IInv, UnderWay
  <2>6. request' # Absent => request'.document \in {"Auth", op'}
    BY <1>1, <2>1 DEF Envelope
  <2> QED BY <1>1, <2>1, <2>5, <2>6 DEF IInv, TypeOK, UnderWay, ToldWhatHappened
<1>3. CASE ~token.ok
  <2>1. /\ Fail(token.error) /\ UNCHANGED session
    BY <1>3 DEF LoginAnswered
  <2>2. op' = Absent /\ request' = Absent /\ page' = 0 /\ told' = NsResult(token.error)
    BY <2>1 DEF Fail, Tell
  <2>3. Ends("Auth", a) /\ told' # "NS_OK"
    <3>1. CASE sent.ok
      <4>1. sent.content = a.content
        BY <3>1, SendOk DEF Ok
      <4>2. token = First(a.content.authToken)
        BY <3>1, <4>1
      <4>3. ~First(a.content.authToken).ok
        BY <1>3, <4>2
      <4>4. /\ Trouble("Auth", a) = {"trouble"}
            /\ NsResult(First(a.content.authToken).error) = "NS_ERROR_UNEXPECTED"
        BY <3>1, <4>3, EmptyList
      <4>5. told' = "NS_ERROR_UNEXPECTED"
        BY <2>2, <4>2, <4>4
      <4> QED BY <4>4, <4>5 DEF Ends, Results
    <3>2. CASE ~sent.ok
      BY <2>2, <3>2, SendErr DEF Ends
    <3> QED BY <3>1, <3>2
  <2>4. session' \in Token \cup {Absent}
    BY <2>1 DEF IInv, TypeOK
  <2> HIDE DEF token
  <2> QED BY <1>1, <2>2, <2>3, <2>4, EndKeeps
<1> QED BY <1>2, <1>3

LEMMA AnsweredInv ==
  ASSUME IInv, NEW document \in {"Sync", "GetMsg"}, NEW a \in Answer(document),
         Answered(document, a)
  PROVE  IInv'
<1> DEFINE sent == Send(document, a)
           result == IF sent.ok /\ document = "GetMsg" THEN First(sent.content.m) ELSE sent
<1>1. /\ op # Absent /\ seen' = seen \cup Trouble(document, a)
      /\ session' \in Token \cup {Absent}
  BY DEF Answered, Arrives, IInv, TypeOK
<1>2. /\ op' = Absent /\ request' = Absent /\ page' = 0
      /\ told' = IF result.ok THEN "NS_OK" ELSE NsResult(result.error)
  BY DEF Answered, Fail, Tell
<1>3. Ends(document, a)
  <2>1. CASE ~sent.ok
    BY <1>2, <2>1, SendErr DEF Ends
  <2>2. CASE sent.ok /\ result.ok
    <3>1. Trouble(document, a) = {}
      BY <2>2, AnswerGood
    <3> QED BY <1>2, <2>2, <3>1 DEF Ends
  <2>3. CASE sent.ok /\ ~result.ok
    <3>1. document = "GetMsg" /\ sent.content = a.content
      BY <2>3, SendOk DEF Ok
    <3>2. result = First(a.content.m)
      BY <2>3, <3>1
    <3>3. ~First(a.content.m).ok
      BY <2>3, <3>2
    <3>4. /\ Trouble(document, a) = {"trouble"}
          /\ NsResult(First(a.content.m).error) = "NS_ERROR_UNEXPECTED"
      BY <2>3, <3>1, <3>3, EmptyList
    <3>5. told' = "NS_ERROR_UNEXPECTED"
      BY <1>2, <2>3, <3>2, <3>4
    <3> QED BY <3>4, <3>5 DEF Ends, Results
  <2> QED BY <2>1, <2>2, <2>3
<1> HIDE DEF result
<1> QED BY <1>1, <1>2, <1>3, EndKeeps

LEMMA PageInv ==
  ASSUME IInv, NEW a \in Answer("Search"), PageAnswered(a)
  PROVE  IInv' /\ (headers' # headers => seen' = {} /\ told' = "NS_OK")
<1>1. /\ op # Absent /\ op \in Documents
      /\ seen' = seen \cup Trouble("Search", a) /\ seen = {}
      /\ request # Absent /\ UNCHANGED session
  BY DEF PageAnswered, Arrives, IInv, TypeOK, UnderWay
<1>2. session' \in Token \cup {Absent}
  BY <1>1 DEF IInv, TypeOK
<1>3. CASE ~Send("Search", a).ok
  <2>1. Fail(Send("Search", a).error)
    BY <1>3 DEF PageAnswered
  <2>2. /\ op' = Absent /\ request' = Absent /\ page' = 0
        /\ headers' = headers
    BY <2>1 DEF Fail, Tell
  <2>3. Ends("Search", a)
    BY <1>3, <2>1, FailEnds
  <2> QED BY <1>1, <1>2, <2>2, <2>3, EndKeeps
<1>4. CASE Send("Search", a).ok
  <2>1. Trouble("Search", a) = {} /\ seen' = {}
    BY <1>1, <1>4, PageGood
  <2>2. CASE /\ ~LastPage /\ page' = page + 1
             /\ UNCHANGED <<op, request, told, headers>>
    <3>1. page' \in 0..(MaxPages - 1)
      BY <2>2 DEF LastPage, IInv, TypeOK
    <3> QED BY <1>1, <1>2, <2>1, <2>2, <3>1 DEF IInv, TypeOK, UnderWay, ToldWhatHappened
  <2>3. CASE Tell("NS_OK")
    <3>1. /\ op' = Absent /\ request' = Absent /\ page' = 0 /\ told' = "NS_OK"
      BY <2>3 DEF Tell
    <3>2. Ends("Search", a)
      BY <2>1, <3>1 DEF Ends
    <3> QED BY <1>1, <1>2, <2>1, <3>1, <3>2, EndKeeps
  <2> QED BY <1>4, <2>2, <2>3 DEF PageAnswered
<1> QED BY <1>3, <1>4

LEMMA NextInv == IInv /\ [Next]_vars => IInv' /\ (headers' # headers => seen' = {} /\ told' = "NS_OK")
<1> SUFFICES ASSUME IInv, [Next]_vars
             PROVE  IInv' /\ (headers' # headers => seen' = {} /\ told' = "NS_OK")
  OBVIOUS
<1>1. ASSUME NEW i \in Id, ServerMarks(i) PROVE IInv' /\ headers' = headers
  BY <1>1 DEF ServerMarks, opVars, IInv, TypeOK, UnderWay, ToldWhatHappened
<1>2. CASE SessionExpires
  BY <1>2 DEF SessionExpires, opVars, IInv, TypeOK, UnderWay, ToldWhatHappened
<1>3. ASSUME NEW document \in Documents, Call(document) PROVE IInv' /\ headers' = headers
  BY <1>3, CallInv DEF Call
<1>4. ASSUME NEW a \in Answer("Auth"), LoginAnswered(a) PROVE IInv' /\ headers' = headers
  BY <1>4, LoginInv DEF LoginAnswered, Fail
<1>5. CASE Connected
  BY <1>5, ConnectedInv DEF Connected
<1>6. ASSUME NEW document \in {"Sync", "GetMsg"}, NEW a \in Answer(document),
             Answered(document, a)
      PROVE  IInv' /\ headers' = headers
  BY <1>6, AnsweredInv DEF Answered, Fail
<1>7. ASSUME NEW a \in Answer("Search"), PageAnswered(a)
      PROVE  IInv' /\ (headers' # headers => seen' = {} /\ told' = "NS_OK")
  BY <1>7, PageInv
<1>8. CASE UNCHANGED vars
  BY <1>8 DEF vars, opVars, IInv, TypeOK, UnderWay, ToldWhatHappened
<1> QED BY <1>1, <1>2, <1>3, <1>4, <1>5, <1>6, <1>7, <1>8 DEF Next

-----------------------------------------------------------------------------

LEMMA Invariant == Spec => []IInv
<1>1. Init => IInv
  BY InitInv
<1>2. IInv /\ [Next]_vars => IInv'
  BY NextInv
<1> QED BY <1>1, <1>2, PTL DEF Spec

\* The type invariant of ReadPath.
THEOREM TypeCorrect == Spec => []TypeOK
<1>1. IInv => TypeOK
  BY DEF IInv
<1> QED BY <1>1, Invariant, PTL

\* Listeners hear what happened, whatever the server answers and with whatever
\* HTTP status: success only of operations without trouble, and a fault always
\* as NS_ERROR_FAILURE.
THEOREM ListenersHearTheTruth == Spec => []ToldWhatHappened
<1>1. IInv => ToldWhatHappened
  BY DEF IInv
<1> QED BY <1>1, Invariant, PTL

-----------------------------------------------------------------------------
(* Headers *)

\* A set of numbers that is not empty has a least element.
LEMMA Least ==
  ASSUME NEW S, S \subseteq Nat, S # {}
  PROVE  \E k \in S : \A j \in S : k <= j
<1> DEFINE R == {p \in Nat \X Nat : p[1] < p[2]}
<1>1. OpToRel(<, Nat) = R
  BY DEF OpToRel
<1>2. IsWellFoundedOn(R, Nat)
  BY <1>1, NatLessThanWellFounded
<1>3. PICK k \in S : \A j \in S : ~ (<<j, k>> \in R)
  BY <1>2, WFMin
<1>4. ASSUME NEW j \in S PROVE k <= j
  <2>1. j \in Nat /\ k \in Nat /\ ~ (<<j, k>> \in R)
    BY <1>3
  <2> QED BY <2>1
<1> QED BY <1>4

LEMMA Arith ==
  ASSUME NEW d \in Int, NEW s \in Nat, s < 2 ^ SizeBits
  PROVE  (d * 1000) \div 1000 = d /\ s % (2 ^ SizeBits) = s
<1>1. (d * 1000) \div 1000 = d
  OBVIOUS
<1>. DEFINE L == 2 ^ SizeBits
<1>2. s % L = s
  <2>1. L \in Nat \ {0} /\ s < L
    BY MailAssumption
  <2> HIDE DEF L
  <2> QED BY <2>1
<1> QED BY <1>1, <1>2

\* The author a header is given for a sender, read back.
LEMMA SenderReadBack ==
  ASSUME NEW W, NEW name \in Seq(W), NEW address \in Seq(W), Unquoted(name)
  PROVE  SenderOf(<<"quote">> \o name \o <<"quote", "open">> \o address \o <<"close">>)
           = [p |-> name, a |-> address]
<1> DEFINE S == W \cup {"quote", "open", "close"}
           w1 == <<"quote">> \o name
           w2 == w1 \o <<"quote", "open">>
           w3 == w2 \o address
           author == w3 \o <<"close">>
           n == Len(name)
           l == Len(address)
<1>1. /\ n \in Nat /\ l \in Nat /\ DOMAIN name = 1..n /\ DOMAIN address = 1..l
      /\ \A k \in 1..n : name[k] # "quote"
  BY LenProperties DEF Unquoted
<1>S. /\ name \in Seq(S) /\ address \in Seq(S)
  BY SeqMonotonic
<1>T. /\ <<"quote">> \in Seq(S) /\ <<"quote", "open">> \in Seq(S)
      /\ <<"close">> \in Seq(S)
  OBVIOUS
<1> HIDE DEF S
<1>2. w1 \in Seq(S) /\ w2 \in Seq(S) /\ w3 \in Seq(S) /\ author \in Seq(S)
  BY <1>S, <1>T
<1>3. Len(w1) = n + 1 /\ w1[1] = "quote" /\ \A k \in 1..n : w1[k + 1] = name[k]
  BY <1>1, <1>S, <1>T
<1>4. /\ Len(w2) = n + 3 /\ \A k \in 1..(n + 1) : w2[k] = w1[k]
      /\ w2[n + 2] = "quote" /\ w2[n + 3] = "open"
  BY <1>1, <1>2, <1>3, <1>T
<1>5. /\ Len(w3) = n + l + 3 /\ \A k \in 1..(n + 3) : w3[k] = w2[k]
      /\ \A k \in 1..l : w3[n + 3 + k] = address[k]
  BY <1>1, <1>2, <1>4, <1>S
<1>6. /\ Len(author) = n + l + 4 /\ \A k \in 1..(n + l + 3) : author[k] = w3[k]
      /\ author[n + l + 4] = "close"
  BY <1>1, <1>2, <1>5, <1>T
<1> HIDE DEF w1, w2, w3, author, n, l
<1>7. /\ author[1] = "quote" /\ \A k \in 1..n : author[k + 1] = name[k]
      /\ author[n + 2] = "quote" /\ author[n + 3] = "open"
      /\ \A k \in 1..l : author[n + 3 + k] = address[k]
  BY <1>1, <1>3, <1>4, <1>5, <1>6
<1> DEFINE close == CHOOSE k \in 2..Len(author) :
               author[k] = "quote" /\ \A j \in 2..(k - 1) : author[j] # "quote"
           rest == SubSeq(author, close + 1, Len(author))
<1>8. close = n + 2
  <2>1. /\ n + 2 \in 2..Len(author) /\ author[n + 2] = "quote"
        /\ \A j \in 2..(n + 1) : author[j] # "quote"
    <3>1. ASSUME NEW j \in 2..(n + 1) PROVE author[j] # "quote"
      <4>1. j - 1 \in 1..n /\ author[(j - 1) + 1] = name[j - 1]
        BY <1>1, <1>7
      <4> QED BY <1>1, <4>1
    <3> QED BY <1>1, <1>6, <1>7, <3>1
  <2>2. /\ close \in 2..Len(author) /\ author[close] = "quote"
        /\ \A j \in 2..(close - 1) : author[j] # "quote"
    <3> DEFINE Closes(k) == author[k] = "quote" /\ \A j \in 2..(k - 1) : author[j] # "quote"
    <3>1. \E k \in 2..Len(author) : Closes(k)
      <4>1. (n + 2) - 1 = n + 1
        BY <1>1
      <4> QED BY <2>1, <4>1
    <3>2. close = CHOOSE k \in 2..Len(author) : Closes(k)
      OBVIOUS
    <3> HIDE DEF close, Closes
    <3>3. close \in 2..Len(author) /\ Closes(close)
      BY <3>1, <3>2
    <3> QED BY <3>3 DEF Closes
  <2> HIDE DEF close
  <2> QED BY <1>1, <1>6, <2>1, <2>2
<1> HIDE DEF close
<1>9. SubSeq(author, 2, close - 1) = name
  <2>1. SubSeq(author, 2, n + 1) \in Seq(S) /\ Len(SubSeq(author, 2, n + 1)) = n
    <3>1. \A k \in 2..(n + 1) : author[k] \in S
      BY <1>1, <1>2, <1>6, ElementOfSeq
    <3> QED BY <1>1, <3>1, SubSeqProperties
  <2>2. ASSUME NEW k \in 1..n PROVE SubSeq(author, 2, n + 1)[k] = name[k]
    BY <1>1, <1>2, <1>6, <1>7
  <2>3. SubSeq(author, 2, n + 1) = name
    BY <1>S, <2>1, <2>2, SeqEqual DEF n
  <2> QED BY <1>1, <1>8, <2>3
<1>10. /\ rest \in Seq(S) /\ Len(rest) = l + 2
       /\ rest[1] = "open" /\ \A k \in 1..l : rest[k + 1] = address[k]
  <2>1. /\ \A k \in (n + 3)..(n + l + 4) : author[k] \in S
    BY <1>1, <1>2, <1>6, ElementOfSeq
  <2>2. rest = SubSeq(author, n + 3, n + l + 4)
    <3>1. close + 1 = n + 3 /\ Len(author) = n + l + 4
      BY <1>1, <1>6, <1>8
    <3> QED BY <3>1
  <2> HIDE DEF rest
  <2>0. n + 3 \in Int /\ n + l + 4 \in Int /\ n + 3 <= n + l + 4
        /\ (n + l + 4) - (n + 3) + 1 = l + 2
    BY <1>1
  <2>3. /\ rest \in Seq(S) /\ Len(rest) = l + 2
        /\ \A k \in 1..(l + 2) : rest[k] = author[n + 3 + k - 1]
    BY <2>0, <2>1, <2>2, SubSeqProperties
  <2> HIDE DEF rest
  <2>4. ASSUME NEW k \in 1..l PROVE rest[k + 1] = address[k]
    <3>1. k + 1 \in 1..(l + 2) /\ n + 3 + (k + 1) - 1 = n + 3 + k
      BY <1>1
    <3> QED BY <1>7, <2>3, <3>1
  <2>5. rest[1] = "open"
    <3>1. 1 \in 1..(l + 2) /\ n + 3 + 1 - 1 = n + 3
      BY <1>1
    <3> QED BY <1>7, <2>3, <3>1
  <2> QED BY <2>3, <2>4, <2>5
<1> HIDE DEF rest
<1>11. SubSeq(rest, 2, Len(rest) - 1) = address
  <2>1. \A k \in 2..(l + 1) : rest[k] \in S
    BY <1>1, <1>10, ElementOfSeq
  <2>2. /\ SubSeq(rest, 2, l + 1) \in Seq(S) /\ Len(SubSeq(rest, 2, l + 1)) = l
        /\ \A k \in 1..l : SubSeq(rest, 2, l + 1)[k] = rest[2 + k - 1]
    BY <1>1, <2>1, SubSeqProperties
  <2>3. ASSUME NEW k \in 1..l PROVE SubSeq(rest, 2, l + 1)[k] = address[k]
    <3>1. 2 + k - 1 = k + 1
      BY <1>1
    <3> QED BY <1>10, <2>2, <3>1
  <2>4. SubSeq(rest, 2, l + 1) = address
    BY <1>S, <2>2, <2>3, SeqEqual DEF l
  <2> QED BY <1>1, <1>10, <2>4
<1>12. Named(author) /\ rest # <<>>
  BY <1>1, <1>2, <1>6, <1>7, <1>10 DEF Named
<1>13. SenderOf(author) = [p |-> name, a |-> address]
  BY <1>9, <1>10, <1>11, <1>12 DEF SenderOf, rest, close
<1> QED BY <1>13 DEF author, w3, w2, w1

\* The first sender is one of the senders.
LEMMA FromIsASender ==
  ASSUME NEW m, NEW n \in Nat, DOMAIN m.e = 1..n
  PROVE  IF \E i \in DOMAIN m.e : m.e[i].t = "f"
           THEN \E i \in DOMAIN m.e : m.e[i].t = "f" /\ From(m) = m.e[i]
           ELSE From(m) = [t |-> "f", a |-> <<>>, p |-> <<>>]
<1> DEFINE P == {i \in DOMAIN m.e : m.e[i].t = "f"}
           First1(i) == m.e[i].t = "f" /\ \A j \in 1..(i - 1) : m.e[j].t # "f"
<1>1. CASE P = {}
  BY <1>1 DEF From
<1>2. CASE P # {}
  <2>1. PICK k \in P : \A j \in P : k <= j
    <3>1. P \subseteq Nat
      OBVIOUS
    <3> HIDE DEF P
    <3> QED BY <1>2, <3>1, Least
  <2>2. First1(k) /\ k \in DOMAIN m.e
    BY <2>1
  <2>3. (CHOOSE i \in DOMAIN m.e : First1(i)) \in DOMAIN m.e /\
        First1(CHOOSE i \in DOMAIN m.e : First1(i))
    <3> HIDE DEF First1
    <3> QED BY <2>2
  <2>4. From(m) = m.e[CHOOSE i \in DOMAIN m.e : First1(i)]
    BY <1>2 DEF From
  <2> HIDE DEF First1
  <2>5. m.e[CHOOSE i \in DOMAIN m.e : First1(i)].t = "f"
    BY <2>3 DEF First1
  <2> QED BY <1>2, <2>3, <2>4, <2>5
<1> QED BY <1>1, <1>2

\* What a server may have.
ShapeOf(m) ==
  /\ m = [su |-> m.su, d |-> m.d, f |-> m.f, s |-> m.s, e |-> m.e]
  /\ m.su \in STRING /\ m.d \in Int /\ m.s \in Nat \cup {Absent}
  /\ m.e \in Seq(Participant)

\* A message on the network.
Wire(i, m) == [id |-> i, su |-> m.su, d |-> m.d, f |-> m.f, s |-> m.s, e |-> m.e]

HeaderOf(i, m) == NewHeader(ToSummary(Wire(i, m)))

LEMMA HeaderSays ==
  ASSUME NEW i, NEW m, ShapeOf(m)
  PROVE  Says(HeaderOf(i, m), m)
<1> DEFINE w == Wire(i, m)
           h == HeaderOf(i, m)
           senders == {m.e[k] : k \in {l \in DOMAIN m.e : m.e[l].t = "f"}}
           from == From(w)
<1>1. w.su = m.su /\ w.d = m.d /\ w.f = m.f /\ w.s = m.s /\ w.e = m.e
  BY DEF Wire
<1>2. /\ h.subject = m.su /\ h.date = m.d * 1000
      /\ h.read <=> "u" \notin m.f
      /\ h.size = (IF m.s = Absent THEN 0 ELSE m.s) % (2 ^ SizeBits)
      /\ h.author = IF from.p # <<>>
                      THEN <<"quote">> \o from.p \o <<"quote", "open">> \o from.a \o <<"close">>
                      ELSE from.a
  BY <1>1 DEF HeaderOf, NewHeader, ToSummary, IsRead, Author
<1>3. h.date \div 1000 = m.d
  BY <1>2 DEF ShapeOf
<1>4. m.s # Absent /\ m.s < 2 ^ SizeBits => h.size = m.s
  BY <1>2, Arith DEF ShapeOf
<1>5. PICK n \in Nat : DOMAIN w.e = 1..n
  BY <1>1, LenProperties DEF ShapeOf
<1> HIDE DEF w
<1>6. CASE senders = {}
  <2>1. from = [t |-> "f", a |-> <<>>, p |-> <<>>]
    BY <1>1, <1>5, <1>6, FromIsASender
  <2>2. h.author = <<>>
    BY <1>2, <2>1
  <2> QED BY <1>2, <1>3, <1>4, <1>6, <2>2 DEF Says
<1>7. CASE senders # {} /\ \A s \in senders : Writable(s)
  <2>1. PICK k \in DOMAIN m.e : m.e[k].t = "f" /\ from = m.e[k]
    BY <1>1, <1>5, <1>7, FromIsASender
  <2>2. /\ from \in senders /\ Unquoted(from.p) /\ (from.p = <<>> => ~Named(from.a))
        /\ from.p \in Seq(Word) /\ from.a \in Seq(Word)
    <3>1. from \in Participant
      BY <2>1, ElementOfSeq, LenProperties DEF ShapeOf
    <3> QED BY <1>7, <2>1, <3>1 DEF Participant, Writable
  <2> HIDE DEF from, h, senders
  <2>3. SenderOf(h.author) = [p |-> from.p, a |-> from.a]
    <3>1. CASE from.p # <<>>
      BY <1>2, <2>2, <3>1, SenderReadBack
    <3>2. CASE from.p = <<>>
      BY <1>2, <2>2, <3>2 DEF SenderOf
    <3> QED BY <3>1, <3>2
  <2>4. \E s \in senders : SenderOf(h.author) = [p |-> s.p, a |-> s.a]
    BY <2>2, <2>3
  <2> QED BY <1>2, <1>3, <1>4, <1>7, <2>4 DEF Says, senders, h
<1>8. CASE senders # {} /\ ~\A s \in senders : Writable(s)
  BY <1>2, <1>3, <1>4, <1>8 DEF Says
<1> QED BY <1>6, <1>7, <1>8

-----------------------------------------------------------------------------

\* What the client may have of the messages as the server has them now.
Summaries == {ToSummary(Wire(i, mailbox[i])) : i \in Id}

\* The mailbox has messages, the pages so far are summaries of them (the
\* mailbox does not change during an operation), and a header was made of the
\* message its listener was first given.
HInv ==
  /\ mailbox = [i \in Id |-> mailbox[i]] /\ \A i \in Id : ShapeOf(mailbox[i])
  /\ summaries \in Seq(Summaries) /\ (op = Absent => summaries = <<>>)
  /\ \A i \in Id : headers[i] # Absent =>
       ShapeOf(listed[i]) /\ headers[i] = HeaderOf(i, listed[i])

LEMMA HInvSays == HInv => HeadersFaithful
<1> SUFFICES ASSUME HInv, NEW i \in Id, headers[i] # Absent
             PROVE  Says(headers[i], listed[i])
  BY DEF HeadersFaithful, Says
<1> QED BY HeaderSays DEF HInv

LEMMA InitHInv == Init => HInv
<1> SUFFICES ASSUME Init PROVE HInv
  OBVIOUS
<1>1. \A i \in Id : mailbox[i] \in Mail
  BY DEF Init
<1>2. ASSUME NEW m \in Mail PROVE ShapeOf(m)
  <2>1. m \in Message
    BY MailAssumption
  <2> QED BY <2>1, MailAssumption DEF Message, ShapeOf
<1> QED BY <1>1, <1>2 DEF Init, HInv

\* A page that fits is a listing without a flaw, and so what the client makes
\* of it are summaries of messages.
LEMMA PageSummaries ==
  ASSUME HInv, NEW a \in Answer("Search"), Send("Search", a).ok
  PROVE  LET got == Send("Search", a).content.m
         IN [k \in DOMAIN got |-> ToSummary(got[k])] \in Seq(Summaries)
<1> DEFINE got == Send("Search", a).content.m
<1>1. got = a.content.m /\ Fits("Search", a.content)
  BY SendOk DEF Ok
<1>2. /\ a.content \in Contents("Search")
      /\ \A k \in DOMAIN got : got[k].id # Absent /\ got[k].d # Absent
  BY <1>1, AnswerShape DEF Fits, SearchMessageFits, IsDate
<1>3. got \in Listings
  BY <1>1, <1>2 DEF Contents
<1> HIDE DEF got
<1>4. PICK o \in Orders : got \in {Listing(o)} \cup Spoil(Listing(o))
  BY <1>3 DEF Listings
<1>5. ASSUME got \in Spoil(Listing(o)) PROVE FALSE
  <2>1. ASSUME NEW k \in DOMAIN Listing(o),
               got = [Listing(o) EXCEPT ![k].d = Absent]
        PROVE  FALSE
    <3>1. k \in DOMAIN got /\ got[k] = [Listing(o)[k] EXCEPT !.d = Absent]
      BY <2>1
    <3>2. got[k].d = Absent
      BY <2>1, <3>1 DEF Listing
    <3> QED BY <1>2, <3>1, <3>2
  <2>2. ASSUME NEW k \in DOMAIN Listing(o),
               got = [Listing(o) EXCEPT ![k].id = Absent]
        PROVE  FALSE
    <3>1. k \in DOMAIN got /\ got[k] = [Listing(o)[k] EXCEPT !.id = Absent]
      BY <2>2
    <3>2. got[k].id = Absent
      BY <2>2, <3>1 DEF Listing
    <3> QED BY <1>2, <3>1, <3>2
  <2> QED BY <1>5, <2>1, <2>2 DEF Spoil
<1>6. got = Listing(o)
  BY <1>4, <1>5
<1>7. PICK n \in Nat : DOMAIN o = 1..n /\ \A k \in 1..n : o[k] \in Id
  <2>1. ASSUME NEW i \in Id, o = <<i>> PROVE DOMAIN o = 1..1 /\ \A k \in 1..1 : o[k] \in Id
    BY <2>1
  <2>2. ASSUME NEW i \in Id, NEW j \in Id, o = <<i, j>>
        PROVE  DOMAIN o = 1..2 /\ \A k \in 1..2 : o[k] \in Id
    BY <2>2
  <2>3. o = <<>> \/ (\E i \in Id : o = <<i>>) \/ (\E i, j \in Id : o = <<i, j>>)
    BY <1>4 DEF Orders
  <2>4. 0 \in Nat /\ 1 \in Nat /\ 2 \in Nat
    OBVIOUS
  <2>5. CASE o = <<>>
    <3>1. DOMAIN o = 1..0 /\ \A k \in 1..0 : o[k] \in Id
      BY <2>5
    <3> QED BY <2>4, <3>1
  <2>6. CASE \E i \in Id : o = <<i>>
    BY <2>1, <2>4, <2>6
  <2>7. CASE \E i, j \in Id : o = <<i, j>>
    BY <2>2, <2>4, <2>7
  <2> QED BY <2>3, <2>5, <2>6, <2>7
<1>8. ASSUME NEW k \in 1..n PROVE ToSummary(got[k]) \in Summaries
  <2>1. got[k] = Wire(o[k], mailbox[o[k]])
    BY <1>6, <1>7 DEF Listing, Wire
  <2> QED BY <1>7, <2>1 DEF Summaries
<1>9. DOMAIN got = 1..n
  BY <1>6, <1>7 DEF Listing
<1>10. [k \in DOMAIN got |-> ToSummary(got[k])] \in [1..n -> Summaries]
  BY <1>8, <1>9
<1> QED BY <1>10, SeqDef DEF got

\* A header that is new is of the message of its id, and there is one for each
\* message for which an OnMessage gets through.
LEMMA DeliveredNew ==
  ASSUME NEW batch \in Seq(Summaries), NEW failing, NEW i \in Id, headers[i] = Absent,
         NEW l \in Through(batch, failing), batch[l].id = i
  PROVE  Delivered(headers, batch, failing)[i] = HeaderOf(i, mailbox[i])
<1> DEFINE through == Through(batch, failing)
           Names(k) == batch[k].id = i /\ \A j \in through : j < k => batch[j].id # i
           N == {k \in through : batch[k].id = i}
           first == CHOOSE k \in through : Names(k)
<1>1. N # {} /\ Delivered(headers, batch, failing)[i] = NewHeader(batch[first])
  BY DEF Delivered
<1>2. DOMAIN batch \subseteq Nat /\ through \subseteq DOMAIN batch
  BY LenProperties DEF Through
<1> HIDE DEF through
<1>3. PICK k \in N : \A j \in N : k <= j
  <2>1. N \subseteq Nat
    BY <1>2
  <2> HIDE DEF N
  <2> QED BY <1>1, <2>1, Least
<1>4. k \in through /\ Names(k)
  BY <1>2, <1>3
<1> HIDE DEF Names
<1>5. first \in through /\ Names(first)
  BY <1>4
<1> HIDE DEF first
<1>6. batch[first].id = i /\ batch[first] \in Summaries
  BY <1>2, <1>5, ElementOfSeq, LenProperties DEF Names
<1>7. PICK j \in Id : batch[first] = ToSummary(Wire(j, mailbox[j]))
  BY <1>6 DEF Summaries
<1>8. j = i
  BY <1>6, <1>7 DEF ToSummary, Wire
<1> QED BY <1>1, <1>7, <1>8 DEF HeaderOf

LEMMA PageHInv ==
  ASSUME TypeOK, HInv, NEW a \in Answer("Search"), PageAnswered(a)
  PROVE  HInv'
<1> DEFINE sent == Send("Search", a)
           got == sent.content.m
           batch == summaries \o [k \in DOMAIN got |-> ToSummary(got[k])]
<1>1. mailbox' = mailbox /\ Summaries' = Summaries
  BY DEF PageAnswered, Arrives, Summaries
<1>2. CASE ~sent.ok
  <2>1. Fail(sent.error)
    BY <1>2 DEF PageAnswered
  <2> QED BY <1>1, <2>1, EmptySeq DEF Fail, Tell, HInv
<1>3. CASE sent.ok
  <2>1. batch \in Seq(Summaries)
    <3> DEFINE page1 == [k \in DOMAIN got |-> ToSummary(got[k])]
    <3>1. page1 \in Seq(Summaries) /\ summaries \in Seq(Summaries)
      BY <1>3, PageSummaries DEF HInv
    <3> HIDE DEF page1
    <3>2. summaries \o page1 \in Seq(Summaries)
      BY <3>1, ConcatProperties
    <3> QED BY <3>2 DEF page1
  <2>2. CASE /\ summaries' = batch /\ UNCHANGED <<op, headers, listed>>
             /\ op # Absent
    BY <1>1, <2>1, <2>2 DEF HInv
  <2>3. ASSUME NEW failing, headers' = Delivered(headers, batch, failing),
                listed' = [i \in Id |-> IF headers[i] = Absent /\ headers'[i] # Absent
                                          THEN mailbox[i] ELSE listed[i]],
                Tell("NS_OK")
        PROVE  HInv'
    <3>1. summaries' = <<>>
      BY <2>3 DEF Tell
    <3>2. ASSUME NEW i \in Id, headers'[i] # Absent
          PROVE  ShapeOf(listed'[i]) /\ headers'[i] = HeaderOf(i, listed'[i])
      <4>1. CASE headers[i] = Absent
        <5>1. listed'[i] = mailbox[i]
          BY <2>3, <3>2, <4>1
        <5>2. PICK l \in Through(batch, failing) : batch[l].id = i
          BY <2>3, <3>2, <4>1 DEF Delivered
        <5>3. headers'[i] = HeaderOf(i, mailbox[i])
          BY <2>1, <2>3, <4>1, <5>2, DeliveredNew
        <5> QED BY <5>1, <5>3 DEF HInv
      <4>2. CASE headers[i] # Absent
        <5>1. listed'[i] = listed[i] /\ headers'[i] = headers[i]
          BY <2>3, <4>2 DEF Delivered
        <5> QED BY <4>2, <5>1 DEF HInv
      <4> QED BY <4>1, <4>2
    <3> HIDE DEF batch
    <3> QED BY <1>1, <3>1, <3>2, EmptySeq DEF HInv
  <2>4. op # Absent
    BY DEF PageAnswered, Arrives, TypeOK
  <2> QED BY <1>3, <2>2, <2>3, <2>4 DEF PageAnswered
<1> QED BY <1>2, <1>3

\* Nothing else writes the database or the pages, and the mailbox changes only
\* between operations.
LEMMA NextHInv == TypeOK /\ HInv /\ [Next]_vars => HInv'
<1> SUFFICES ASSUME TypeOK, HInv, [Next]_vars PROVE HInv'
  OBVIOUS
<1>1. ASSUME mailbox' = mailbox, UNCHANGED <<headers, listed>>,
             summaries' = <<>> \/ UNCHANGED <<summaries, op>>
      PROVE  HInv'
  <2>1. Summaries' = Summaries
    BY <1>1 DEF Summaries
  <2> QED BY <1>1, <2>1, EmptySeq DEF HInv
<1>2. ASSUME NEW i \in Id, ServerMarks(i) PROVE HInv'
  <2> DEFINE f == IF "u" \in mailbox[i].f THEN mailbox[i].f \ {"u"} ELSE mailbox[i].f \cup {"u"}
  <2>1. /\ summaries = <<>> /\ summaries' = <<>>
        /\ UNCHANGED <<op, headers, listed>>
        /\ mailbox' = [mailbox EXCEPT ![i].f = f]
    BY <1>2 DEF ServerMarks, opVars, HInv
  <2> HIDE DEF f
  <2>2. mailbox' = [j \in Id |-> mailbox'[j]]
    BY <2>1 DEF HInv
  <2>3. ASSUME NEW j \in Id PROVE ShapeOf(mailbox'[j])
    <3>1. CASE j = i
      <4>1. ShapeOf(mailbox[i]) /\ mailbox'[i] = [mailbox[i] EXCEPT !.f = f]
        BY <2>1 DEF HInv
      <4>2. mailbox'[i] = [su |-> mailbox[i].su, d |-> mailbox[i].d, f |-> f,
                           s |-> mailbox[i].s, e |-> mailbox[i].e]
        BY <4>1 DEF ShapeOf
      <4> QED BY <3>1, <4>1, <4>2 DEF ShapeOf
    <3>2. CASE j # i
      BY <2>1, <3>2 DEF HInv
    <3> QED BY <3>1, <3>2
  <2> QED BY <2>1, <2>2, <2>3, EmptySeq DEF HInv
<1>3. CASE SessionExpires
  BY <1>1, <1>3 DEF SessionExpires, opVars
<1>4. ASSUME NEW document \in Documents, Call(document) PROVE HInv'
  BY <1>1, <1>4 DEF Call
<1>5. ASSUME NEW a \in Answer("Auth"), LoginAnswered(a) PROVE HInv'
  BY <1>1, <1>5 DEF LoginAnswered, Arrives, Fail, Tell
<1>6. CASE Connected
  BY <1>1, <1>6 DEF Connected, Tell
<1>7. ASSUME NEW document \in {"Sync", "GetMsg"}, NEW a \in Answer(document),
             Answered(document, a)
      PROVE  HInv'
  BY <1>1, <1>7 DEF Answered, Arrives, Fail, Tell
<1>8. ASSUME NEW a \in Answer("Search"), PageAnswered(a) PROVE HInv'
  BY <1>8, PageHInv
<1>9. CASE UNCHANGED vars
  BY <1>1, <1>9 DEF vars, opVars
<1> QED BY <1>2, <1>3, <1>4, <1>5, <1>6, <1>7, <1>8, <1>9 DEF Next

\* A header of any message says what the server said when the message was first
\* listed: its subject, date and read state, its size if it is less than
\* 2 ^ SizeBits, its sender if none of its senders has a quote in his name or an
\* address that reads as a name and an address.
THEOREM HeadersStayFaithful == Spec => []HeadersFaithful
<1>1. Init => HInv
  BY InitHInv
<1>2. TypeOK /\ HInv /\ [Next]_vars => HInv'
  BY NextHInv
<1>3. HInv => HeadersFaithful
  BY HInvSays
<1> QED BY <1>1, <1>2, <1>3, TypeCorrect, PTL DEF Spec

-----------------------------------------------------------------------------
(* Listings *)

\* What is made of a message is a header.
LEMMA HeaderMade ==
  ASSUME NEW i, NEW m, ShapeOf(m)
  PROVE  HeaderOf(i, m) # Absent
<1> DEFINE w == Wire(i, m)
           from == From(w)
           h == HeaderOf(i, m)
<1>1. w.su = m.su /\ w.d = m.d /\ w.s = m.s /\ w.e = m.e
  BY DEF Wire
<1>2. PICK n \in Nat : DOMAIN w.e = 1..n
  BY <1>1, LenProperties DEF ShapeOf
<1>3. h = [subject |-> m.su,
           author |-> IF from.p # <<>>
                        THEN <<"quote">> \o from.p \o <<"quote", "open">> \o from.a \o <<"close">>
                        ELSE from.a,
           date |-> m.d * 1000,
           size |-> (IF m.s = Absent THEN 0 ELSE m.s) % (2 ^ SizeBits),
           read |-> IsRead(w)]
  BY <1>1 DEF HeaderOf, NewHeader, ToSummary, Author
<1> HIDE DEF w
<1>4. from.p \in Seq(Word) /\ from.a \in Seq(Word)
  <2>1. CASE \E k \in DOMAIN w.e : w.e[k].t = "f"
    <3>1. PICK k \in DOMAIN w.e : from = w.e[k]
      BY <1>2, <2>1, FromIsASender
    <3>2. from \in Participant
      BY <1>1, <3>1, ElementOfSeq, LenProperties DEF ShapeOf
    <3> QED BY <3>2 DEF Participant
  <2>2. CASE ~\E k \in DOMAIN w.e : w.e[k].t = "f"
    <3>1. from = [t |-> "f", a |-> <<>>, p |-> <<>>]
      BY <1>2, <2>2, FromIsASender
    <3> QED BY <3>1
  <2> QED BY <2>1, <2>2
<1> HIDE DEF from
<1>5. <<"quote">> \o from.p \o <<"quote", "open">> \o from.a \o <<"close">> \in Seq(Word)
  <2>1. <<"quote">> \in Seq(Word) /\ <<"quote", "open">> \in Seq(Word) /\ <<"close">> \in Seq(Word)
    BY DEF Word
  <2> QED BY <1>4, <2>1
<1>6. (IF m.s = Absent THEN 0 ELSE m.s) % (2 ^ SizeBits) \in Nat
  <2> DEFINE L == 2 ^ SizeBits
             s == IF m.s = Absent THEN 0 ELSE m.s
  <2>1. L \in Nat \ {0} /\ s \in Nat
    BY MailAssumption DEF ShapeOf
  <2> HIDE DEF L, s
  <2>2. s % L \in Nat
    BY <2>1
  <2> QED BY <2>2 DEF L, s
<1>7. h \in Header
  <2> DEFINE size == (IF m.s = Absent THEN 0 ELSE m.s) % (2 ^ SizeBits)
  <2>1. size \in Nat
    BY <1>6
  <2>2. IsRead(w) \in BOOLEAN
    BY DEF IsRead
  <2>3. m.su \in STRING /\ m.d * 1000 \in Int
    BY DEF ShapeOf
  <2> HIDE DEF size
  <2>4. h = [subject |-> m.su,
             author |-> IF from.p # <<>>
                          THEN <<"quote">> \o from.p \o <<"quote", "open">> \o from.a \o <<"close">>
                          ELSE from.a,
             date |-> m.d * 1000, size |-> size, read |-> IsRead(w)]
    BY <1>3 DEF size
  <2> QED BY <1>4, <1>5, <2>1, <2>2, <2>3, <2>4 DEF Header
<1> QED BY <1>7, MailAssumption

\* The summaries so far are of all the messages that the pages named.
IdsOf(list) == {list[k].id : k \in DOMAIN list}

AllCollected == op # Absent => named = IdsOf(summaries)

LInv == IInv /\ HInv /\ AllCollected

\* The messages a page names join those of the pages before it.
LEMMA Collects ==
  ASSUME NEW S, NEW earlier \in Seq(S), NEW page1 \in Seq(S), NEW got,
         DOMAIN page1 = DOMAIN got, \A k \in DOMAIN got : page1[k].id = got[k].id
  PROVE  IdsOf(earlier \o page1) = IdsOf(earlier) \cup IdsOf(got)
<1> DEFINE batch == earlier \o page1
           n == Len(earlier)
           l == Len(page1)
<1>1. /\ n \in Nat /\ l \in Nat /\ DOMAIN earlier = 1..n /\ DOMAIN page1 = 1..l
      /\ DOMAIN got = 1..l
  BY LenProperties
<1>2. /\ batch \in Seq(S) /\ DOMAIN batch = 1..(n + l)
      /\ \A k \in 1..n : batch[k] = earlier[k]
      /\ \A k \in 1..l : batch[n + k] = page1[k]
  BY <1>1
<1>3. \A k \in 1..l : page1[k].id = got[k].id
  BY <1>1
<1> HIDE DEF batch, n, l
<1>4. ASSUME NEW k \in 1..(n + l)
      PROVE  (\E j \in 1..n : batch[k].id = earlier[j].id) \/ (\E j \in 1..l : batch[k].id = got[j].id)
  <2>1. CASE k <= n
    <3>1. k \in 1..n
      BY <1>1, <1>4, <2>1
    <3> QED BY <1>2, <3>1
  <2>2. CASE k > n
    <3>1. k - n \in 1..l /\ n + (k - n) = k
      BY <1>1, <1>4, <2>2
    <3>2. batch[k] = page1[k - n]
      BY <1>2, <3>1
    <3> QED BY <1>3, <3>1, <3>2
  <2> QED BY <1>1, <1>4, <2>1, <2>2
<1>5. ASSUME NEW j \in 1..n PROVE \E k \in 1..(n + l) : batch[k].id = earlier[j].id
  <2>1. j \in 1..(n + l)
    BY <1>1, <1>5
  <2> QED BY <1>2, <1>5, <2>1
<1>6. ASSUME NEW j \in 1..l PROVE \E k \in 1..(n + l) : batch[k].id = got[j].id
  <2>1. n + j \in 1..(n + l) /\ batch[n + j].id = got[j].id
    BY <1>1, <1>2, <1>3, <1>6
  <2> QED BY <2>1
<1>7. DOMAIN batch = 1..(n + l) /\ DOMAIN earlier = 1..n /\ DOMAIN got = 1..l
  BY <1>1, <1>2
<1>8. ASSUME NEW x \in IdsOf(batch) PROVE x \in IdsOf(earlier) \cup IdsOf(got)
  <2>1. PICK k \in 1..(n + l) : x = batch[k].id
    BY <1>7, <1>8 DEF IdsOf
  <2> QED BY <1>4, <1>7, <2>1 DEF IdsOf
<1>9. ASSUME NEW x \in IdsOf(earlier) PROVE x \in IdsOf(batch)
  <2>1. PICK k \in 1..n : x = earlier[k].id
    BY <1>7, <1>9 DEF IdsOf
  <2> QED BY <1>5, <1>7, <2>1 DEF IdsOf
<1>10. ASSUME NEW x \in IdsOf(got) PROVE x \in IdsOf(batch)
  <2>1. PICK k \in 1..l : x = got[k].id
    BY <1>7, <1>10 DEF IdsOf
  <2> QED BY <1>6, <1>7, <2>1 DEF IdsOf
<1> QED BY <1>8, <1>9, <1>10 DEF batch

LEMMA PageListed ==
  ASSUME LInv, NEW a \in Answer("Search"), PageAnswered(a)
  PROVE  /\ AllCollected'
         /\ told' = "NS_OK" => \A i \in named' : headers'[i] # Absent \/ i \in refused'
<1> DEFINE sent == Send("Search", a)
           got == sent.content.m
           page1 == [k \in DOMAIN got |-> ToSummary(got[k])]
           batch == summaries \o page1
<1>1. op # Absent /\ told = Absent
  BY DEF PageAnswered, Arrives, LInv, IInv, TypeOK, UnderWay
<1>2. CASE ~sent.ok
  <2>1. op' = Absent /\ told' = NsResult(sent.error)
    BY <1>2 DEF PageAnswered, Fail, Tell
  <2>2. told' # "NS_OK"
    BY <1>2, <2>1, SendErr
  <2> QED BY <2>1, <2>2 DEF AllCollected
<1>3. CASE sent.ok
  <2>1. page1 \in Seq(Summaries) /\ summaries \in Seq(Summaries)
    BY <1>3, PageSummaries DEF LInv, HInv
  <2>2. named' = IdsOf(batch)
    <3>1. named' = IdsOf(summaries) \cup IdsOf(got)
      BY <1>1, <1>3 DEF PageAnswered, LInv, AllCollected, IdsOf
    <3>0. DOMAIN page1 = DOMAIN got /\ \A k \in DOMAIN got : page1[k].id = got[k].id
      BY DEF ToSummary
    <3> HIDE DEF got, page1
    <3>2. IdsOf(batch) = IdsOf(summaries) \cup IdsOf(got)
      BY <2>1, <3>0, Collects
    <3> QED BY <3>1, <3>2
  <2>3. CASE summaries' = batch /\ told' = told
    <3> HIDE DEF batch
    <3> QED BY <1>1, <2>2, <2>3 DEF AllCollected
  <2>4. ASSUME NEW failing, headers' = Delivered(headers, batch, failing),
               refused' = {batch[k].id : k \in failing}, Tell("NS_OK")
        PROVE  AllCollected' /\ \A i \in named' : headers'[i] # Absent \/ i \in refused'
    <3>1. AllCollected'
      BY <2>4 DEF Tell, AllCollected
    <3>2. batch \in Seq(Summaries)
      <4> HIDE DEF page1
      <4> QED BY <2>1, ConcatProperties
    <3> HIDE DEF batch
    <3>3. ASSUME NEW k \in DOMAIN batch, batch[k].id \notin refused'
          PROVE  headers'[batch[k].id] # Absent
      <4> DEFINE i == batch[k].id
      <4>1. k \in Through(batch, failing)
        BY <2>4, <3>3 DEF Through
      <4>2. i \in Id
        <5>1. batch[k] \in Summaries
          BY <3>2, <3>3, ElementOfSeq, LenProperties
        <5>2. PICK j \in Id : batch[k] = ToSummary(Wire(j, mailbox[j]))
          BY <5>1 DEF Summaries
        <5> QED BY <5>2 DEF ToSummary, Wire
      <4>0. batch[k].id = i
        OBVIOUS
      <4> HIDE DEF i
      <4>3. CASE headers[i] = Absent
        <5>1. headers'[i] = HeaderOf(i, mailbox[i])
          BY <2>4, <3>2, <4>0, <4>1, <4>2, <4>3, DeliveredNew
        <5>2. ShapeOf(mailbox[i])
          BY <4>2 DEF LInv, HInv
        <5> QED BY <4>0, <5>1, <5>2, HeaderMade
      <4>4. CASE headers[i] # Absent
        BY <2>4, <4>0, <4>2, <4>4 DEF Delivered
      <4> QED BY <4>0, <4>3, <4>4
    <3> QED BY <2>2, <3>1, <3>3 DEF IdsOf
  <2> QED BY <1>3, <2>3, <2>4 DEF PageAnswered
<1> QED BY <1>2, <1>3

\* The part of AllListedUnlessRefused that a successful listing is about.
Complete ==
  op = "Search" /\ told' = "NS_OK" => \A i \in named' : headers'[i] # Absent \/ i \in refused'

LEMMA NextListed ==
  LInv /\ [Next]_vars => AllCollected' /\ (Complete \/ UNCHANGED vars)
<1> SUFFICES ASSUME LInv, [Next]_vars
             PROVE  AllCollected' /\ (Complete \/ UNCHANGED vars)
  OBVIOUS
<1>1. ASSUME op = Absent, UNCHANGED <<op, summaries, named>>
      PROVE  AllCollected' /\ Complete
  BY <1>1 DEF AllCollected, Complete, Documents
<1>2. ASSUME NEW i \in Id, ServerMarks(i) PROVE AllCollected' /\ Complete
  BY <1>1, <1>2 DEF ServerMarks, opVars
<1>3. CASE SessionExpires
  BY <1>1, <1>3 DEF SessionExpires, opVars
<1>4. ASSUME NEW document \in Documents, Call(document) PROVE AllCollected' /\ Complete
  BY <1>4 DEF Call, AllCollected, Complete, Documents, IdsOf
<1>5. ASSUME NEW a \in Answer("Auth"), LoginAnswered(a) PROVE AllCollected' /\ Complete
  <2>1. told' # "NS_OK"
    BY <1>5, LoginInv DEF LInv
  <2> QED BY <1>5, <2>1 DEF LoginAnswered, Fail, Tell, LInv, AllCollected, Complete
<1>6. CASE Connected
  BY <1>6 DEF Connected, Tell, AllCollected, Complete
<1>7. ASSUME NEW document \in {"Sync", "GetMsg"}, NEW a \in Answer(document),
             Answered(document, a)
      PROVE  AllCollected' /\ Complete
  <2>1. op = document
    BY <1>7 DEF Answered, Arrives, LInv, IInv, TypeOK
  <2> QED BY <1>7, <2>1 DEF Answered, Fail, Tell, AllCollected, Complete
<1>8. ASSUME NEW a \in Answer("Search"), PageAnswered(a) PROVE AllCollected' /\ Complete
  BY <1>8, PageListed DEF Complete
<1>9. CASE UNCHANGED vars
  BY <1>9 DEF vars, opVars, LInv, AllCollected
<1> QED BY <1>2, <1>3, <1>4, <1>5, <1>6, <1>7, <1>8, <1>9 DEF Next

\* A listing of any number of pages that fails leaves the database as it was;
\* one that a listener hears the success of has every message its pages named
\* in the database, but for those whose OnMessage failed.
THEOREM ListingsGetIn == Spec => AllListedUnlessRefused
<1>1. Init => LInv
  BY InitInv, InitHInv DEF Init, LInv, AllCollected
<1>2. LInv /\ [Next]_vars => LInv'
  BY NextInv, NextHInv, NextListed DEF LInv, IInv
<1>3. LInv /\ [Next]_vars =>
        [/\ headers' # headers => seen' = {} /\ told' = "NS_OK"
         /\ op = "Search" /\ told' = "NS_OK" =>
              \A i \in named' : headers'[i] # Absent \/ i \in refused']_vars
  BY NextInv, NextListed DEF LInv, Complete
<1> QED BY <1>1, <1>2, <1>3, PTL DEF Spec, AllListedUnlessRefused

-----------------------------------------------------------------------------
(* URIs *)

LEMMA PathKept ==
  ASSUME NEW key
  PROVE  LET path == Append(Path, key)
         IN path[Len(path)] = key /\ SubSeq(path, 1, Len(path) - 1) = Path
<1> DEFINE S == {Path[k] : k \in DOMAIN Path} \cup {key}
           path == Append(Path, key)
<1>1. Path \in Seq(S) /\ Len(Path) \in Nat
  OBVIOUS
<1>2. /\ path \in Seq(S) /\ Len(path) = Len(Path) + 1
      /\ \A k \in 1..Len(Path) : path[k] = Path[k]
      /\ path[Len(Path) + 1] = key
  BY <1>1
<1>3. SubSeq(path, 1, Len(path) - 1) = [k \in 1..Len(Path) |-> path[k]]
  BY <1>1, <1>2
<1>4. Path = [k \in 1..Len(Path) |-> Path[k]]
  BY <1>1
<1>5. [k \in 1..Len(Path) |-> path[k]] = [k \in 1..Len(Path) |-> Path[k]]
  BY <1>2
<1>6. SubSeq(path, 1, Len(path) - 1) = Path
  BY <1>3, <1>4, <1>5
<1> QED BY <1>1, <1>2, <1>6

\* Whatever the folder is called, and with any number of messages, the URI of a
\* message and the channel URI made of it lead back to the message.
THEOREM UrisAlwaysLeadBack == Spec => []UrisLeadBack
<1>1. UrisLeadBack
  <2> SUFFICES ASSUME NEW i \in Id, NEW query \in {NoQuery, Part}
               PROVE  LET message == WithQuery(MessageUriOf(Path, i), query)
                          channel == GetUrlForUri(message)
                      IN /\ \A uri \in {message, channel} :
                              /\ ~Refused(uri)
                              /\ MsgHdrFromUri(uri) = [folder |-> FolderUri(Path), key |-> i]
                              /\ GetUrlForUri(uri) = channel
                         /\ channel.query = query /\ channel.ref = NoRef
    BY DEF UrisLeadBack
  <2> DEFINE message == [scheme |-> "carbonio-message", path |-> Path, slash |-> FALSE,
                         query |-> query, ref |-> i]
             channel == [scheme |-> "x-moz-carbonio", path |-> Append(Path, i),
                         slash |-> FALSE, query |-> query, ref |-> NoRef]
  <2>1. WithQuery(MessageUriOf(Path, i), query) = message
    BY DEF WithQuery, MessageUriOf, Uri
  <2>2. GetUrlForUri(message) = channel /\ GetUrlForUri(channel) = channel
    BY DEF GetUrlForUri
  <2>3. ~Refused(message) /\ ~Refused(channel)
    BY DEF Refused
  <2>4. ParseUint64Str(i) = i
    BY DEF ParseUint64Str
  <2>5. MsgHdrFromUri(message) = [folder |-> FolderUri(Path), key |-> i]
    BY <2>4 DEF MsgHdrFromUri, KeyAndFolder
  <2>6. KeyAndFolder(channel) = [key |-> i, path |-> Path]
    <3>1. channel.scheme # "carbonio-message" /\ channel.path = Append(Path, i)
      OBVIOUS
    <3>2. /\ Append(Path, i)[Len(Append(Path, i))] = i
          /\ SubSeq(Append(Path, i), 1, Len(Append(Path, i)) - 1) = Path
      BY PathKept
    <3> QED BY <3>1, <3>2 DEF KeyAndFolder
  <2>7. MsgHdrFromUri(channel) = [folder |-> FolderUri(Path), key |-> i]
    BY <2>4, <2>6 DEF MsgHdrFromUri
  <2> QED BY <2>1, <2>2, <2>3, <2>5, <2>7
<1> QED BY <1>1, PTL

=============================================================================
