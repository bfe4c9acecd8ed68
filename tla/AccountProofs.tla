---------------------------- MODULE AccountProofs ----------------------------
(***************************************************************************)
(* Proofs about module Account, for any number of requests: every request  *)
(* works with an initialized client, every sync that was begun is followed *)
(* up once and with a client at hand, and there is one client unless       *)
(* requests were nested.                                                   *)
(***************************************************************************)
EXTENDS Account, SequenceTheorems, TLAPS

USE AccountAssumption

\* Taking the last element off a stack.
LEMMA Popped ==
  ASSUME NEW s \in Seq(Request), s # <<>>
  PROVE  /\ SubSeq(s, 1, Len(s) - 1) \in Seq(Request)
         /\ Len(SubSeq(s, 1, Len(s) - 1)) = Len(s) - 1
         /\ \A i \in 1..Len(s) - 1 : SubSeq(s, 1, Len(s) - 1)[i] = s[i]
         /\ Len(s) \in Nat \ {0}
<1>1. Len(s) \in Nat \ {0}
  OBVIOUS
<1>2. \A i \in 1..Len(s) : s[i] \in Request
  OBVIOUS
<1>3. SubSeq(s, 1, Len(s) - 1) = [i \in 1..Len(s) - 1 |-> s[i]]
  BY <1>1, SubSeqProperties
<1>4. SubSeq(s, 1, Len(s) - 1) \in Seq(Request)
  BY <1>1, <1>2, SubSeqProperties
<1>5. Len(SubSeq(s, 1, Len(s) - 1)) = Len(s) - 1
  BY <1>1, <1>3
<1> QED BY <1>1, <1>3, <1>4, <1>5

LEMMA Pushed ==
  ASSUME NEW s \in Seq(Request), NEW r \in Request
  PROVE  /\ Append(s, r) \in Seq(Request)
         /\ Len(Append(s, r)) = Len(s) + 1
         /\ \A i \in 1..Len(s) : Append(s, r)[i] = s[i]
         /\ Append(s, r)[Len(s) + 1] = r
         /\ Len(s) \in Nat
         /\ Append(s, r) # <<>>
  OBVIOUS

-----------------------------------------------------------------------------
(* Types: the counter of follow-ups needs Counted to stay below two. *)

LEMMA AccountInit == Init => TypeOK /\ AccountInv
<1> SUFFICES ASSUME Init PROVE TypeOK /\ AccountInv
  OBVIOUS
<1>1. TypeOK
  <2>1. password \in BOOLEAN /\ nested \in BOOLEAN
    BY Zenon DEF Init
  <2>2. prompts \in Seq(Request)
    BY DEF Init
  <2> QED BY <2>1, <2>2 DEF Init, TypeOK, Kind, PC
<1>2. prompts = <<>> /\ Len(prompts) = 0
  BY DEF Init
<1>3. Stacked
  BY <1>2 DEF Stacked
<1>4. ClientKept /\ AloneWhilePrompting
  BY DEF Init, ClientKept, AloneWhilePrompting
<1>5. ClientsReady /\ FollowUpHasClient /\ Counted
  BY DEF Init, ClientsReady, FollowUpHasClient, Counted
<1> QED BY <1>1, <1>3, <1>4, <1>5 DEF AccountInv

\* A request that gets its client at once, or none.
LEMMA CallStep ==
  ASSUME TypeOK, AccountInv, NEW r \in Request, GetProtocolClient(r)
  PROVE  TypeOK' /\ AccountInv'
<1> USE DEF AccountInv
<1> USE DEF clientVars, resultVars
<1>1. /\ pc[r] = "idle" /\ kind' \in [Request -> Kind]
      /\ \A q \in Request \ {r} : kind'[q] = kind[q]
      /\ UNCHANGED <<followUps, lister, shut>>
  BY DEF GetProtocolClient, TypeOK
<1>2. \A i \in 1..Len(prompts) : prompts[i] \in Request \ {r}
  BY <1>1 DEF TypeOK, Stacked
<1>3. CASE ReuseClient(r)
  <2>1. mClient \in ready /\ mClient \in Request
    BY <1>3 DEF ReuseClient, ClientKept, TypeOK
  <2>2. TypeOK'
    BY <1>1, <1>3, <2>1 DEF ReuseClient, Work, TypeOK, PC
  <2>3. Stacked' /\ ClientKept' /\ AloneWhilePrompting'
    BY <1>1, <1>2, <1>3 DEF ReuseClient, Work, TypeOK, Stacked, ClientKept,
         AloneWhilePrompting
  <2>4. ClientsReady' /\ FollowUpHasClient' /\ Counted'
    BY <1>1, <1>3, <2>1 DEF ReuseClient, Work, TypeOK, ClientsReady,
         FollowUpHasClient, Counted, Syncs
  <2> QED BY <2>2, <2>3, <2>4
<1>4. CASE CreateClient(r)
  <2>1. TypeOK'
    BY <1>1, <1>4 DEF CreateClient, Initialized, Work, TypeOK, PC
  <2>2. Stacked' /\ ClientKept'
    BY <1>1, <1>2, <1>4 DEF CreateClient, Initialized, Work, TypeOK, Stacked,
         ClientKept
  <2>3. AloneWhilePrompting'
    BY <1>4 DEF CreateClient, Initialized, Work, AloneWhilePrompting, ClientKept
  <2>4. ClientsReady' /\ FollowUpHasClient' /\ Counted'
    BY <1>1, <1>4 DEF CreateClient, Initialized, Work, TypeOK, ClientsReady,
         FollowUpHasClient, Counted, Syncs
  <2> QED BY <2>1, <2>2, <2>3, <2>4
<1>5. CASE PromptForPassword(r)
  <2>1. TypeOK'
    BY <1>1, <1>5, Pushed DEF PromptForPassword, TypeOK, PC
  <2>2. Stacked'
    <3> SUFFICES ASSUME NEW i \in 1..Len(prompts')
                 PROVE  /\ pc'[prompts'[i]] = "prompting"
                        /\ \A j \in 1..Len(prompts') :
                             prompts'[i] = prompts'[j] => i = j
      BY DEF Stacked
    <3>1. /\ prompts' = Append(prompts, r) /\ prompts \in Seq(Request)
          /\ pc' = [pc EXCEPT ![r] = "prompting"] /\ pc \in [Request -> PC]
      BY <1>5 DEF PromptForPassword, TypeOK
    <3>2. /\ Len(prompts) \in Nat /\ Len(prompts') = Len(prompts) + 1
          /\ \A k \in 1..Len(prompts) : prompts'[k] = prompts[k]
          /\ prompts'[Len(prompts) + 1] = r
      BY <3>1, Pushed
    <3>3. pc'[prompts'[i]] = "prompting"
      BY <1>2, <3>1, <3>2 DEF Stacked
    <3>4. \A j \in 1..Len(prompts') : prompts'[i] = prompts'[j] => i = j
      BY <1>2, <3>2 DEF Stacked
    <3> QED BY <3>3, <3>4
  <2>3. ClientKept'
    BY <1>5 DEF PromptForPassword, ClientKept
  <2>4. AloneWhilePrompting'
    <3> SUFFICES ASSUME ~nested'
                 PROVE  /\ ready' \subseteq {mClient'}
                        /\ Len(prompts') = 1 /\ ready' = {}
      BY DEF AloneWhilePrompting
    <3>1. prompts = <<>> /\ ready = {}
      BY <1>5 DEF PromptForPassword, ClientKept
    <3>2. Len(prompts') = 1
      BY <1>5, <3>1 DEF PromptForPassword
    <3> QED BY <1>5, <3>1, <3>2 DEF PromptForPassword
  <2>5. ClientsReady' /\ FollowUpHasClient' /\ Counted'
    BY <1>1, <1>5 DEF PromptForPassword, TypeOK, ClientsReady,
         FollowUpHasClient, Counted, Syncs
  <2> QED BY <2>1, <2>2, <2>3, <2>4, <2>5
<1>6. CASE Refused(r)
  <2>1. TypeOK'
    BY <1>1, <1>6 DEF Refused, TypeOK, PC
  <2>2. Stacked' /\ ClientKept' /\ AloneWhilePrompting'
    BY <1>1, <1>2, <1>6 DEF Refused, TypeOK, Stacked, ClientKept,
         AloneWhilePrompting
  <2>3. ClientsReady' /\ FollowUpHasClient' /\ Counted'
    BY <1>1, <1>6 DEF Refused, TypeOK, ClientsReady, FollowUpHasClient,
         Counted, Syncs
  <2> QED BY <2>1, <2>2, <2>3
<1> QED BY <1>3, <1>4, <1>5, <1>6 DEF GetProtocolClient

\* The innermost dialog is closed, one way or the other.
LEMMA UnwindStep ==
  ASSUME TypeOK, AccountInv, NEW r \in Request, Innermost(r), Unwind,
         NEW v \in PC, pc' = [pc EXCEPT ![r] = v]
  PROVE  /\ pc[r] = "prompting"
         /\ prompts' \in Seq(Request)
         /\ Stacked'
         /\ Len(prompts) = 1 => prompts' = <<>>
<1> USE DEF AccountInv
<1>1. /\ prompts \in Seq(Request) /\ prompts # <<>> /\ pc \in [Request -> PC]
      /\ prompts' = SubSeq(prompts, 1, Len(prompts) - 1)
      /\ prompts[Len(prompts)] = r
  BY DEF TypeOK, Innermost, Unwind
<1>2. /\ prompts' \in Seq(Request) /\ Len(prompts) \in Nat \ {0}
      /\ Len(prompts') = Len(prompts) - 1
      /\ \A i \in 1..Len(prompts) - 1 : prompts'[i] = prompts[i]
  BY <1>1, Popped
<1>3. pc[r] = "prompting"
  BY <1>1, <1>2 DEF Stacked
<1>4. Stacked'
  <2> SUFFICES ASSUME NEW i \in 1..Len(prompts')
               PROVE  /\ pc'[prompts'[i]] = "prompting"
                      /\ \A j \in 1..Len(prompts') : prompts'[i] = prompts'[j] => i = j
    BY DEF Stacked
  <2>1. /\ i \in 1..Len(prompts) /\ Len(prompts) \in 1..Len(prompts)
        /\ i # Len(prompts) /\ prompts'[i] = prompts[i]
    BY <1>2
  <2>2. prompts[i] # r /\ prompts[i] \in Request
    BY <1>1, <2>1 DEF Stacked
  <2>3. pc'[prompts'[i]] = "prompting"
    BY <1>1, <2>1, <2>2 DEF Stacked
  <2>4. \A j \in 1..Len(prompts') : prompts'[i] = prompts'[j] => i = j
    BY <1>2, <2>1 DEF Stacked
  <2> QED BY <2>3, <2>4
<1>5. Len(prompts) = 1 => prompts' = <<>>
  BY <1>1
<1> QED BY <1>2, <1>3, <1>4, <1>5

LEMMA EnteredStep ==
  ASSUME TypeOK, AccountInv, NEW r \in Request, PasswordEntered(r)
  PROVE  TypeOK' /\ AccountInv'
<1> USE DEF AccountInv, resultVars
<1>1. /\ pc' = [pc EXCEPT ![r] = "working"] /\ client' = [client EXCEPT ![r] = r]
      /\ ready' = ready \cup {r} /\ mClient' = r /\ password' = TRUE
      /\ UNCHANGED <<kind, followUps, lister, shut, nested>>
  BY DEF PasswordEntered, Initialized, Work
<1>2. /\ pc[r] = "prompting" /\ prompts' \in Seq(Request) /\ Stacked'
      /\ Len(prompts) = 1 => prompts' = <<>>
  <2>1. "working" \in PC
    BY DEF PC
  <2> QED BY <1>1, <2>1, UnwindStep DEF PasswordEntered
<1>3. TypeOK'
  BY <1>1, <1>2 DEF TypeOK, PC
<1>4. ClientKept'
  BY <1>1 DEF ClientKept
<1>5. AloneWhilePrompting'
  BY <1>1, <1>2 DEF AloneWhilePrompting, PasswordEntered, Innermost
<1>6. ClientsReady' /\ FollowUpHasClient' /\ Counted'
  BY <1>1, <1>2 DEF TypeOK, ClientsReady, FollowUpHasClient, Counted, Syncs
<1> QED BY <1>2, <1>3, <1>4, <1>5, <1>6

LEMMA CancelledStep ==
  ASSUME TypeOK, AccountInv, NEW r \in Request, PasswordCancelled(r)
  PROVE  TypeOK' /\ AccountInv'
<1> USE DEF AccountInv, resultVars, clientVars
<1>1. /\ pc' = [pc EXCEPT ![r] = "refused"]
      /\ UNCHANGED <<kind, client, followUps, lister, shut, mClient, ready,
                     password, nested>>
  BY DEF PasswordCancelled
<1>2. /\ pc[r] = "prompting" /\ prompts' \in Seq(Request) /\ Stacked'
      /\ Len(prompts) = 1 => prompts' = <<>>
  <2>1. "refused" \in PC
    BY DEF PC
  <2> QED BY <1>1, <2>1, UnwindStep DEF PasswordCancelled
<1>3. TypeOK'
  BY <1>1, <1>2 DEF TypeOK, PC
<1>4. ClientKept' /\ AloneWhilePrompting'
  BY <1>1, <1>2 DEF ClientKept, AloneWhilePrompting, PasswordCancelled, Innermost
<1>5. ClientsReady' /\ FollowUpHasClient' /\ Counted'
  BY <1>1, <1>2 DEF TypeOK, ClientsReady, FollowUpHasClient, Counted, Syncs
<1> QED BY <1>2, <1>3, <1>4, <1>5

\* The end of an operation: the client that serves it is still kept.
LEMMA EndsStep ==
  ASSUME TypeOK, AccountInv, NEW r \in Request, Ends(r)
  PROVE  TypeOK' /\ AccountInv'
<1> USE DEF AccountInv, resultVars, clientVars
<1>1. /\ pc[r] = "working" /\ pc' = [pc EXCEPT ![r] = "done"]
      /\ UNCHANGED <<kind, client, mClient, ready, password, nested, shut, prompts>>
  BY DEF Ends, OnSuccess, OnError, EndSync, OperationEnds
<1>2. mClient \in ready /\ mClient \in Request /\ client[r] \in ready
  BY <1>1 DEF ClientsReady, ClientKept, TypeOK
<1>3. /\ followUps' = IF Syncs(r) THEN [followUps EXCEPT ![r] = @ + 1] ELSE followUps
      /\ lister' = IF kind[r] = "newMessages"
                     THEN [lister EXCEPT ![r] = mClient] ELSE lister
  <2>1. CASE OnSuccess(r) \/ OnError(r)
    <3>1. Syncs(r) /\ PostSyncCallback(r)
      BY <2>1 DEF OnSuccess, OnError, EndSync
    <3>2. [lister EXCEPT ![r] = lister[r]] = lister
      BY DEF TypeOK
    <3> QED BY <3>1, <3>2 DEF PostSyncCallback
  <2>2. CASE OperationEnds(r)
    BY <2>2 DEF OperationEnds, Syncs
  <2> QED BY <2>1, <2>2 DEF Ends
<1>4. followUps[r] = 0
  BY <1>1 DEF Counted
<1>5. TypeOK'
  BY <1>1, <1>2, <1>3, <1>4 DEF TypeOK, PC
<1>6. Stacked'
  BY <1>1 DEF Stacked, TypeOK
<1>7. ClientKept' /\ AloneWhilePrompting'
  BY <1>1 DEF ClientKept, AloneWhilePrompting
<1>8. ClientsReady' /\ FollowUpHasClient'
  BY <1>1, <1>2, <1>3 DEF TypeOK, ClientsReady, FollowUpHasClient
<1>9. Counted'
  BY <1>1, <1>3, <1>4 DEF TypeOK, Counted, Syncs
<1> QED BY <1>5, <1>6, <1>7, <1>8, <1>9

THEOREM AccountCorrect == Spec => [](TypeOK /\ AccountInv)
<1>1. TypeOK /\ AccountInv /\ [Next]_vars => (TypeOK /\ AccountInv)'
  <2> SUFFICES ASSUME TypeOK, AccountInv, [Next]_vars
               PROVE  TypeOK' /\ AccountInv'
    OBVIOUS
  <2>1. CASE Shutdown \/ UNCHANGED vars
    <3>1. /\ UNCHANGED <<kind, pc, client, followUps, lister, mClient, ready,
                         prompts, password, nested>>
          /\ shut' \subseteq Request
      BY <2>1 DEF Shutdown, vars, resultVars, clientVars, TypeOK
    <3> QED
      BY <3>1 DEF TypeOK, AccountInv, Stacked, ClientKept, AloneWhilePrompting,
           ClientsReady, FollowUpHasClient, Counted, Syncs
  <2> QED
    BY <2>1, CallStep, EnteredStep, CancelledStep, EndsStep DEF Next, RequestNext
<1> QED BY <1>1, AccountInit, PTL DEF Spec

\* Every reachable state is well typed; in particular no request is followed
\* up twice.
THEOREM TypeCorrect == Spec => []TypeOK
BY AccountCorrect, PTL

\* No operation is started on a client that is still being initialized.
THEOREM ClientsStayReady == Spec => []ClientsReady
<1>1. AccountInv => ClientsReady
  BY DEF AccountInv
<1> QED BY <1>1, AccountCorrect, PTL

\* The follow-up of GetNewMessages never has to make a client.
THEOREM FollowUpNeverPrompts == Spec => []FollowUpHasClient
<1>1. AccountInv => FollowUpHasClient
  BY DEF AccountInv
<1> QED BY <1>1, AccountCorrect, PTL

\* GetProtocolClient makes one client unless requests are nested.
THEOREM OneClient == Spec => []OneClientUnlessNested
<1>1. AccountInv => OneClientUnlessNested
  BY DEF AccountInv, AloneWhilePrompting, OneClientUnlessNested
<1> QED BY <1>1, AccountCorrect, PTL

=============================================================================
