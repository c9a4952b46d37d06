------------------------ MODULE OSALQueueClientsProofs ------------------------
(***************************************************************************)
(* Theorems about OSALQueueClients, for every finite set of fetchers and   *)
(* every number of posts, with posts that fail, deadlines that pass and    *)
(* waits that end for no reason.                                           *)
(***************************************************************************)
EXTENDS OSALQueueClients, FiniteSetTheorems, SequenceTheorems, TLAPS

(* InOrderExactlyOnce, element by element: each message that was delivered, *)
(* then each one that waits, has the number of its post.                    *)
Numbered ==
    /\ Len(delivered) + Len(waiting_msg) = posted
    /\ \A i \in 1 .. Len(delivered) : delivered[i] = i
    /\ \A i \in 1 .. Len(waiting_msg) : waiting_msg[i] = Len(delivered) + i

-----------------------------------------------------------------------------
(* Lemmas on the operators of the queue.                                    *)

(* What Append, Head and Tail make of a sequence, element by element. *)
LEMMA Appended ==
    ASSUME NEW S, NEW s \in Seq(S), NEW x \in S
    PROVE  /\ Append(s, x) \in Seq(S)
           /\ Len(Append(s, x)) = Len(s) + 1
           /\ \A i \in 1 .. Len(s) : Append(s, x)[i] = s[i]
           /\ Append(s, x)[Len(s) + 1] = x
OBVIOUS

LEMMA HeadAndTail ==
    ASSUME NEW S, NEW s \in Seq(S), s # <<>>
    PROVE  /\ Len(s) \in Nat \ {0}
           /\ Head(s) \in S
           /\ Head(s) = s[1]
           /\ Tail(s) \in Seq(S)
           /\ Len(Tail(s)) = Len(s) - 1
           /\ \A i \in 1 .. Len(Tail(s)) : Tail(s)[i] = s[i + 1]
OBVIOUS

(* The fetchers in a state are finitely many, before a step and after it. *)
LEMMA AtFinite ==
    ASSUME NEW state
    PROVE  /\ IsFiniteSet(Q!At(state)) /\ Cardinality(Q!At(state)) \in Nat
           /\ IsFiniteSet(Q!At(state)') /\ Cardinality(Q!At(state)') \in Nat
<1>1. Q!At(state) \in SUBSET Fetchers /\ Q!At(state)' \in SUBSET Fetchers
  BY DEF Q!At
<1>2. QED
  BY <1>1, OSALQueueClientsAssumption, FS_Subset, FS_CardinalityType

(* A fetcher that moves to another state leaves the set of those in the     *)
(* first and joins the set of those in the second.                          *)
LEMMA AtMoved ==
    ASSUME Q!TypeOK, NEW f \in Fetchers, NEW to \in Q!FetchStates,
           fetch[f] # to, fetch' = [fetch EXCEPT ![f] = to]
    PROVE  /\ \A state \in Q!FetchStates : state # to => Q!At(state)' = Q!At(state) \ {f}
           /\ Q!At(to)' = Q!At(to) \union {f}
           /\ f \in Q!At(fetch[f])
           /\ f \notin Q!At(to)
BY DEF Q!TypeOK, Q!At

(* The same in numbers, for the two states NoLostWakeup counts.             *)
LEMMA SignalCounts ==
    ASSUME Q!TypeOK, Q!Signal
    PROVE  /\ fetch' \in [Fetchers -> Q!FetchStates]
           /\ \/ /\ Q!At("waiting") = {} /\ Q!At("waiting")' = {}
                 /\ Cardinality(Q!At("signalled")') = Cardinality(Q!At("signalled"))
              \/ /\ Q!At("waiting") # {}
                 /\ Cardinality(Q!At("signalled")') = Cardinality(Q!At("signalled")) + 1
<1>1. CASE Q!At("waiting") = {} /\ UNCHANGED fetch
  BY <1>1 DEF Q!TypeOK, Q!At
<1>2. ASSUME NEW f \in Q!At("waiting"), fetch' = [fetch EXCEPT ![f] = "signalled"]
      PROVE  /\ Q!At("waiting") # {}
             /\ fetch' \in [Fetchers -> Q!FetchStates]
             /\ Cardinality(Q!At("signalled")') = Cardinality(Q!At("signalled")) + 1
  <2>1. f \in Fetchers /\ fetch[f] = "waiting" /\ "signalled" \in Q!FetchStates
    BY <1>2 DEF Q!At, Q!FetchStates
  <2>2. Q!At("signalled")' = Q!At("signalled") \union {f} /\ f \notin Q!At("signalled")
    BY <1>2, <2>1, AtMoved
  <2>3. QED
    BY <1>2, <2>1, <2>2, AtFinite, FS_AddElement DEF Q!TypeOK
<1>3. QED
  BY <1>1, <1>2 DEF Q!Signal

(* A signalled fetcher that returns is one less. *)
LEMMA WokenReturns ==
    ASSUME Q!TypeOK, NEW f \in Fetchers, fetch[f] = "signalled",
           fetch' = [fetch EXCEPT ![f] = "returned"]
    PROVE  /\ Q!At("waiting")' = Q!At("waiting")
           /\ Cardinality(Q!At("signalled")') = Cardinality(Q!At("signalled")) - 1
<1>1. /\ Q!At("waiting")' = Q!At("waiting") \ {f}
      /\ Q!At("signalled")' = Q!At("signalled") \ {f}
      /\ f \in Q!At("signalled")
  BY AtMoved DEF Q!FetchStates
<1>2. f \notin Q!At("waiting")
  BY DEF Q!At
<1>3. Cardinality(Q!At("signalled") \ {f}) = Cardinality(Q!At("signalled")) - 1
  BY <1>1, AtFinite, FS_RemoveElement
<1>4. QED
  BY <1>1, <1>2, <1>3

-----------------------------------------------------------------------------
(* Typing.                                                                  *)

LEMMA InitType == Init => TypeOK /\ Numbered
BY OSALQueueClientsAssumption
   DEF Init, TypeOK, Numbered, Q!Init, Q!TypeOK, Q!FetchStates

LEMMA NextType == TypeOK /\ [Next]_vars => TypeOK'
<1> SUFFICES ASSUME TypeOK, [Next]_vars
             PROVE  TypeOK'
  OBVIOUS
<1>q. /\ waiting_msg \in Seq(Messages)
      /\ fetch \in [Fetchers -> Q!FetchStates]
      /\ msg \in [Fetchers -> Messages \union {NoMsg}]
      /\ empty_returns \in SUBSET Fetchers
  BY DEF TypeOK, Q!TypeOK
<1>1. CASE Post
  <2>1. posted + 1 \in Messages /\ posted' \in 0 .. MaxPosts
    BY <1>1, OSALQueueClientsAssumption DEF Post, TypeOK, Messages
  <2>2. waiting_msg' \in Seq(Messages) /\ fetch' \in [Fetchers -> Q!FetchStates]
    BY <1>1, <1>q, <2>1, SignalCounts DEF Post, Q!Post, Q!Add, TypeOK
  <2>3. QED
    BY <1>1, <1>q, <2>1, <2>2 DEF Post, Q!Post, TypeOK, Q!TypeOK
<1>2. CASE PostNoMem
  BY <1>2, <1>q, SignalCounts DEF PostNoMem, Q!PostNoMem, TypeOK, Q!TypeOK
<1>3. ASSUME NEW f \in Fetchers, FetchStep(f)
      PROVE  TypeOK'
  <2>1. CASE Q!Take(f)
    <3>1. /\ Head(waiting_msg) \in Messages /\ waiting_msg' \in Seq(Messages)
          /\ msg'[f] = Head(waiting_msg)
      BY <1>q, <2>1, HeadAndTail DEF Q!Take
    <3>2. delivered' \in Seq(Messages)
      BY <1>3, <3>1 DEF FetchStep, TypeOK
    <3>3. QED
      BY <1>3, <1>q, <2>1, <3>1, <3>2 DEF FetchStep, Q!Take, TypeOK, Q!TypeOK, Q!FetchStates
  <2>2. CASE /\ UNCHANGED <<waiting_msg, msg>>
             /\ empty_returns' \in SUBSET Fetchers
             /\ fetch' \in [Fetchers -> Q!FetchStates]
    BY <1>3, <1>q, <2>2 DEF FetchStep, TypeOK, Q!TypeOK
  <2>3. QED
    BY <1>3, <1>q, <2>1, <2>2
       DEF FetchStep, Q!FetchStep, Q!Fetch, Q!Wake, Q!WakeExpired, Q!ReturnEmpty, Q!FetchStates
<1>4. ASSUME NEW f \in Fetchers, WaitEnds(f) \/ Loop(f)
      PROVE  TypeOK'
  BY <1>4, <1>q
     DEF WaitEnds, Loop, Q!WaitEnds, Q!Expire, Q!Spurious, Q!Loop, TypeOK, Q!TypeOK, Q!FetchStates
<1>5. CASE UNCHANGED vars
  BY <1>5 DEF vars, TypeOK, Q!TypeOK
<1>6. QED
  BY <1>1, <1>2, <1>3, <1>4, <1>5 DEF Next

(* Every variable of the model keeps its type, in every execution. *)
THEOREM TypeCorrect == Spec => []TypeOK
<1>1. Init => TypeOK
  BY InitType
<1>2. QED
  BY <1>1, NextType, PTL DEF Spec

-----------------------------------------------------------------------------
(* Wake-ups.                                                                *)

LEMMA NextWakeup == TypeOK /\ NoLostWakeup /\ [Next]_vars => NoLostWakeup'
<1> SUFFICES ASSUME TypeOK, NoLostWakeup, [Next]_vars
             PROVE  NoLostWakeup'
  OBVIOUS
<1>q. Q!TypeOK /\ waiting_msg \in Seq(Messages) /\ Len(waiting_msg) \in Nat
  BY DEF TypeOK, Q!TypeOK
<1>n. /\ Cardinality(Q!At("signalled")) \in Nat
      /\ Cardinality(Q!At("signalled")') \in Nat
  BY AtFinite
<1>1. CASE Post
  <2>1. Len(waiting_msg') = Len(waiting_msg) + 1
    BY <1>1, <1>q, OSALQueueClientsAssumption DEF Post, Q!Post, Q!Add, TypeOK, Messages
  <2>2. QED
    BY <1>1, <1>q, <1>n, <2>1, SignalCounts DEF Post, Q!Post, NoLostWakeup
<1>2. CASE PostNoMem
  BY <1>2, <1>q, <1>n, SignalCounts DEF PostNoMem, Q!PostNoMem, NoLostWakeup
<1>3. ASSUME NEW f \in Fetchers, FetchStep(f)
      PROVE  NoLostWakeup'
  <2>1. CASE waiting_msg' = <<>>
    BY <1>n, <2>1 DEF NoLostWakeup
  <2>2. CASE fetch[f] = "idle" /\ Q!Take(f)
    <3>1. Len(waiting_msg') = Len(waiting_msg) - 1
      BY <1>q, <2>2, HeadAndTail DEF Q!Take
    <3>2. Q!At("waiting")' = Q!At("waiting") /\ Q!At("signalled")' = Q!At("signalled")
      BY <1>q, <2>2 DEF Q!Take, Q!At, Q!TypeOK
    <3>3. QED
      BY <1>q, <1>n, <3>1, <3>2 DEF NoLostWakeup
  <2>3. CASE fetch[f] = "signalled" /\ Q!Take(f)
    <3>1. Len(waiting_msg') = Len(waiting_msg) - 1
      BY <1>q, <2>3, HeadAndTail DEF Q!Take
    <3>2. /\ Q!At("waiting")' = Q!At("waiting")
          /\ Cardinality(Q!At("signalled")') = Cardinality(Q!At("signalled")) - 1
      BY <1>q, <2>3, WokenReturns DEF Q!Take
    <3>3. QED
      BY <1>q, <1>n, <3>1, <3>2 DEF NoLostWakeup
  <2>4. CASE fetch[f] = "expired" /\ Q!ReturnEmpty(f)
    <3>1. /\ Q!At("waiting")' = Q!At("waiting") /\ Q!At("signalled")' = Q!At("signalled")
          /\ waiting_msg' = waiting_msg
      BY <1>q, <2>4 DEF Q!ReturnEmpty, Q!At, Q!TypeOK
    <3>2. QED
      BY <3>1 DEF NoLostWakeup
  <2>5. QED
    BY <1>3, <2>1, <2>2, <2>3, <2>4
       DEF FetchStep, Q!FetchStep, Q!Fetch, Q!Wake, Q!WakeExpired, Q!ReturnEmpty
<1>4. ASSUME NEW f \in Fetchers, Q!Expire(f)
      PROVE  NoLostWakeup'
  <2>1. /\ waiting_msg' = waiting_msg
        /\ Q!At("waiting") # {}
        /\ Q!At("signalled")' = Q!At("signalled")
    BY <1>4, <1>q DEF Q!Expire, Q!At, Q!TypeOK
  <2>2. QED
    BY <2>1 DEF NoLostWakeup
<1>5. ASSUME NEW f \in Fetchers, Q!Spurious(f)
      PROVE  NoLostWakeup'
  <2>1. waiting_msg' = waiting_msg /\ f \in Q!At("waiting")
    BY <1>5 DEF Q!Spurious, Q!At
  <2>2. Q!Signal
    BY <1>5, <2>1 DEF Q!Spurious, Q!Signal
  <2>3. QED
    BY <1>q, <1>n, <2>1, <2>2, SignalCounts DEF NoLostWakeup
<1>6. ASSUME NEW f \in Fetchers, Loop(f)
      PROVE  NoLostWakeup'
  <2>1. /\ waiting_msg' = waiting_msg
        /\ Q!At("waiting")' = Q!At("waiting")
        /\ Q!At("signalled")' = Q!At("signalled")
    BY <1>6, <1>q DEF Loop, Q!Loop, Q!At, Q!TypeOK
  <2>2. QED
    BY <2>1 DEF NoLostWakeup
<1>7. CASE UNCHANGED vars
  BY <1>7 DEF vars, NoLostWakeup, Q!At
<1>8. QED
  BY <1>1, <1>2, <1>3, <1>4, <1>5, <1>6, <1>7 DEF Next, WaitEnds, Q!WaitEnds

(* Posts and fetches that overlap lose no wake-up, whatever the number of   *)
(* fetchers: NoLostWakeup holds in every execution.                         *)
THEOREM WakeupsKept == Spec => []NoLostWakeup
<1>1. Init => NoLostWakeup
  BY DEF Init, Q!Init, NoLostWakeup, Q!At
<1>2. Init => TypeOK
  BY InitType
<1>3. QED
  BY <1>1, <1>2, NextType, NextWakeup, PTL DEF Spec

-----------------------------------------------------------------------------
(* Order of delivery.                                                       *)

(* A step that touches neither history nor list. *)
LEMMA NumberedSame ==
    ASSUME Numbered, UNCHANGED <<waiting_msg, posted, delivered>>
    PROVE  Numbered'
BY DEF Numbered

LEMMA NextNumbered == TypeOK /\ Numbered /\ [Next]_vars => Numbered'
<1> SUFFICES ASSUME TypeOK, Numbered, [Next]_vars
             PROVE  Numbered'
  OBVIOUS
<1>q. /\ waiting_msg \in Seq(Messages) /\ Len(waiting_msg) \in Nat
      /\ delivered \in Seq(Messages) /\ Len(delivered) \in Nat
      /\ posted \in Nat
  BY OSALQueueClientsAssumption DEF TypeOK, Q!TypeOK
<1>1. CASE Post
  <2>1. /\ posted + 1 \in Messages
        /\ waiting_msg' = Append(waiting_msg, posted + 1)
        /\ posted' = posted + 1
        /\ delivered' = delivered
    BY <1>1, <1>q, OSALQueueClientsAssumption DEF Post, Q!Post, Q!Add, Messages
  <2>2. /\ Len(waiting_msg') = Len(waiting_msg) + 1
        /\ \A i \in 1 .. Len(waiting_msg) : waiting_msg'[i] = waiting_msg[i]
        /\ waiting_msg'[Len(waiting_msg) + 1] = posted + 1
    BY <1>q, <2>1, Appended
  <2>3. Len(delivered') + Len(waiting_msg') = posted'
    BY <1>q, <2>1, <2>2 DEF Numbered
  <2>4. ASSUME NEW i \in 1 .. Len(waiting_msg')
        PROVE  waiting_msg'[i] = Len(delivered) + i
    <3>1. CASE i = Len(waiting_msg) + 1
      BY <1>q, <2>2, <3>1 DEF Numbered
    <3>2. CASE i \in 1 .. Len(waiting_msg)
      BY <2>2, <3>2 DEF Numbered
    <3>3. QED
      BY <1>q, <2>2, <3>1, <3>2
  <2>5. QED
    BY <2>1, <2>3, <2>4 DEF Numbered
<1>2. ASSUME NEW f \in Fetchers, FetchStep(f)
      PROVE  Numbered'
  <2>1. CASE Q!Take(f)
    <3>1. /\ waiting_msg # <<>>
          /\ waiting_msg' = Tail(waiting_msg)
          /\ msg'[f] = Head(waiting_msg)
          /\ posted' = posted
      BY <1>2, <2>1 DEF FetchStep, Q!Take, TypeOK, Q!TypeOK
    <3>2. /\ Len(waiting_msg) \in Nat \ {0}
          /\ Head(waiting_msg) \in Messages
          /\ Head(waiting_msg) = waiting_msg[1]
          /\ Len(waiting_msg') = Len(waiting_msg) - 1
          /\ \A i \in 1 .. Len(waiting_msg') : waiting_msg'[i] = waiting_msg[i + 1]
      BY <1>q, <3>1, HeadAndTail
    <3>3. waiting_msg' # waiting_msg
      BY <3>2
    <3>4. delivered' = Append(delivered, Head(waiting_msg))
      BY <1>2, <3>1, <3>3 DEF FetchStep
    <3>5. /\ Len(delivered') = Len(delivered) + 1
          /\ \A i \in 1 .. Len(delivered) : delivered'[i] = delivered[i]
          /\ delivered'[Len(delivered) + 1] = waiting_msg[1]
      BY <1>q, <3>2, <3>4, Appended
    <3>6. Len(delivered') + Len(waiting_msg') = posted'
      <4>1. /\ Len(delivered) + Len(waiting_msg) = posted
            /\ Len(delivered') = Len(delivered) + 1
            /\ Len(waiting_msg') = Len(waiting_msg) - 1
            /\ posted' = posted
        BY <3>1, <3>2, <3>5 DEF Numbered
      <4>2. QED
        BY <1>q, <4>1
    <3>7. waiting_msg[1] = Len(delivered) + 1
      BY <1>q, <3>2, 1 \in 1 .. Len(waiting_msg) DEF Numbered
    <3>8. ASSUME NEW i \in 1 .. Len(delivered')
          PROVE  delivered'[i] = i
      <4>1. CASE i = Len(delivered) + 1
        BY <3>5, <3>7, <4>1
      <4>2. CASE i \in 1 .. Len(delivered)
        BY <3>5, <4>2 DEF Numbered
      <4>3. QED
        BY <1>q, <3>5, <4>1, <4>2
    <3>9. \A i \in 1 .. Len(waiting_msg') : waiting_msg'[i] = Len(delivered') + i
      BY <1>q, <3>2, <3>5 DEF Numbered
    <3>10. QED
      BY <3>6, <3>8, <3>9 DEF Numbered
  <2>2. CASE waiting_msg' = waiting_msg
    BY <1>2, <2>2, NumberedSame DEF FetchStep
  <2>3. QED
    BY <1>2, <2>1, <2>2
       DEF FetchStep, Q!FetchStep, Q!Fetch, Q!Wake, Q!WakeExpired, Q!ReturnEmpty
<1>3. CASE PostNoMem \/ (\E f \in Fetchers : WaitEnds(f) \/ Loop(f)) \/ UNCHANGED vars
  BY <1>3, NumberedSame
     DEF PostNoMem, Q!PostNoMem, WaitEnds, Q!WaitEnds, Q!Expire, Q!Spurious, Loop, Q!Loop, vars
<1>4. QED
  BY <1>1, <1>2, <1>3 DEF Next

(* Numbered histories are the sequence 1, 2, ..., posted. *)
LEMMA NumberedInOrder == TypeOK /\ Numbered => InOrderExactlyOnce
<1> SUFFICES ASSUME TypeOK, Numbered
             PROVE  InOrderExactlyOnce
  OBVIOUS
<1> DEFINE both == delivered \o waiting_msg
<1>1. /\ delivered \in Seq(Messages) /\ Len(delivered) \in Nat
      /\ waiting_msg \in Seq(Messages) /\ Len(waiting_msg) \in Nat
  BY DEF TypeOK, Q!TypeOK
<1>2. /\ both \in Seq(Messages)
      /\ Len(both) = Len(delivered) + Len(waiting_msg)
      /\ \A i \in 1 .. Len(both) :
            both[i] = IF i <= Len(delivered) THEN delivered[i]
                      ELSE waiting_msg[i - Len(delivered)]
  BY <1>1
<1>3. Len(both) = posted
  BY <1>2 DEF Numbered
<1>4. \A i \in 1 .. posted : both[i] = i
  BY <1>1, <1>2, <1>3 DEF Numbered
<1>5. both \in Seq(Nat)
  BY <1>2, OSALQueueClientsAssumption, SeqMonotonic DEF Messages
<1>6. /\ [i \in 1 .. posted |-> i] \in Seq(Nat)
      /\ Len([i \in 1 .. posted |-> i]) = posted
  BY <1>1, <1>2, <1>3
<1>7. both = [i \in 1 .. posted |-> i]
  BY <1>3, <1>4, <1>5, <1>6, SeqEqual
<1>8. QED
  BY <1>7 DEF InOrderExactlyOnce

(* Messages are delivered in the order of the posts, none twice and none    *)
(* skipped: InOrderExactlyOnce holds in every execution.                    *)
THEOREM DeliveredInOrder == Spec => []InOrderExactlyOnce
<1>1. Init => TypeOK /\ Numbered
  BY InitType
<1>2. TypeOK /\ Numbered /\ [Next]_vars => (TypeOK /\ Numbered)'
  BY NextType, NextNumbered
<1>3. TypeOK /\ Numbered => InOrderExactlyOnce
  BY NumberedInOrder
<1>4. QED
  BY <1>1, <1>2, <1>3, PTL DEF Spec
=============================================================================
