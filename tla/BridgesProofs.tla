---------------------------- MODULE BridgesProofs ----------------------------
(***************************************************************************)
(* Proofs about one asynchronous call of a language binding: the inductive *)
(* invariant of Bridges and the safety properties that follow from it, for *)
(* all four bindings, any number of deltas and any capacity of a stream.   *)
(***************************************************************************)
EXTENDS Bridges, SequenceTheorems, TLAPS

\* Starts and Publishes are the same step in the three bindings.
Begins == (OnAndroid /\ Begin(TRUE)) \/ (OnApple /\ Begin(FALSE)) \/ (OnDart /\ Begin(TRUE))

\* Every step is, for the variables of the call, one of the core or of one binding.
LEMMA CallCases ==
  ASSUME [Next]_vars
  PROVE  \/ Accept \/ Start \/ Finish \/ CoreCancels \/ Begins \/ Publish
         \/ AndroidRefused \/ AppleRefused \/ DartRefused
         \/ AndroidOnEvent \/ AppleOnEvent \/ DartOnEvent
         \/ AndroidOnCompletion \/ AppleOnCompletion \/ DartOnCompletion
         \/ AndroidCancel \/ AwaitCancels \/ AwaitReturns
         \/ StreamCancels \/ StreamCancelReturns \/ StreamUnregisters
         \/ TaskCancelled \/ StreamTerminated \/ AppleReturns
         \/ HandleEvent \/ HandleCompletion \/ DartCancel \/ TokenCancels
         \/ Take \/ SeeEnd
         \/ UNCHANGED callVars
<1>1. CASE UNCHANGED vars
  BY <1>1 DEF vars
<1>2. CASE Next
  <2>1. CASE RNRuns
    BY <2>1 DEF RNRuns, Launch, StoreSubscription, CancelSubscription, CoroutineBegins,
       CoroutineEmits, CoroutineEnds, DeliverEvent, NextDelta, ReaderReturns, AndroidStart,
       Begins
  <2>2. CASE ReaderLeaves
    BY <2>2 DEF ReaderLeaves
  <2>3. CASE Worker \/ Report \/ EntryPoint
    BY <2>3 DEF Worker, Report, EntryPoint
  <2>4. CASE Consumer \/ Cancels \/ CoreCancels
    BY <2>4 DEF Consumer, Cancels
  <2>5. CASE Caller
    <3>1. CASE AndroidStart \/ AppleStart \/ DartStart
      <4>1. Begins
        BY <3>1 DEF AndroidStart, AppleStart, DartStart, Begins, Begin
      <4> QED BY <4>1
    <3>2. CASE AndroidPublish \/ ApplePublish \/ DartPublish
      BY <3>2 DEF AndroidPublish, ApplePublish, DartPublish
    <3> QED BY <2>5, <3>1, <3>2 DEF Caller, AndroidCaller, AppleCaller, DartIsolate
  <2> QED BY <1>2, <2>1, <2>2, <2>3, <2>4, <2>5 DEF Next
<1> QED BY <1>1, <1>2

-----------------------------------------------------------------------------
(* Sequences of deltas.                                                    *)

\* An empty sequence is in order with any other.
LEMMA EmptyInOrder ==
  ASSUME NEW s
  PROVE  Ascending(<<>>) /\ Below(s, <<>>) /\ Below(<<>>, s) /\ \A n : UpTo(<<>>, n)
BY DEF Ascending, Below, UpTo

\* What follows all the others may be put at the end.
LEMMA AppendInOrder ==
  ASSUME NEW s \in Seq(Nat), NEW t \in Seq(Nat), NEW e \in Nat
  PROVE  /\ Ascending(t) /\ (\A i \in 1..Len(t) : t[i] < e) => Ascending(Append(t, e))
         /\ Below(s, t) /\ (\A i \in 1..Len(s) : s[i] < e) => Below(s, Append(t, e))
         /\ Below(t, s) /\ (\A i \in 1..Len(s) : e < s[i]) => Below(Append(t, e), s)
<1> DEFINE u == Append(t, e)
<1>1. /\ Len(t) \in Nat /\ Len(s) \in Nat /\ Len(u) = Len(t) + 1 /\ u[Len(t) + 1] = e
      /\ \A i \in 1..Len(t) : u[i] = t[i] /\ u[i] \in Nat
  BY AppendProperties, ElementOfSeq, LenProperties
<1>2. \A i \in 1..Len(s) : s[i] \in Nat
  BY ElementOfSeq
<1>3. \A i \in 1..Len(u) : i \in 1..Len(t) \/ i = Len(t) + 1
  BY <1>1
<1> HIDE DEF u
<1>4. Ascending(t) /\ (\A i \in 1..Len(t) : t[i] < e) => Ascending(u)
  <2> SUFFICES ASSUME Ascending(t), \A i \in 1..Len(t) : t[i] < e,
                      NEW i \in 1..Len(u), NEW j \in 1..Len(u), i < j
               PROVE  u[i] < u[j]
    BY DEF Ascending
  <2>1. i \in 1..Len(t)
    BY <1>1
  <2>2. CASE j \in 1..Len(t)
    BY <1>1, <2>1, <2>2 DEF Ascending
  <2>3. CASE j = Len(t) + 1
    BY <1>1, <2>1, <2>3
  <2> QED BY <1>3, <2>2, <2>3
<1>5. Below(s, t) /\ (\A i \in 1..Len(s) : s[i] < e) => Below(s, u)
  BY <1>1, <1>3 DEF Below
<1>6. Below(t, s) /\ (\A i \in 1..Len(s) : e < s[i]) => Below(u, s)
  BY <1>1, <1>3 DEF Below
<1> QED BY <1>4, <1>5, <1>6 DEF u

\* What is taken from the front leaves the rest in order, and followed by what followed it.
LEMMA TailInOrder ==
  ASSUME NEW s \in Seq(Nat), NEW t \in Seq(Nat), t # <<>>
  PROVE  /\ Ascending(t) => Ascending(Tail(t)) /\ \A i \in 1..Len(Tail(t)) : Head(t) < Tail(t)[i]
         /\ Below(s, t) => Below(s, Tail(t)) /\ \A i \in 1..Len(s) : s[i] < Head(t)
         /\ Below(t, s) => Below(Tail(t), s) /\ \A i \in 1..Len(s) : Head(t) < s[i]
         /\ \A n : UpTo(t, n) => UpTo(Tail(t), n) /\ Head(t) <= n
<1>1. Head(t) = t[1] /\ 1 \in 1..Len(t)
  BY LenProperties, EmptySeq
<1>2. \A i \in 1..Len(Tail(t)) : i + 1 \in 1..Len(t) /\ Tail(t)[i] = t[i + 1] /\ 1 < i + 1
  BY HeadTailProperties, LenProperties
<1>3. \A i, j \in 1..Len(Tail(t)) : i < j => i + 1 < j + 1
  OBVIOUS
<1>4. Ascending(t) => Ascending(Tail(t)) /\ \A i \in 1..Len(Tail(t)) : Head(t) < Tail(t)[i]
  BY <1>1, <1>2, <1>3 DEF Ascending
<1>5. Below(s, t) => Below(s, Tail(t)) /\ \A i \in 1..Len(s) : s[i] < Head(t)
  BY <1>1, <1>2 DEF Below
<1>6. Below(t, s) => Below(Tail(t), s) /\ \A i \in 1..Len(s) : Head(t) < s[i]
  BY <1>1, <1>2 DEF Below
<1>7. \A n : UpTo(t, n) => UpTo(Tail(t), n) /\ Head(t) <= n
  BY <1>1, <1>2 DEF UpTo
<1> QED BY <1>4, <1>5, <1>6, <1>7
-----------------------------------------------------------------------------
(* The variables of the call.                                              *)

\* The part of the type invariant about the core, the caller and the binding.
CallTypes ==
  /\ platform \in Platforms /\ form \in {"result", "stream"}
  /\ platform = "reactNative" => form = "stream"
  /\ phase \in {"none", "pending", "running", "finished", "reported", "refused"}
  /\ asked \in BOOLEAN /\ early \in BOOLEAN
  /\ outcome \in {"ok", "cancelled", "failed"} /\ handle \in {"none", "live", "released"}
  /\ caller \in {"idle", "entry", "accepted", "waiting", "cancelling", "closing", "over"}
  /\ ctx \in {"none", "held", "freed", "misused"}
  /\ known \in BOOLEAN /\ listening \in BOOLEAN /\ wants \in BOOLEAN
  /\ ending \in {"open", "done", "error"}
  /\ told \in {"nothing", "value", "empty", "done", "error", "cancelled"}

\* Every step keeps their types.
LEMMA NextCallTypes == TypeOK /\ [Next]_vars => CallTypes'
<1> SUFFICES ASSUME TypeOK, [Next]_vars PROVE CallTypes'
  OBVIOUS
<1> USE DEF CallTypes
<1>t. CallTypes
  BY DEF TypeOK
<1>1. CASE Accept
  BY <1>1, <1>t DEF Accept, coreVars, streamVars, dartVars
<1>2. CASE Start
  BY <1>2, <1>t DEF Start, coreVars, streamVars, dartVars
<1>3. CASE Finish
  BY <1>3, <1>t DEF Finish, coreVars, streamVars, dartVars
<1>4. CASE CoreCancels
  BY <1>4, <1>t DEF CoreCancels, CancelJob, coreVars, streamVars, dartVars
<1>5. CASE Begins
  BY <1>5, <1>t DEF Begins, Begin, coreVars, streamVars, dartVars
<1>6. CASE Publish
  BY <1>6, <1>t DEF Publish, coreVars, streamVars, dartVars
<1>7. CASE AndroidRefused
  <2>1. listening' \in BOOLEAN
    BY <1>7 DEF AndroidRefused
  <2> QED BY <1>7, <1>t, <2>1 DEF AndroidRefused, CoreRefuses, Frees,
          coreVars, streamVars, dartVars
<1>8. CASE AppleRefused
  BY <1>8, <1>t DEF AppleRefused, CoreRefuses, Frees, coreVars, streamVars, dartVars
<1>9. CASE DartRefused
  <2>1. listening' \in BOOLEAN
    BY <1>9 DEF DartRefused
  <2> QED BY <1>9, <1>t, <2>1 DEF DartRefused, CoreRefuses, Frees,
          coreVars, streamVars, dartVars
<1>10. CASE AndroidOnEvent
  BY <1>10, <1>t DEF AndroidOnEvent, CoreEmits, AndroidDropped, Uses, coreVars, streamVars,
      dartVars
<1>11. CASE AppleOnEvent
  BY <1>11, <1>t DEF AppleOnEvent, CoreEmits, Uses, coreVars, streamVars, dartVars
<1>12. CASE DartOnEvent
  BY <1>12, <1>t DEF DartOnEvent, CoreEmits, Uses, coreVars, streamVars, dartVars
<1>13. CASE AndroidOnCompletion
  <2>1. listening' \in BOOLEAN
    BY <1>13 DEF AndroidOnCompletion
  <2> QED BY <1>13, <1>t, <2>1 DEF AndroidOnCompletion, CoreReports, AndroidCompletes, Frees,
          Resumed, EndOf, ValueOf,
          coreVars, streamVars, dartVars
<1>14. CASE AppleOnCompletion
  BY <1>14, <1>t DEF AppleOnCompletion, CoreReports, AppleReleases, Frees, AppleEndOf, ValueOf,
      coreVars, streamVars, dartVars
<1>15. CASE DartOnCompletion
  BY <1>15, <1>t DEF DartOnCompletion, CoreReports, Uses, coreVars, streamVars, dartVars
<1>16. CASE AndroidCancel
  BY <1>16, <1>t DEF AndroidCancel, coreVars, streamVars, dartVars
<1>17. CASE AwaitCancels
  BY <1>17, <1>t DEF AwaitCancels, CancelJob, coreVars, streamVars, dartVars
<1>18. CASE AwaitReturns
  BY <1>18, <1>t DEF AwaitReturns, coreVars, streamVars, dartVars
<1>19. CASE StreamCancels
  BY <1>19, <1>t DEF StreamCancels, CancelJob, coreVars, streamVars, dartVars
<1>20. CASE StreamCancelReturns
  BY <1>20, <1>t DEF StreamCancelReturns, coreVars, streamVars, dartVars
<1>21. CASE StreamUnregisters
  <2>1. listening' \in BOOLEAN
    BY <1>21 DEF StreamUnregisters
  <2> QED BY <1>21, <1>t, <2>1 DEF StreamUnregisters,
          coreVars, streamVars, dartVars
<1>22. CASE TaskCancelled
  BY <1>22, <1>t DEF TaskCancelled, CancelJob, coreVars, streamVars, dartVars
<1>23. CASE StreamTerminated
  BY <1>23, <1>t DEF StreamTerminated, CancelJob, coreVars, streamVars, dartVars
<1>24. CASE AppleReturns
  BY <1>24, <1>t DEF AppleReturns, coreVars, streamVars, dartVars
<1>25. CASE HandleEvent
  BY <1>25, <1>t DEF HandleEvent, Receives, coreVars, streamVars, dartVars
<1>26. CASE HandleCompletion
  BY <1>26, <1>t DEF HandleCompletion, Receives, FreedCopies, EndOf, ValueOf, Frees, coreVars,
      streamVars, dartVars
<1>27. CASE DartCancel
  BY <1>27, <1>t DEF DartCancel, CancelJob, coreVars, streamVars, dartVars
<1>28. CASE TokenCancels
  BY <1>28, <1>t DEF TokenCancels, CancelJob, coreVars, streamVars, dartVars
<1>29. CASE Take
  BY <1>29, <1>t DEF Take, coreVars, streamVars, dartVars
<1>30. CASE SeeEnd
  BY <1>30, <1>t DEF SeeEnd, coreVars, streamVars, dartVars
<1>31. CASE UNCHANGED callVars
  BY <1>31, <1>t DEF callVars, coreVars, streamVars, dartVars
<1> QED BY <1>1, <1>2, <1>3, <1>4, <1>5, <1>6, <1>7, <1>8, <1>9, <1>10, <1>11, <1>12, <1>13,
    <1>14, <1>15, <1>16, <1>17, <1>18, <1>19, <1>20, <1>21, <1>22, <1>23, <1>24, <1>25, <1>26,
    <1>27, <1>28, <1>29, <1>30, <1>31, CallCases
-----------------------------------------------------------------------------
(* The deltas on their way to the reader.                                  *)

\* Most steps leave the deltas alone.
LEMMA StreamCases ==
  ASSUME [Next]_vars
  PROVE  \/ UNCHANGED <<platform, heard, buffer, mail, emitted>>
         \/ buffer' = <<>> /\ UNCHANGED <<platform, heard, mail, emitted>>
         \/ AndroidOnEvent \/ AppleOnEvent \/ DartOnEvent
         \/ DartOnCompletion \/ HandleEvent \/ HandleCompletion \/ Take
<1>1. CASE Accept
  BY <1>1 DEF Accept, coreVars, streamVars, dartVars, callVars
<1>2. CASE Start
  BY <1>2 DEF Start, coreVars, streamVars, dartVars, callVars
<1>3. CASE Finish
  BY <1>3 DEF Finish, coreVars, streamVars, dartVars, callVars
<1>4. CASE CoreCancels
  BY <1>4 DEF CoreCancels, CancelJob, coreVars, streamVars, dartVars, callVars
<1>5. CASE Begins
  BY <1>5 DEF Begins, Begin, coreVars, streamVars, dartVars, callVars
<1>6. CASE Publish
  BY <1>6 DEF Publish, coreVars, streamVars, dartVars, callVars
<1>7. CASE AndroidRefused
  BY <1>7 DEF AndroidRefused, CoreRefuses, coreVars, streamVars, dartVars, callVars
<1>8. CASE AppleRefused
  BY <1>8 DEF AppleRefused, CoreRefuses, coreVars, streamVars, dartVars, callVars
<1>9. CASE DartRefused
  BY <1>9 DEF DartRefused, CoreRefuses, coreVars, streamVars, dartVars, callVars
<1>10. CASE AndroidOnCompletion
  BY <1>10 DEF AndroidOnCompletion, CoreReports, AndroidCompletes, coreVars, streamVars,
      dartVars, callVars
<1>11. CASE AppleOnCompletion
  BY <1>11 DEF AppleOnCompletion, CoreReports, AppleReleases, coreVars, streamVars, dartVars,
      callVars
<1>12. CASE AndroidCancel
  BY <1>12 DEF AndroidCancel, coreVars, streamVars, dartVars, callVars
<1>13. CASE AwaitCancels
  BY <1>13 DEF AwaitCancels, CancelJob, coreVars, streamVars, dartVars, callVars
<1>14. CASE AwaitReturns
  BY <1>14 DEF AwaitReturns, coreVars, streamVars, dartVars, callVars
<1>15. CASE StreamCancels
  BY <1>15 DEF StreamCancels, CancelJob, coreVars, streamVars, dartVars, callVars
<1>16. CASE StreamCancelReturns
  BY <1>16 DEF StreamCancelReturns, coreVars, streamVars, dartVars, callVars
<1>17. CASE StreamUnregisters
  BY <1>17 DEF StreamUnregisters, coreVars, streamVars, dartVars, callVars
<1>18. CASE TaskCancelled
  BY <1>18 DEF TaskCancelled, CancelJob, coreVars, streamVars, dartVars, callVars
<1>19. CASE StreamTerminated
  BY <1>19 DEF StreamTerminated, CancelJob, coreVars, streamVars, dartVars, callVars
<1>20. CASE AppleReturns
  BY <1>20 DEF AppleReturns, coreVars, streamVars, dartVars, callVars
<1>21. CASE DartCancel
  BY <1>21 DEF DartCancel, CancelJob, coreVars, streamVars, dartVars, callVars
<1>22. CASE TokenCancels
  BY <1>22 DEF TokenCancels, CancelJob, coreVars, streamVars, dartVars, callVars
<1>23. CASE SeeEnd
  BY <1>23 DEF SeeEnd, coreVars, streamVars, dartVars, callVars
<1>24. CASE UNCHANGED callVars
  BY <1>24 DEF callVars, coreVars, streamVars, dartVars
<1> QED BY <1>1, <1>2, <1>3, <1>4, <1>5, <1>6, <1>7, <1>8, <1>9, <1>10, <1>11, <1>12, <1>13,
    <1>14, <1>15, <1>16, <1>17, <1>18, <1>19, <1>20, <1>21, <1>22, <1>23, <1>24, CallCases

\* The first of a nonempty sequence and the rest.
LEMMA SeqTypes ==
  ASSUME NEW S, NEW s \in Seq(S)
  PROVE  /\ <<>> \in Seq(S)
         /\ \A e \in S : Append(s, e) \in Seq(S)
         /\ s # <<>> => Head(s) \in S /\ Tail(s) \in Seq(S)
<1>1. s # <<>> => Head(s) \in S /\ Tail(s) \in Seq(S)
  BY HeadTailProperties
<1> QED BY <1>1, EmptySeq, AppendProperties

StreamTypes ==
  /\ emitted \in 0..MaxDeltas /\ mail \in Seq(1..Completion)
  /\ buffer \in Seq(1..MaxDeltas) /\ heard \in Seq(1..MaxDeltas)

\* Every step keeps the types of the sequences.
LEMMA NextStreamTypes == TypeOK /\ [Next]_vars => StreamTypes'
<1> SUFFICES ASSUME TypeOK, [Next]_vars PROVE StreamTypes'
  OBVIOUS
<1>t. StreamTypes
  BY DEF TypeOK, StreamTypes
<1>n. MaxDeltas \in Nat /\ Completion = MaxDeltas + 1
  BY BridgeAssumption DEF Completion
<1>e. emitted < MaxDeltas => emitted + 1 \in 0..MaxDeltas /\ emitted + 1 \in 1..MaxDeltas
                             /\ emitted + 1 \in 1..Completion
  BY <1>t, <1>n DEF StreamTypes
<1>c. Completion \in 1..Completion /\ \A e \in 1..Completion : e # Completion => e \in 1..MaxDeltas
  BY <1>n
<1>1. CASE UNCHANGED <<platform, heard, buffer, mail, emitted>>
  BY <1>1, <1>t DEF StreamTypes
<1>2. CASE buffer' = <<>> /\ UNCHANGED <<platform, heard, mail, emitted>>
  BY <1>2, <1>t, SeqTypes DEF StreamTypes
<1>3. CASE AndroidOnEvent
  <2>1. /\ emitted < MaxDeltas /\ emitted' = emitted + 1 /\ UNCHANGED <<heard, mail>>
        /\ buffer' = buffer \/ buffer' = Append(buffer, emitted + 1)
    BY <1>3 DEF AndroidOnEvent, CoreEmits, dartVars
  <2> QED BY <2>1, <1>t, <1>e, SeqTypes DEF StreamTypes
<1>4. CASE AppleOnEvent
  <2>1. /\ emitted < MaxDeltas /\ emitted' = emitted + 1 /\ UNCHANGED <<heard, mail>>
        /\ buffer' = buffer \/ buffer' = Append(buffer, emitted + 1)
    BY <1>4 DEF AppleOnEvent, CoreEmits, dartVars
  <2> QED BY <2>1, <1>t, <1>e, SeqTypes DEF StreamTypes
<1>5. CASE DartOnEvent
  <2>1. /\ emitted < MaxDeltas /\ emitted' = emitted + 1 /\ UNCHANGED <<heard, buffer>>
        /\ mail' = Append(mail, emitted + 1)
    BY <1>5 DEF DartOnEvent, CoreEmits, streamVars
  <2> QED BY <2>1, <1>t, <1>e, SeqTypes DEF StreamTypes
<1>6. CASE DartOnCompletion
  <2>1. UNCHANGED <<heard, buffer, emitted>> /\ mail' = Append(mail, Completion)
    BY <1>6 DEF DartOnCompletion, CoreReports, streamVars
  <2> QED BY <2>1, <1>t, <1>c, SeqTypes DEF StreamTypes
<1>7. CASE HandleEvent
  <2>1. /\ UNCHANGED <<heard, emitted>> /\ mail # <<>> /\ mail' = Tail(mail)
        /\ Head(mail) # Completion
        /\ buffer' = buffer \/ buffer' = Append(buffer, Head(mail))
    BY <1>7 DEF HandleEvent, Receives, coreVars
  <2> QED BY <2>1, <1>t, <1>c, SeqTypes DEF StreamTypes
<1>8. CASE HandleCompletion
  <2>1. UNCHANGED <<heard, buffer, emitted>> /\ mail # <<>> /\ mail' = Tail(mail)
    BY <1>8 DEF HandleCompletion, Receives
  <2> QED BY <2>1, <1>t, SeqTypes DEF StreamTypes
<1>9. CASE Take
  <2>1. /\ UNCHANGED <<mail, emitted>> /\ buffer # <<>> /\ buffer' = Tail(buffer)
        /\ heard' = Append(heard, Head(buffer))
    BY <1>9 DEF Take, dartVars, coreVars
  <2> QED BY <2>1, <1>t, SeqTypes DEF StreamTypes
<1> QED BY <1>1, <1>2, <1>3, <1>4, <1>5, <1>6, <1>7, <1>8, <1>9, StreamCases
-----------------------------------------------------------------------------
(* The context and the handle.                                             *)

\* The message of the completion is the last one.
LEMMA CompletionIsLast ==
  ASSUME Inv, mail # <<>>, Head(mail) = Completion
  PROVE  Posted /\ Len(mail) = 1 /\ Tail(mail) = <<>>
<1>1. mail \in Seq(Nat) /\ Len(mail) \in Nat /\ 1 \in 1..Len(mail) /\ mail[1] = Completion
      /\ Len(mail) \in 1..Len(mail)
  <2>1. mail \in Seq(1..Completion) /\ 1..Completion \subseteq Nat
    BY DEF Inv, TypeOK
  <2>2. mail \in Seq(Nat) /\ Len(mail) \in Nat /\ Len(mail) # 0
    BY <2>1, SeqMonotonic, EmptySeq, LenProperties
  <2> QED BY <2>2
<1>2. emitted < Completion
  BY BridgeAssumption DEF Inv, TypeOK, Completion
<1>3. Posted
  <2>1. mail[1] <= emitted \/ Posted
    BY <1>1 DEF Inv, MailInv
  <2>2. emitted \in Nat /\ Completion \in Nat
    BY BridgeAssumption DEF Inv, TypeOK, Completion
  <2> QED BY <1>1, <1>2, <2>1, <2>2
<1>4. mail[Len(mail)] = Completion
  BY <1>3 DEF Inv, MailInv
<1>5. Completion \in Nat
  BY BridgeAssumption DEF Completion
<1>6. Len(mail) = 1
  <2>1. 1 < Len(mail) => mail[1] < mail[Len(mail)]
    BY <1>1 DEF Inv, OrderInv, Ascending
  <2>2. ~(Completion < Completion)
    BY <1>5
  <2>3. ~(1 < Len(mail))
    BY <1>1, <1>4, <2>1, <2>2
  <2>4. \A k \in Nat : 1 \in 1..k /\ ~(1 < k) => k = 1
    OBVIOUS
  <2> QED BY <1>1, <2>3, <2>4
<1>7. Tail(mail) = <<>>
  <2>1. Tail(mail) \in Seq(Nat) /\ Len(Tail(mail)) = 0
    BY <1>1, <1>6, HeadTailProperties
  <2> QED BY <2>1, EmptySeq
<1> QED BY <1>3, <1>6, <1>7

\* Whoever ends the call frees its context, and nobody uses or frees it after that.
LEMMA NextContext == Inv /\ [Next]_vars => ContextInv'
<1> SUFFICES ASSUME Inv, [Next]_vars PROVE ContextInv'
  OBVIOUS
<1> USE DEF ContextInv, CallTypes, Over, OnAndroid, OnApple, OnDart
<1>t. CallTypes /\ ContextInv
  BY DEF Inv, TypeOK
<1>p. mail # <<>> /\ Head(mail) = Completion => phase = "reported"
  BY CompletionIsLast DEF Posted
<1>1. CASE Accept
  BY <1>1, <1>t DEF Accept, coreVars, streamVars, dartVars
<1>2. CASE Start
  BY <1>2, <1>t DEF Start, coreVars, streamVars, dartVars
<1>3. CASE Finish
  BY <1>3, <1>t DEF Finish, coreVars, streamVars, dartVars
<1>4. CASE CoreCancels
  BY <1>4, <1>t DEF CoreCancels, CancelJob, coreVars, streamVars, dartVars
<1>5. CASE Begins
  BY <1>5, <1>t DEF Begins, Begin, coreVars, streamVars, dartVars
<1>6. CASE Publish
  BY <1>6, <1>t DEF Publish, coreVars, streamVars, dartVars
<1>7. CASE AndroidRefused
  BY <1>7, <1>t DEF AndroidRefused, CoreRefuses, Frees, coreVars, streamVars, dartVars
<1>8. CASE AppleRefused
  BY <1>8, <1>t DEF AppleRefused, CoreRefuses, Frees, coreVars, streamVars, dartVars
<1>9. CASE DartRefused
  BY <1>9, <1>t DEF DartRefused, CoreRefuses, Frees, coreVars, streamVars, dartVars
<1>10. CASE AndroidOnEvent
  BY <1>10, <1>t DEF AndroidOnEvent, CoreEmits, AndroidDropped, Uses, coreVars, streamVars,
      dartVars
<1>11. CASE AppleOnEvent
  BY <1>11, <1>t DEF AppleOnEvent, CoreEmits, Uses, coreVars, streamVars, dartVars
<1>12. CASE DartOnEvent
  BY <1>12, <1>t DEF DartOnEvent, CoreEmits, Uses, coreVars, streamVars, dartVars
<1>13. CASE AndroidOnCompletion
  BY <1>13, <1>t DEF AndroidOnCompletion, CoreReports, AndroidCompletes, Frees, Resumed, EndOf,
      ValueOf, coreVars, streamVars, dartVars
<1>14. CASE AppleOnCompletion
  BY <1>14, <1>t DEF AppleOnCompletion, CoreReports, AppleReleases, Frees, AppleEndOf, ValueOf,
      coreVars, streamVars, dartVars
<1>15. CASE DartOnCompletion
  BY <1>15, <1>t DEF DartOnCompletion, CoreReports, Uses, coreVars, streamVars, dartVars
<1>16. CASE AndroidCancel
  BY <1>16, <1>t DEF AndroidCancel, coreVars, streamVars, dartVars
<1>17. CASE AwaitCancels
  BY <1>17, <1>t DEF AwaitCancels, CancelJob, coreVars, streamVars, dartVars
<1>18. CASE AwaitReturns
  BY <1>18, <1>t DEF AwaitReturns, coreVars, streamVars, dartVars
<1>19. CASE StreamCancels
  BY <1>19, <1>t DEF StreamCancels, CancelJob, coreVars, streamVars, dartVars
<1>20. CASE StreamCancelReturns
  BY <1>20, <1>t DEF StreamCancelReturns, coreVars, streamVars, dartVars
<1>21. CASE StreamUnregisters
  BY <1>21, <1>t DEF StreamUnregisters, coreVars, streamVars, dartVars
<1>22. CASE TaskCancelled
  BY <1>22, <1>t DEF TaskCancelled, CancelJob, coreVars, streamVars, dartVars
<1>23. CASE StreamTerminated
  BY <1>23, <1>t DEF StreamTerminated, CancelJob, coreVars, streamVars, dartVars
<1>24. CASE AppleReturns
  BY <1>24, <1>t DEF AppleReturns, coreVars, streamVars, dartVars
<1>25. CASE HandleEvent
  BY <1>25, <1>t DEF HandleEvent, Receives, coreVars, streamVars, dartVars
<1>26. CASE HandleCompletion
  BY <1>26, <1>t, <1>p DEF HandleCompletion, Receives, Frees, EndOf
<1>27. CASE DartCancel
  BY <1>27, <1>t DEF DartCancel, CancelJob, coreVars, streamVars, dartVars
<1>28. CASE TokenCancels
  BY <1>28, <1>t DEF TokenCancels, CancelJob, coreVars, streamVars, dartVars
<1>29. CASE Take
  BY <1>29, <1>t DEF Take, coreVars, streamVars, dartVars
<1>30. CASE SeeEnd
  BY <1>30, <1>t DEF SeeEnd, coreVars, streamVars, dartVars
<1>31. CASE UNCHANGED callVars
  BY <1>31, <1>t DEF callVars, coreVars, streamVars, dartVars
<1> QED BY <1>1, <1>2, <1>3, <1>4, <1>5, <1>6, <1>7, <1>8, <1>9, <1>10, <1>11, <1>12, <1>13,
    <1>14, <1>15, <1>16, <1>17, <1>18, <1>19, <1>20, <1>21, <1>22, <1>23, <1>24, <1>25, <1>26,
    <1>27, <1>28, <1>29, <1>30, <1>31, CallCases
\* The handle is known and its listener there when the job is reported, or the call is one of
\* the exceptions.
LEMMA NextHandle == Inv /\ [Next]_vars => HandleInv'
<1> SUFFICES ASSUME Inv, [Next]_vars PROVE HandleInv'
  OBVIOUS
<1> USE DEF HandleInv, ContextInv, CallTypes, Over, Abandoned, OnAndroid, OnApple, OnDart
<1>t. CallTypes /\ ContextInv /\ HandleInv /\ (ending # "open" => wants \/ Over)
  BY DEF Inv, TypeOK, EndInv
<1>p. mail # <<>> /\ Head(mail) = Completion => phase = "reported"
  BY CompletionIsLast DEF Posted
<1>1. CASE Accept
  BY <1>1, <1>t DEF Accept, coreVars, streamVars, dartVars
<1>2. CASE Start
  BY <1>2, <1>t DEF Start, coreVars, streamVars, dartVars
<1>3. CASE Finish
  BY <1>3, <1>t DEF Finish, coreVars, streamVars, dartVars
<1>4. CASE CoreCancels
  BY <1>4, <1>t DEF CoreCancels, CancelJob, coreVars, streamVars, dartVars
<1>5. CASE Begins
  BY <1>5, <1>t DEF Begins, Begin, coreVars, streamVars, dartVars
<1>6. CASE Publish
  BY <1>6, <1>t DEF Publish, coreVars, streamVars, dartVars
<1>7. CASE AndroidRefused
  BY <1>7, <1>t DEF AndroidRefused, CoreRefuses, Frees, coreVars, streamVars, dartVars
<1>8. CASE AppleRefused
  BY <1>8, <1>t DEF AppleRefused, CoreRefuses, Frees, coreVars, streamVars, dartVars
<1>9. CASE DartRefused
  BY <1>9, <1>t DEF DartRefused, CoreRefuses, Frees, coreVars, streamVars, dartVars
<1>10. CASE AndroidOnEvent
  BY <1>10, <1>t DEF AndroidOnEvent, CoreEmits, AndroidDropped, Uses, coreVars, streamVars,
      dartVars
<1>11. CASE AppleOnEvent
  BY <1>11, <1>t DEF AppleOnEvent, CoreEmits, Uses, coreVars, streamVars, dartVars
<1>12. CASE DartOnEvent
  BY <1>12, <1>t DEF DartOnEvent, CoreEmits, Uses, coreVars, streamVars, dartVars
<1>13. CASE AndroidOnCompletion
  BY <1>13, <1>t DEF AndroidOnCompletion, CoreReports, AndroidCompletes, Frees, Resumed, EndOf,
      ValueOf, coreVars, streamVars, dartVars
<1>14. CASE AppleOnCompletion
  BY <1>14, <1>t DEF AppleOnCompletion, CoreReports, AppleReleases, Frees, AppleEndOf, ValueOf,
      coreVars, streamVars, dartVars
<1>15. CASE DartOnCompletion
  BY <1>15, <1>t DEF DartOnCompletion, CoreReports, Uses, coreVars, streamVars, dartVars
<1>16. CASE AndroidCancel
  BY <1>16, <1>t DEF AndroidCancel, coreVars, streamVars, dartVars
<1>17. CASE AwaitCancels
  BY <1>17, <1>t DEF AwaitCancels, CancelJob, coreVars, streamVars, dartVars
<1>18. CASE AwaitReturns
  BY <1>18, <1>t DEF AwaitReturns, coreVars, streamVars, dartVars
<1>19. CASE StreamCancels
  BY <1>19, <1>t DEF StreamCancels, CancelJob, coreVars, streamVars, dartVars
<1>20. CASE StreamCancelReturns
  BY <1>20, <1>t DEF StreamCancelReturns, coreVars, streamVars, dartVars
<1>21. CASE StreamUnregisters
  BY <1>21, <1>t DEF StreamUnregisters, coreVars, streamVars, dartVars
<1>22. CASE TaskCancelled
  BY <1>22, <1>t DEF TaskCancelled, CancelJob, coreVars, streamVars, dartVars
<1>23. CASE StreamTerminated
  BY <1>23, <1>t DEF StreamTerminated, CancelJob, coreVars, streamVars, dartVars
<1>24. CASE AppleReturns
  BY <1>24, <1>t DEF AppleReturns, coreVars, streamVars, dartVars
<1>25. CASE HandleEvent
  BY <1>25, <1>t DEF HandleEvent, Receives, coreVars, streamVars, dartVars
<1>26. CASE HandleCompletion
  BY <1>26, <1>t, <1>p DEF HandleCompletion, Receives
<1>27. CASE DartCancel
  BY <1>27, <1>t DEF DartCancel, CancelJob, coreVars, streamVars, dartVars
<1>28. CASE TokenCancels
  BY <1>28, <1>t DEF TokenCancels, CancelJob, coreVars, streamVars, dartVars
<1>29. CASE Take
  BY <1>29, <1>t DEF Take, coreVars, streamVars, dartVars
<1>30. CASE SeeEnd
  BY <1>30, <1>t DEF SeeEnd, coreVars, streamVars, dartVars
<1>31. CASE UNCHANGED callVars
  BY <1>31, <1>t DEF callVars, coreVars, streamVars, dartVars
<1> QED BY <1>1, <1>2, <1>3, <1>4, <1>5, <1>6, <1>7, <1>8, <1>9, <1>10, <1>11, <1>12, <1>13,
    <1>14, <1>15, <1>16, <1>17, <1>18, <1>19, <1>20, <1>21, <1>22, <1>23, <1>24, <1>25, <1>26,
    <1>27, <1>28, <1>29, <1>30, <1>31, CallCases

\* Before the first delta there is none anywhere.
LEMMA NothingYet ==
  ASSUME Inv, phase \in {"none", "pending", "refused"}
  PROVE  heard = <<>> /\ buffer = <<>> /\ mail = <<>>
<1>1. /\ emitted = 0 /\ ~Posted /\ UpTo(heard, 0) /\ UpTo(buffer, 0)
      /\ \A i \in 1..Len(mail) : mail[i] <= 0
  BY DEF Inv, MailInv, OrderInv, Posted
<1>2. ASSUME NEW n \in Nat, NEW s \in Seq(1..n), \A i \in 1..Len(s) : s[i] <= 0 PROVE s = <<>>
  <2>1. SUFFICES ASSUME s # <<>> PROVE FALSE
    OBVIOUS
  <2>2. 1 \in 1..Len(s) /\ s[1] \in 1..n
    BY <2>1, EmptySeq, LenProperties, ElementOfSeq
  <2> QED BY <2>2, <1>2
<1>3. heard \in Seq(1..MaxDeltas) /\ buffer \in Seq(1..MaxDeltas) /\ mail \in Seq(1..Completion)
  BY DEF Inv, TypeOK
<1>4. MaxDeltas \in Nat /\ Completion \in Nat
  BY BridgeAssumption DEF Completion
<1> QED BY <1>1, <1>2, <1>3, <1>4 DEF UpTo

\* A stream ends after its job or its reader, and its end is seen after its deltas.
LEMMA NextEnd == Inv /\ [Next]_vars => EndInv'
<1> SUFFICES ASSUME Inv, [Next]_vars PROVE EndInv'
  OBVIOUS
<1> USE DEF EndInv, ContextInv, CallTypes, Over, OnAndroid, OnApple, OnDart
<1>t. CallTypes /\ ContextInv /\ EndInv
  BY DEF Inv, TypeOK
<1>p. mail # <<>> /\ Head(mail) = Completion => phase = "reported"
  BY CompletionIsLast DEF Posted
<1>q. phase = "none" => buffer = <<>>
  BY NothingYet
<1>1. CASE Accept
  BY <1>1, <1>t DEF Accept, coreVars, streamVars, dartVars
<1>2. CASE Start
  BY <1>2, <1>t DEF Start, coreVars, streamVars, dartVars
<1>3. CASE Finish
  BY <1>3, <1>t DEF Finish, coreVars, streamVars, dartVars
<1>4. CASE CoreCancels
  BY <1>4, <1>t DEF CoreCancels, CancelJob, coreVars, streamVars, dartVars
<1>5. CASE Begins
  BY <1>5, <1>t DEF Begins, Begin, coreVars, streamVars, dartVars
<1>6. CASE Publish
  BY <1>6, <1>t DEF Publish, coreVars, streamVars, dartVars
<1>7. CASE AndroidRefused
  BY <1>7, <1>t, <1>q DEF AndroidRefused, CoreRefuses, Frees
<1>8. CASE AppleRefused
  BY <1>8, <1>t DEF AppleRefused, CoreRefuses, Frees, coreVars, streamVars, dartVars
<1>9. CASE DartRefused
  BY <1>9, <1>t, <1>q DEF DartRefused, CoreRefuses, streamVars
<1>10. CASE AndroidOnEvent
  BY <1>10, <1>t DEF AndroidOnEvent, CoreEmits, AndroidDropped, Uses, coreVars, streamVars,
      dartVars
<1>11. CASE AppleOnEvent
  BY <1>11, <1>t DEF AppleOnEvent, CoreEmits, Uses, coreVars, streamVars, dartVars
<1>12. CASE DartOnEvent
  BY <1>12, <1>t DEF DartOnEvent, CoreEmits, Uses, coreVars, streamVars, dartVars
<1>13. CASE AndroidOnCompletion
  BY <1>13, <1>t DEF AndroidOnCompletion, CoreReports, AndroidCompletes, Frees, Resumed, EndOf,
      ValueOf, coreVars, streamVars, dartVars
<1>14. CASE AppleOnCompletion
  BY <1>14, <1>t DEF AppleOnCompletion, CoreReports, AppleReleases, Frees, AppleEndOf, ValueOf,
      coreVars, streamVars, dartVars
<1>15. CASE DartOnCompletion
  BY <1>15, <1>t DEF DartOnCompletion, CoreReports, Uses, coreVars, streamVars, dartVars
<1>16. CASE AndroidCancel
  BY <1>16, <1>t DEF AndroidCancel, coreVars, streamVars, dartVars
<1>17. CASE AwaitCancels
  BY <1>17, <1>t DEF AwaitCancels, CancelJob, coreVars, streamVars, dartVars
<1>18. CASE AwaitReturns
  BY <1>18, <1>t DEF AwaitReturns, coreVars, streamVars, dartVars
<1>19. CASE StreamCancels
  BY <1>19, <1>t DEF StreamCancels, CancelJob, coreVars, streamVars, dartVars
<1>20. CASE StreamCancelReturns
  BY <1>20, <1>t DEF StreamCancelReturns, coreVars, streamVars, dartVars
<1>21. CASE StreamUnregisters
  BY <1>21, <1>t DEF StreamUnregisters, coreVars, streamVars, dartVars
<1>22. CASE TaskCancelled
  BY <1>22, <1>t DEF TaskCancelled, CancelJob, coreVars, streamVars, dartVars
<1>23. CASE StreamTerminated
  BY <1>23, <1>t DEF StreamTerminated, CancelJob, coreVars, streamVars, dartVars
<1>24. CASE AppleReturns
  BY <1>24, <1>t DEF AppleReturns, coreVars, streamVars, dartVars
<1>25. CASE HandleEvent
  BY <1>25, <1>t DEF HandleEvent, Receives, coreVars, streamVars, dartVars
<1>26. CASE HandleCompletion
  BY <1>26, <1>t, <1>p DEF HandleCompletion, Receives, EndOf, ValueOf
<1>27. CASE DartCancel
  BY <1>27, <1>t DEF DartCancel, CancelJob, coreVars, streamVars, dartVars
<1>28. CASE TokenCancels
  BY <1>28, <1>t DEF TokenCancels, CancelJob, coreVars, streamVars, dartVars
<1>29. CASE Take
  BY <1>29, <1>t DEF Take, coreVars, streamVars, dartVars
<1>30. CASE SeeEnd
  BY <1>30, <1>t DEF SeeEnd, coreVars, streamVars, dartVars
<1>31. CASE UNCHANGED callVars
  BY <1>31, <1>t DEF callVars, coreVars, streamVars, dartVars
<1> QED BY <1>1, <1>2, <1>3, <1>4, <1>5, <1>6, <1>7, <1>8, <1>9, <1>10, <1>11, <1>12, <1>13,
    <1>14, <1>15, <1>16, <1>17, <1>18, <1>19, <1>20, <1>21, <1>22, <1>23, <1>24, <1>25, <1>26,
    <1>27, <1>28, <1>29, <1>30, <1>31, CallCases
-----------------------------------------------------------------------------
(* The messages to the isolate.                                            *)

\* The completion is posted once, last, and every message has its copy.
LEMMA NextMail == Inv /\ [Next]_vars => MailInv'
<1> SUFFICES ASSUME Inv, [Next]_vars PROVE MailInv'
  OBVIOUS
<1> USE DEF MailInv, ContextInv, CallTypes, Posted, OnAndroid, OnApple, OnDart
<1>t. CallTypes /\ ContextInv /\ MailInv
  BY DEF Inv, TypeOK
<1>n. Len(<<>>) = 0 /\ \A i \in 1..0 : FALSE
  BY EmptySeq
<1>q. phase = "none" => mail = <<>>
  BY NothingYet
<1>m. mail \in Seq(Nat) /\ Len(mail) \in Nat /\ Completion \in Nat /\ emitted \in Nat
  <2>1. mail \in Seq(1..Completion) /\ 1..Completion \subseteq Nat /\ emitted \in Nat
        /\ Completion \in Nat
    BY BridgeAssumption DEF Inv, TypeOK, Completion
  <2> QED BY <2>1, SeqMonotonic, LenProperties
<1>e. \A i \in 1..Len(mail) : mail[i] \in Nat
  BY <1>m, ElementOfSeq
<1>1. CASE Accept
  BY <1>1, <1>t DEF Accept, coreVars, streamVars, dartVars
<1>2. CASE Start
  BY <1>2, <1>t DEF Start, coreVars, streamVars, dartVars
<1>3. CASE Finish
  BY <1>3, <1>t DEF Finish, coreVars, streamVars, dartVars
<1>4. CASE CoreCancels
  BY <1>4, <1>t DEF CoreCancels, CancelJob, coreVars, streamVars, dartVars
<1>5. CASE Begins
  BY <1>5, <1>t DEF Begins, Begin, coreVars, streamVars, dartVars
<1>6. CASE Publish
  BY <1>6, <1>t DEF Publish, coreVars, streamVars, dartVars
<1>7. CASE AndroidRefused
  BY <1>7, <1>t DEF AndroidRefused, CoreRefuses, Frees, coreVars, streamVars, dartVars
<1>8. CASE AppleRefused
  BY <1>8, <1>t DEF AppleRefused, CoreRefuses, Frees, coreVars, streamVars, dartVars
<1>9. CASE DartRefused
  BY <1>9, <1>t, <1>q, <1>n DEF DartRefused, CoreRefuses, dartVars
<1>10. CASE AndroidOnEvent
  <2>1. /\ ~OnDart /\ phase = "running" /\ phase' = "running" /\ emitted' = emitted + 1
        /\ UNCHANGED <<platform, caller, mail, copies, outcome>>
    BY <1>10 DEF AndroidOnEvent, CoreEmits, dartVars
  <2> QED BY <2>1, <1>t, <1>n
<1>11. CASE AppleOnEvent
  <2>1. /\ ~OnDart /\ phase = "running" /\ phase' = "running" /\ emitted' = emitted + 1
        /\ UNCHANGED <<platform, caller, mail, copies, outcome>>
    BY <1>11 DEF AppleOnEvent, CoreEmits, dartVars
  <2> QED BY <2>1, <1>t, <1>n
<1>12. CASE DartOnEvent
  <2>1. /\ OnDart /\ phase = "running" /\ phase' = "running" /\ emitted' = emitted + 1
        /\ mail' = Append(mail, emitted + 1) /\ copies' = copies + 1
        /\ UNCHANGED <<platform, caller, outcome>>
    BY <1>12 DEF DartOnEvent, CoreEmits
  <2>2. /\ Len(mail') = Len(mail) + 1 /\ mail'[Len(mail) + 1] = emitted + 1
        /\ \A i \in 1..Len(mail) : mail'[i] = mail[i]
    BY <2>1, <1>m, AppendProperties
  <2>3. ASSUME NEW i \in 1..Len(mail') PROVE mail'[i] <= emitted + 1
    <3>1. CASE i \in 1..Len(mail)
      BY <3>1, <2>1, <2>2, <1>t, <1>e, <1>m
    <3>2. CASE i = Len(mail) + 1
      BY <3>2, <2>2, <1>m
    <3> QED BY <3>1, <3>2, <2>2, <1>m
  <2>4. copies' = Len(mail')
    BY <2>1, <2>2, <1>t
  <2> QED BY <2>1, <2>3, <2>4, <1>t
<1>13. CASE AndroidOnCompletion
  BY <1>13, <1>t DEF AndroidOnCompletion, CoreReports, AndroidCompletes, Frees, Resumed, EndOf,
      ValueOf, coreVars, streamVars, dartVars
<1>14. CASE AppleOnCompletion
  BY <1>14, <1>t DEF AppleOnCompletion, CoreReports, AppleReleases, Frees, AppleEndOf, ValueOf,
      coreVars, streamVars, dartVars
<1>15. CASE DartOnCompletion
  <2>1. /\ OnDart /\ phase = "finished" /\ phase' = "reported" /\ emitted' = emitted
        /\ mail' = Append(mail, Completion)
        /\ copies' = IF outcome = "ok" THEN copies ELSE copies + 1
        /\ UNCHANGED <<platform, caller, outcome>>
    BY <1>15 DEF DartOnCompletion, CoreReports
  <2>2. /\ Len(mail') = Len(mail) + 1 /\ mail'[Len(mail) + 1] = Completion /\ mail' # <<>>
        /\ \A i \in 1..Len(mail) : mail'[i] = mail[i]
    BY <2>1, <1>m, AppendProperties
  <2>3. Posted' /\ copies = Len(mail)
    BY <2>1, <1>t
  <2>4. ASSUME NEW i \in 1..Len(mail') PROVE mail'[i] <= emitted \/ mail'[i] = Completion
    <3>1. CASE i \in 1..Len(mail)
      BY <3>1, <2>1, <2>2, <1>t
    <3>2. CASE i = Len(mail) + 1
      BY <3>2, <2>2
    <3> QED BY <3>1, <3>2, <2>2, <1>m
  <2>5. copies' = IF outcome = "ok" THEN Len(mail') - 1 ELSE Len(mail')
    BY <2>1, <2>2, <2>3, <1>m
  <2> QED BY <2>1, <2>2, <2>3, <2>4, <2>5, <1>t
<1>16. CASE AndroidCancel
  BY <1>16, <1>t DEF AndroidCancel, coreVars, streamVars, dartVars
<1>17. CASE AwaitCancels
  BY <1>17, <1>t DEF AwaitCancels, CancelJob, coreVars, streamVars, dartVars
<1>18. CASE AwaitReturns
  BY <1>18, <1>t DEF AwaitReturns, coreVars, streamVars, dartVars
<1>19. CASE StreamCancels
  BY <1>19, <1>t DEF StreamCancels, CancelJob, coreVars, streamVars, dartVars
<1>20. CASE StreamCancelReturns
  BY <1>20, <1>t DEF StreamCancelReturns, coreVars, streamVars, dartVars
<1>21. CASE StreamUnregisters
  BY <1>21, <1>t DEF StreamUnregisters, coreVars, streamVars, dartVars
<1>22. CASE TaskCancelled
  BY <1>22, <1>t DEF TaskCancelled, CancelJob, coreVars, streamVars, dartVars
<1>23. CASE StreamTerminated
  BY <1>23, <1>t DEF StreamTerminated, CancelJob, coreVars, streamVars, dartVars
<1>24. CASE AppleReturns
  BY <1>24, <1>t DEF AppleReturns, coreVars, streamVars, dartVars
<1>25. CASE HandleEvent
  <2>1. /\ OnDart /\ caller = "waiting" /\ mail # <<>> /\ Head(mail) # Completion
        /\ mail' = Tail(mail) /\ copies' = copies - 1
        /\ UNCHANGED <<platform, caller, phase, emitted, outcome>>
    BY <1>25 DEF HandleEvent, Receives, coreVars
  <2>2. /\ Len(mail') = Len(mail) - 1 /\ \A i \in 1..Len(mail') : mail'[i] = mail[i + 1]
        /\ mail' \in Seq(Nat) /\ Len(mail') \in Nat
    BY <2>1, <1>m, HeadTailProperties, LenProperties
  <2>3. ASSUME NEW i \in 1..Len(mail')
        PROVE  mail'[i] <= emitted \/ (Posted /\ mail'[i] = Completion)
    <3>1. i + 1 \in 1..Len(mail)
      BY <2>2, <1>m
    <3> QED BY <3>1, <2>2, <1>t
  <2>4. ASSUME Posted PROVE mail' # <<>> /\ mail'[Len(mail')] = Completion
    <3>1. Len(mail) # 1
      BY <2>1, <2>4, <1>t
    <3>2. Len(mail') \in 1..Len(mail') /\ Len(mail') + 1 = Len(mail)
      BY <3>1, <2>2, <1>m
    <3>3. mail[Len(mail)] = Completion
      BY <2>4, <1>t
    <3>4. mail'[Len(mail')] = Completion
      BY <3>2, <3>3, <2>2
    <3> QED BY <3>2, <3>4, <1>n
  <2>5. copies' = IF Posted /\ outcome = "ok" THEN Len(mail') - 1 ELSE Len(mail')
    <3>1. copies = IF Posted /\ outcome = "ok" THEN Len(mail) - 1 ELSE Len(mail)
      BY <1>t
    <3>2. Len(mail) \in Nat /\ Len(mail') = Len(mail) - 1 /\ copies' = copies - 1
      BY <2>1, <2>2, <1>m
    <3>3. CASE Posted /\ outcome = "ok"
      <4>1. copies = Len(mail) - 1
        BY <3>1, <3>3
      <4>2. copies' = Len(mail') - 1
        BY <3>2, <4>1
      <4> QED BY <3>3, <4>2
    <3>4. CASE ~(Posted /\ outcome = "ok")
      <4>1. copies = Len(mail)
        BY <3>1, <3>4
      <4>2. copies' = Len(mail')
        BY <3>2, <4>1
      <4> QED BY <3>4, <4>2
    <3> QED BY <3>3, <3>4
  <2> QED BY <2>1, <2>3, <2>4, <2>5, <1>t
<1>26. CASE HandleCompletion
  <2>1. /\ OnDart /\ mail # <<>> /\ Head(mail) = Completion
        /\ mail' = Tail(mail) /\ copies' = copies - FreedCopies /\ caller' = "over"
        /\ UNCHANGED <<platform, phase, emitted, outcome>>
    BY <1>26 DEF HandleCompletion, Receives
  <2>2. Posted /\ Len(mail) = 1 /\ mail' = <<>>
    BY <2>1, CompletionIsLast
  <2>3. copies' = 0
    BY <2>1, <2>2, <1>t DEF FreedCopies
  <2> QED BY <2>1, <2>2, <2>3, <1>n, <1>t
<1>27. CASE DartCancel
  BY <1>27, <1>t DEF DartCancel, CancelJob, coreVars, streamVars, dartVars
<1>28. CASE TokenCancels
  BY <1>28, <1>t DEF TokenCancels, CancelJob, coreVars, streamVars, dartVars
<1>29. CASE Take
  BY <1>29, <1>t DEF Take, coreVars, streamVars, dartVars
<1>30. CASE SeeEnd
  BY <1>30, <1>t DEF SeeEnd, coreVars, streamVars, dartVars
<1>31. CASE UNCHANGED callVars
  BY <1>31, <1>t DEF callVars, coreVars, streamVars, dartVars
<1> QED BY <1>1, <1>2, <1>3, <1>4, <1>5, <1>6, <1>7, <1>8, <1>9, <1>10, <1>11, <1>12, <1>13,
    <1>14, <1>15, <1>16, <1>17, <1>18, <1>19, <1>20, <1>21, <1>22, <1>23, <1>24, <1>25, <1>26,
    <1>27, <1>28, <1>29, <1>30, <1>31, CallCases
-----------------------------------------------------------------------------
(* The order of the deltas.                                                *)

\* The deltas as sequences of numbers, and none of them is beyond the last one made.
LEMMA DeltasAreNumbers ==
  ASSUME Inv
  PROVE  /\ heard \in Seq(Nat) /\ buffer \in Seq(Nat) /\ mail \in Seq(Nat)
         /\ emitted \in Nat /\ Completion \in Nat /\ emitted < Completion
         /\ \A i \in 1..Len(heard) : heard[i] \in Nat /\ heard[i] <= emitted
         /\ \A i \in 1..Len(buffer) : buffer[i] \in Nat /\ buffer[i] <= emitted
         /\ \A i \in 1..Len(mail) :
              mail[i] \in Nat /\ (mail[i] <= emitted \/ (Posted /\ mail[i] = Completion))
<1>1. /\ mail \in Seq(1..Completion) /\ heard \in Seq(1..MaxDeltas)
      /\ buffer \in Seq(1..MaxDeltas) /\ emitted \in 0..MaxDeltas
  BY DEF Inv, TypeOK
<1>2. Completion \in Nat /\ MaxDeltas \in Nat /\ Completion = MaxDeltas + 1
  BY BridgeAssumption DEF Completion
<1>3. 1..Completion \subseteq Nat /\ 1..MaxDeltas \subseteq Nat
  OBVIOUS
<1>4. heard \in Seq(Nat) /\ buffer \in Seq(Nat) /\ mail \in Seq(Nat)
  BY <1>1, <1>3, SeqMonotonic
<1>5. emitted \in Nat /\ emitted < Completion
  BY <1>1, <1>2
<1>6. /\ \A i \in 1..Len(heard) : heard[i] \in Nat
      /\ \A i \in 1..Len(buffer) : buffer[i] \in Nat
      /\ \A i \in 1..Len(mail) : mail[i] \in Nat
  BY <1>4, ElementOfSeq
<1> QED BY <1>2, <1>4, <1>5, <1>6 DEF Inv, OrderInv, MailInv, UpTo

Capacity == OnAndroid => Len(buffer) <= BufferSize

\* A stream that is full gets no delta.
LEMMA NextCapacity == Inv /\ [Next]_vars => Capacity'
<1> SUFFICES ASSUME Inv, [Next]_vars PROVE Capacity'
  OBVIOUS
<1> USE DEF Capacity
<1>t. /\ Capacity /\ buffer \in Seq(Nat) /\ Len(buffer) \in Nat /\ emitted + 1 \in Nat
      /\ BufferSize \in Nat
  BY DeltasAreNumbers, LenProperties, BridgeAssumption DEF Inv, OrderInv
<1>1. CASE UNCHANGED <<platform, heard, buffer, mail, emitted>>
  BY <1>1, <1>t DEF OnAndroid
<1>2. CASE buffer' = <<>> /\ UNCHANGED <<platform, heard, mail, emitted>>
  BY <1>2, <1>t, EmptySeq
<1>3. CASE AndroidOnEvent
  <2>1. buffer' = buffer \/ (Len(buffer) < BufferSize /\ buffer' = Append(buffer, emitted + 1))
    BY <1>3 DEF AndroidOnEvent
  <2>2. Len(Append(buffer, emitted + 1)) = Len(buffer) + 1 /\ (OnAndroid' => OnAndroid)
    BY <1>3, <1>t, AppendProperties DEF AndroidOnEvent
  <2> QED BY <2>1, <2>2, <1>t
<1>4. CASE AppleOnEvent \/ DartOnEvent \/ DartOnCompletion \/ HandleEvent \/ HandleCompletion
  <2>1. ~OnAndroid'
    BY <1>4 DEF AppleOnEvent, DartOnEvent, DartOnCompletion, HandleEvent, HandleCompletion,
       Receives, CoreEmits, CoreReports, coreVars, OnApple, OnDart, OnAndroid
  <2> QED BY <2>1
<1>5. CASE Take
  <2>1. buffer # <<>> /\ buffer' = Tail(buffer) /\ platform' = platform
    BY <1>5 DEF Take, coreVars
  <2>2. Len(buffer') = Len(buffer) - 1
    BY <2>1, <1>t, HeadTailProperties
  <2> QED BY <2>1, <2>2, <1>t DEF OnAndroid
<1> QED BY <1>1, <1>2, <1>3, <1>4, <1>5, StreamCases

\* No step lets one delta overtake another.
LEMMA NextOrder == Inv /\ [Next]_vars => OrderInv'
<1> SUFFICES ASSUME Inv, [Next]_vars PROVE OrderInv'
  OBVIOUS
<1>o. OrderInv /\ (~OnDart => mail = <<>>)
  BY DEF Inv, MailInv
<1>c. Capacity'
  BY NextCapacity
<1>s. SUFFICES /\ Ascending(heard') /\ Ascending(buffer') /\ Ascending(mail')
               /\ Below(heard', buffer') /\ Below(heard', mail') /\ Below(buffer', mail')
               /\ UpTo(heard', emitted') /\ UpTo(buffer', emitted')
  BY <1>c DEF OrderInv, Capacity, Ascending, Below, UpTo
<1>n. /\ heard \in Seq(Nat) /\ buffer \in Seq(Nat) /\ mail \in Seq(Nat)
      /\ emitted \in Nat /\ emitted + 1 \in Nat /\ Completion \in Nat
      /\ \A i \in 1..Len(heard) : heard[i] < emitted + 1 /\ heard[i] < Completion
      /\ \A i \in 1..Len(buffer) : buffer[i] < emitted + 1 /\ buffer[i] < Completion
  <2>1. heard \in Seq(Nat) /\ buffer \in Seq(Nat) /\ mail \in Seq(Nat)
        /\ emitted \in Nat /\ emitted + 1 \in Nat /\ Completion \in Nat /\ emitted < Completion
    BY DeltasAreNumbers
  <2>2. \A k \in Nat : k <= emitted => k < emitted + 1 /\ k < Completion
    BY <2>1
  <2>3. \A i \in 1..Len(heard) : heard[i] < emitted + 1 /\ heard[i] < Completion
    BY <2>2, DeltasAreNumbers
  <2>4. \A i \in 1..Len(buffer) : buffer[i] < emitted + 1 /\ buffer[i] < Completion
    BY <2>2, DeltasAreNumbers
  <2> QED BY <2>1, <2>3, <2>4
<1>u. UpTo(heard, emitted + 1) /\ UpTo(buffer, emitted + 1)
  <2>1. /\ emitted \in Nat /\ \A i \in 1..Len(heard) : heard[i] \in Nat /\ heard[i] <= emitted
        /\ \A i \in 1..Len(buffer) : buffer[i] \in Nat /\ buffer[i] <= emitted
    BY DeltasAreNumbers
  <2>2. \A k \in Nat : k <= emitted => k <= emitted + 1
    BY <2>1
  <2> QED BY <2>1, <2>2 DEF UpTo
<1>m. ~Posted => \A i \in 1..Len(mail) : mail[i] < emitted + 1 /\ mail[i] < Completion
  <2>1. emitted \in Nat /\ Completion \in Nat /\ emitted < Completion
    BY DeltasAreNumbers
  <2>2. \A k \in Nat : k <= emitted => k < emitted + 1 /\ k < Completion
    BY <2>1
  <2> QED BY <2>2, DeltasAreNumbers
<1>a. \A s \in Seq(Nat), e \in Nat : UpTo(s, e) => UpTo(Append(s, e), e)
  BY AppendProperties, LenProperties DEF UpTo
<1>1. CASE UNCHANGED <<platform, heard, buffer, mail, emitted>>
  BY <1>1, <1>o DEF OrderInv
<1>2. CASE buffer' = <<>> /\ UNCHANGED <<platform, heard, mail, emitted>>
  BY <1>2, <1>o, EmptyInOrder DEF OrderInv
<1>3. CASE AndroidOnEvent \/ AppleOnEvent
  <2>1. /\ emitted' = emitted + 1 /\ UNCHANGED <<heard, mail>> /\ ~OnDart
        /\ buffer' = buffer \/ buffer' = Append(buffer, emitted + 1)
    BY <1>3 DEF AndroidOnEvent, AppleOnEvent, CoreEmits, dartVars, OnAndroid, OnApple, OnDart
  <2>2. mail = <<>>
    BY <2>1, <1>o
  <2>3. CASE buffer' = buffer
    BY <2>1, <2>3, <1>o, <1>u DEF OrderInv
  <2>4. CASE buffer' = Append(buffer, emitted + 1)
    <3>1. /\ Ascending(Append(buffer, emitted + 1)) /\ Below(heard, Append(buffer, emitted + 1))
          /\ UpTo(Append(buffer, emitted + 1), emitted + 1)
      BY <1>n, <1>o, <1>u, <1>a, AppendInOrder DEF OrderInv
    <3> QED BY <3>1, <2>1, <2>2, <2>4, <1>o, <1>u, EmptyInOrder DEF OrderInv
  <2> QED BY <2>1, <2>3, <2>4
<1>4. CASE DartOnEvent
  <2>1. /\ emitted' = emitted + 1 /\ UNCHANGED <<heard, buffer>> /\ phase = "running"
        /\ mail' = Append(mail, emitted + 1)
    BY <1>4 DEF DartOnEvent, CoreEmits, streamVars
  <2>2. \A i \in 1..Len(mail) : mail[i] < emitted + 1
    BY <2>1, <1>m DEF Posted
  <2>3. /\ Ascending(Append(mail, emitted + 1)) /\ Below(heard, Append(mail, emitted + 1))
        /\ Below(buffer, Append(mail, emitted + 1))
    BY <1>n, <1>o, <2>2, AppendInOrder DEF OrderInv
  <2> QED BY <2>1, <2>3, <1>o, <1>u DEF OrderInv
<1>5. CASE DartOnCompletion
  <2>1. /\ phase = "finished" /\ UNCHANGED <<heard, buffer, emitted>>
        /\ mail' = Append(mail, Completion)
    BY <1>5 DEF DartOnCompletion, CoreReports, streamVars
  <2>2. \A i \in 1..Len(mail) : mail[i] < Completion
    BY <2>1, <1>m DEF Posted
  <2>3. /\ Ascending(Append(mail, Completion)) /\ Below(heard, Append(mail, Completion))
        /\ Below(buffer, Append(mail, Completion))
    BY <1>n, <1>o, <2>2, AppendInOrder DEF OrderInv
  <2> QED BY <2>1, <2>3, <1>o DEF OrderInv
<1>6. CASE HandleEvent
  <2>1. /\ UNCHANGED <<heard, emitted>> /\ mail # <<>> /\ mail' = Tail(mail)
        /\ Head(mail) # Completion
        /\ buffer' = buffer \/ buffer' = Append(buffer, Head(mail))
    BY <1>6 DEF HandleEvent, Receives, coreVars
  <2>2. Head(mail) \in Nat /\ Head(mail) <= emitted
    <3>1. Head(mail) = mail[1] /\ 1 \in 1..Len(mail)
      BY <2>1, <1>n, EmptySeq, LenProperties
    <3> QED BY <3>1, <2>1, DeltasAreNumbers
  <2>3. /\ Ascending(Tail(mail)) /\ Below(heard, Tail(mail)) /\ Below(buffer, Tail(mail))
        /\ \A i \in 1..Len(Tail(mail)) : Head(mail) < Tail(mail)[i]
        /\ \A i \in 1..Len(heard) : heard[i] < Head(mail)
        /\ \A i \in 1..Len(buffer) : buffer[i] < Head(mail)
    BY <2>1, <1>n, <1>o, TailInOrder DEF OrderInv
  <2>4. CASE buffer' = buffer
    BY <2>1, <2>3, <2>4, <1>o DEF OrderInv
  <2>5. CASE buffer' = Append(buffer, Head(mail))
    <3>1. Tail(mail) \in Seq(Nat)
      BY <2>1, <1>n, HeadTailProperties
    <3>2. /\ Ascending(Append(buffer, Head(mail))) /\ Below(heard, Append(buffer, Head(mail)))
          /\ Below(Append(buffer, Head(mail)), Tail(mail))
      BY <3>1, <2>2, <2>3, <1>n, <1>o, AppendInOrder DEF OrderInv
    <3>3. UpTo(Append(buffer, Head(mail)), emitted)
      BY <2>2, <1>n, <1>o, AppendProperties, LenProperties DEF UpTo, OrderInv
    <3> QED BY <3>2, <3>3, <2>1, <2>3, <2>5, <1>o DEF OrderInv
  <2> QED BY <2>1, <2>4, <2>5
<1>7. CASE HandleCompletion
  <2>1. UNCHANGED <<heard, buffer, emitted>> /\ mail # <<>> /\ mail' = Tail(mail)
    BY <1>7 DEF HandleCompletion, Receives
  <2>2. Ascending(Tail(mail)) /\ Below(heard, Tail(mail)) /\ Below(buffer, Tail(mail))
    BY <2>1, <1>n, <1>o, TailInOrder DEF OrderInv
  <2> QED BY <2>1, <2>2, <1>o DEF OrderInv
<1>8. CASE Take
  <2>1. /\ UNCHANGED <<mail, emitted>> /\ buffer # <<>> /\ buffer' = Tail(buffer)
        /\ heard' = Append(heard, Head(buffer))
    BY <1>8 DEF Take, dartVars, coreVars
  <2>2. Head(buffer) \in Nat /\ Tail(buffer) \in Seq(Nat)
    BY <2>1, <1>n, HeadTailProperties
  <2>3. /\ Ascending(Tail(buffer)) /\ Below(heard, Tail(buffer)) /\ Below(Tail(buffer), mail)
        /\ \A i \in 1..Len(Tail(buffer)) : Head(buffer) < Tail(buffer)[i]
        /\ \A i \in 1..Len(heard) : heard[i] < Head(buffer)
        /\ \A i \in 1..Len(mail) : Head(buffer) < mail[i]
        /\ UpTo(Tail(buffer), emitted) /\ Head(buffer) <= emitted
    BY <2>1, <1>n, <1>o, TailInOrder DEF OrderInv
  <2>4. /\ Ascending(Append(heard, Head(buffer)))
        /\ Below(Append(heard, Head(buffer)), Tail(buffer))
        /\ Below(Append(heard, Head(buffer)), mail)
    BY <2>2, <2>3, <1>n, <1>o, AppendInOrder DEF OrderInv
  <2>5. UpTo(Append(heard, Head(buffer)), emitted)
    BY <2>2, <2>3, <1>n, <1>o, AppendProperties, LenProperties DEF UpTo, OrderInv
  <2> QED BY <2>1, <2>3, <2>4, <2>5, <1>o DEF OrderInv
<1> QED BY <1>1, <1>2, <1>3, <1>4, <1>5, <1>6, <1>7, <1>8, StreamCases
\* No step loses a delta of a job that nobody stops.
LEMMA NextNoneMissing == Inv /\ [Next]_vars => NoneMissing'
<1> SUFFICES ASSUME Inv, [Next]_vars PROVE NoneMissing'
  OBVIOUS
<1> USE DEF NoneMissing, InMail, ContextInv, CallTypes, Posted, Over, OnAndroid, OnApple, OnDart
<1>t. CallTypes /\ ContextInv /\ NoneMissing
  BY DEF Inv, TypeOK
<1>e. /\ ending # "open" => wants \/ Over
      /\ form = "stream" /\ wants /\ OnDart => caller \in {"waiting", "over"}
  BY DEF Inv, EndInv
<1>s. heard \in Seq(Nat) /\ buffer \in Seq(Nat) /\ mail \in Seq(Nat) /\ emitted \in Nat
  BY DeltasAreNumbers
<1>n. /\ Len(heard) \in Nat /\ Len(buffer) \in Nat /\ Len(mail) \in Nat /\ emitted \in Nat
      /\ Completion \in Nat
  BY <1>s, DeltasAreNumbers, LenProperties
<1>1. CASE Accept
  BY <1>1, <1>t DEF Accept, coreVars, streamVars, dartVars
<1>2. CASE Start
  BY <1>2, <1>t DEF Start, coreVars, streamVars, dartVars
<1>3. CASE Finish
  BY <1>3, <1>t DEF Finish, coreVars, streamVars, dartVars
<1>4. CASE CoreCancels
  BY <1>4, <1>t DEF CoreCancels, CancelJob, coreVars, streamVars, dartVars
<1>5. CASE Begins
  BY <1>5, <1>t DEF Begins, Begin, coreVars, streamVars, dartVars
<1>6. CASE Publish
  BY <1>6, <1>t DEF Publish, coreVars, streamVars, dartVars
<1>7. CASE AndroidRefused
  BY <1>7, <1>t DEF AndroidRefused, CoreRefuses, dartVars
<1>8. CASE AppleRefused
  BY <1>8, <1>t DEF AppleRefused, CoreRefuses, dartVars
<1>9. CASE DartRefused
  BY <1>9, <1>t DEF DartRefused, CoreRefuses, streamVars, dartVars
<1>10. CASE AndroidOnEvent
  <2>1. /\ OnAndroid /\ phase = "running" /\ phase' = "running" /\ emitted' = emitted + 1
        /\ UNCHANGED <<platform, form, heard, mail, wants>>
        /\ asked' = (asked \/ (listening /\ AndroidDropped))
        /\ listening /\ form = "stream" /\ ~wants /\ ending = "open" /\ Len(buffer) < BufferSize
             => buffer' = Append(buffer, emitted + 1)
    BY <1>10 DEF AndroidOnEvent, CoreEmits, dartVars
  <2> SUFFICES ASSUME form = "stream", ~asked', ~wants PROVE NoneMissing'
    BY <2>1
  <2>2. listening /\ ending = "open"
    BY <2>1, <1>t, <1>e DEF Inv, HandleInv, Abandoned
  <2>3. Len(buffer) # BufferSize
    BY <2>1, <2>2 DEF AndroidDropped
  <2>4. Len(buffer) < BufferSize
    BY <2>1, <2>3, <1>n, BridgeAssumption DEF Inv, OrderInv
  <2>5. buffer' = Append(buffer, emitted + 1) /\ ~asked /\ ~Posted /\ ~Posted'
    BY <2>1, <2>2, <2>4
  <2>6. Len(buffer') = Len(buffer) + 1
    BY <2>5, <1>s, AppendProperties
  <2> QED BY <2>1, <2>5, <2>6, <1>n, <1>t
<1>11. CASE AppleOnEvent
  <2>1. /\ OnApple /\ phase = "running" /\ phase' = "running" /\ emitted' = emitted + 1
        /\ UNCHANGED <<platform, form, heard, mail, wants>>
        /\ asked' = (asked \/ FALSE)
        /\ form = "stream" /\ ending = "open" => buffer' = Append(buffer, emitted + 1)
    BY <1>11 DEF AppleOnEvent, CoreEmits, dartVars
  <2> SUFFICES ASSUME form = "stream", ~asked', ~wants PROVE NoneMissing'
    BY <2>1
  <2>2. ending = "open"
    BY <2>1, <1>t, <1>e
  <2>3. buffer' = Append(buffer, emitted + 1) /\ ~asked /\ ~Posted /\ ~Posted'
    BY <2>1, <2>2
  <2>4. Len(buffer') = Len(buffer) + 1
    BY <2>3, <1>s, AppendProperties
  <2> QED BY <2>1, <2>3, <2>4, <1>n, <1>t
<1>12. CASE DartOnEvent
  <2>1. /\ phase = "running" /\ phase' = "running" /\ emitted' = emitted + 1
        /\ UNCHANGED <<platform, form, heard, buffer, wants>>
        /\ asked' = (asked \/ FALSE) /\ mail' = Append(mail, emitted + 1)
    BY <1>12 DEF DartOnEvent, CoreEmits, streamVars
  <2>2. Len(mail') = Len(mail) + 1 /\ ~Posted /\ ~Posted'
    BY <2>1, <1>s, AppendProperties
  <2> QED BY <2>1, <2>2, <1>n, <1>t
<1>13. CASE AndroidOnCompletion
  BY <1>13, <1>t DEF AndroidOnCompletion, CoreReports, AndroidCompletes, Frees, Resumed, EndOf,
      ValueOf, coreVars, streamVars, dartVars
<1>14. CASE AppleOnCompletion
  BY <1>14, <1>t DEF AppleOnCompletion, CoreReports, AppleReleases, Frees, AppleEndOf, ValueOf,
      coreVars, streamVars, dartVars
<1>15. CASE DartOnCompletion
  <2>1. /\ OnDart /\ phase = "finished" /\ phase' = "reported"
        /\ UNCHANGED <<platform, form, caller, emitted, heard, buffer, asked, wants>>
        /\ mail' = Append(mail, Completion)
    BY <1>15 DEF DartOnCompletion, CoreReports, streamVars
  <2>2. Len(mail') = Len(mail) + 1 /\ ~Posted /\ Posted'
    BY <2>1, <1>t, <1>s, <1>n, AppendProperties
  <2> QED BY <2>1, <2>2, <1>n, <1>t
<1>16. CASE AndroidCancel
  BY <1>16, <1>t DEF AndroidCancel, coreVars, streamVars, dartVars
<1>17. CASE AwaitCancels
  BY <1>17, <1>t DEF AwaitCancels, CancelJob, coreVars, streamVars, dartVars
<1>18. CASE AwaitReturns
  BY <1>18, <1>t DEF AwaitReturns, coreVars, streamVars, dartVars
<1>19. CASE StreamCancels
  BY <1>19, <1>t DEF StreamCancels, CancelJob, coreVars, streamVars, dartVars
<1>20. CASE StreamCancelReturns
  BY <1>20, <1>t DEF StreamCancelReturns, coreVars, streamVars, dartVars
<1>21. CASE StreamUnregisters
  BY <1>21, <1>t DEF StreamUnregisters, coreVars, streamVars, dartVars
<1>22. CASE TaskCancelled
  BY <1>22, <1>t DEF TaskCancelled, CancelJob, coreVars, streamVars, dartVars
<1>23. CASE StreamTerminated
  BY <1>23, <1>t DEF StreamTerminated, CancelJob, coreVars, streamVars, dartVars
<1>24. CASE AppleReturns
  BY <1>24, <1>t DEF AppleReturns, coreVars, streamVars, dartVars
<1>25. CASE HandleEvent
  <2>1. /\ OnDart /\ caller = "waiting" /\ mail # <<>> /\ Head(mail) # Completion
        /\ mail' = Tail(mail)
        /\ form = "stream" /\ ending = "open" /\ ~wants => buffer' = Append(buffer, Head(mail))
        /\ UNCHANGED <<platform, form, caller, phase, emitted, heard, asked, wants>>
    BY <1>25 DEF HandleEvent, Receives, coreVars
  <2> SUFFICES ASSUME form = "stream", ~asked, ~wants PROVE NoneMissing'
    BY <2>1
  <2>2. ending = "open" /\ Head(mail) \in Nat
    BY <2>1, <1>t, <1>e, <1>s, HeadTailProperties
  <2>3. Len(mail') = Len(mail) - 1 /\ Len(buffer') = Len(buffer) + 1
    BY <2>1, <2>2, <1>s, HeadTailProperties, AppendProperties
  <2>4. Posted' = Posted
    BY <2>1
  <2>5. Len(heard) + Len(buffer) + InMail = emitted
    BY <1>t
  <2>6. InMail' = InMail - 1 /\ InMail \in Int
    BY <2>3, <2>4, <1>n
  <2> HIDE DEF InMail
  <2>7. Len(heard') + Len(buffer') + InMail' = emitted'
    <3>1. heard' = heard /\ emitted' = emitted
      BY <2>1
    <3>2. \A a, b \in Nat, c \in Int : a + (b + 1) + (c - 1) = a + b + c
      OBVIOUS
    <3> QED BY <3>1, <3>2, <2>3, <2>5, <2>6, <1>n
  <2> QED BY <2>7
<1>26. CASE HandleCompletion
  <2>1. /\ mail # <<>> /\ Head(mail) = Completion /\ mail' = Tail(mail) /\ caller' = "over"
        /\ UNCHANGED <<platform, form, phase, emitted, heard, buffer, asked, wants>>
    BY <1>26 DEF HandleCompletion, Receives
  <2>2. Posted /\ Len(mail) = 1 /\ mail' = <<>> /\ ~Posted'
    BY <2>1, CompletionIsLast
  <2>3. InMail = 0 /\ InMail' = 0
    BY <2>1, <2>2, EmptySeq
  <2> HIDE DEF InMail
  <2> QED BY <2>1, <2>3, <1>t
<1>27. CASE DartCancel
  BY <1>27, <1>t DEF DartCancel, CancelJob, coreVars, streamVars, dartVars
<1>28. CASE TokenCancels
  BY <1>28, <1>t DEF TokenCancels, CancelJob, coreVars, streamVars, dartVars
<1>29. CASE Take
  <2>1. /\ buffer # <<>> /\ buffer' = Tail(buffer) /\ heard' = Append(heard, Head(buffer))
        /\ UNCHANGED <<platform, form, phase, caller, emitted, mail, asked, wants>>
    BY <1>29 DEF Take, coreVars, dartVars
  <2>2. Head(buffer) \in Nat
    BY <2>1, <1>s, HeadTailProperties
  <2>3. Len(buffer') = Len(buffer) - 1 /\ Len(heard') = Len(heard) + 1
    BY <2>1, <2>2, <1>s, HeadTailProperties, AppendProperties
  <2>4. InMail' = InMail /\ InMail \in Int
    BY <2>1, <1>n
  <2> HIDE DEF InMail
  <2> QED BY <2>1, <2>3, <2>4, <1>n, <1>t
<1>30. CASE SeeEnd
  BY <1>30, <1>t DEF SeeEnd, coreVars, streamVars, dartVars
<1>31. CASE UNCHANGED callVars
  BY <1>31, <1>t DEF callVars, coreVars, streamVars, dartVars
<1> QED BY <1>1, <1>2, <1>3, <1>4, <1>5, <1>6, <1>7, <1>8, <1>9, <1>10, <1>11, <1>12, <1>13,
    <1>14, <1>15, <1>16, <1>17, <1>18, <1>19, <1>20, <1>21, <1>22, <1>23, <1>24, <1>25, <1>26,
    <1>27, <1>28, <1>29, <1>30, <1>31, CallCases
-----------------------------------------------------------------------------
(* React Native: the events between the coroutine and the iterator.            *)

\* Appending to the second sequence appends to both.
LEMMA ConcatAppend ==
  ASSUME NEW S, NEW s \in Seq(S), NEW t \in Seq(S), NEW e \in S
  PROVE  s \o Append(t, e) = Append(s \o t, e)
<1>1. /\ <<e>> \in Seq(S) /\ s \o t \in Seq(S)
  BY ConcatProperties
<1>2. Append(t, e) = t \o <<e>> /\ Append(s \o t, e) = (s \o t) \o <<e>>
  BY <1>1, AppendIsConcat
<1> QED BY <1>1, <1>2, ConcatAssociative

\* Handing over the first element of the second sequence.
LEMMA HandOver ==
  ASSUME NEW S, NEW s \in Seq(S), NEW t \in Seq(S), t # <<>>
  PROVE  Append(s, Head(t)) \o Tail(t) = s \o t
<1>1. Head(t) \in S /\ Tail(t) \in Seq(S) /\ <<Head(t)>> \in Seq(S)
  BY HeadTailProperties
<1>2. t = <<Head(t)>> \o Tail(t)
  <2>1. /\ Len(Tail(t)) = Len(t) - 1 /\ \A i \in 1..Len(Tail(t)) : Tail(t)[i] = t[i + 1]
        /\ Head(t) = t[1] /\ Len(t) \in Nat /\ Len(t) # 0
    BY HeadTailProperties, LenProperties, EmptySeq
  <2> DEFINE u == <<Head(t)>> \o Tail(t)
  <2>2. /\ u \in Seq(S) /\ Len(u) = Len(t)
        /\ \A i \in 1..Len(t) : u[i] = IF i <= 1 THEN Head(t) ELSE Tail(t)[i - 1]
    BY <1>1, <2>1, ConcatProperties
  <2> HIDE DEF u
  <2>3. ASSUME NEW i \in 1..Len(t) PROVE u[i] = t[i]
    <3>1. CASE i = 1
      BY <3>1, <2>1, <2>2
    <3>2. CASE i # 1
      <4>1. i - 1 \in 1..Len(Tail(t)) /\ (i - 1) + 1 = i /\ ~(i <= 1)
        BY <3>2, <2>1
      <4> QED BY <4>1, <2>1, <2>2
    <3> QED BY <3>1, <3>2
  <2> QED BY <2>2, <2>3, SeqEqual DEF u
<1>3. Append(s, Head(t)) = s \o <<Head(t)>>
  BY <1>1, AppendIsConcat
<1>4. (s \o <<Head(t)>>) \o Tail(t) = s \o (<<Head(t)>> \o Tail(t))
  BY <1>1, ConcatAssociative
<1> QED BY <1>2, <1>3, <1>4

\* An event beyond the deltas is the end, and the last one.
LEMMA EndIsLast ==
  ASSUME NEW n \in Nat, NEW h \in Seq(Nat), NEW s \in Seq(Nat), NEW c \in Seq(Nat),
         \A i \in 1..Len(h) : h[i] <= n, c # <<>>
  PROVE  /\ s \o c = h => Head(c) <= n
         /\ \A e \in Nat : s \o c = Append(h, e) /\ e > n =>
              /\ Head(c) > n => s = h /\ Head(c) = e /\ Tail(c) = <<>>
              /\ Head(c) <= n => Tail(c) # <<>>
<1>1. PICK a \in Nat, b \in Nat : a = Len(s) /\ b = Len(c) /\ b # 0
  BY LenProperties, EmptySeq
<1>2. /\ Len(s \o c) = a + b /\ (s \o c)[a + 1] = Head(c) /\ (s \o c)[a + b] = c[b]
      /\ Head(c) = c[1] /\ Head(c) \in Nat /\ Len(Tail(c)) = b - 1 /\ Tail(c) \in Seq(Nat)
      /\ s \o c \in Seq(Nat)
  <2>1. /\ Len(s \o c) = a + b /\ s \o c \in Seq(Nat)
        /\ \A i \in 1..a + b : (s \o c)[i] = IF i <= a THEN s[i] ELSE c[i - a]
    BY <1>1, ConcatProperties
  <2>2. /\ a + 1 \in 1..a + b /\ ~(a + 1 <= a) /\ (a + 1) - a = 1
        /\ a + b \in 1..a + b /\ ~(a + b <= a) /\ (a + b) - a = b
    BY <1>1
  <2>3. (s \o c)[a + 1] = c[1] /\ (s \o c)[a + b] = c[b]
    BY <2>1, <2>2
  <2>4. Head(c) = c[1] /\ Head(c) \in Nat /\ Len(Tail(c)) = b - 1 /\ Tail(c) \in Seq(Nat)
    BY <1>1, HeadTailProperties
  <2> QED BY <2>1, <2>3, <2>4
<1>3. PICK k \in Nat : k = Len(h)
  BY LenProperties
<1>4. ASSUME s \o c = h PROVE Head(c) <= n
  <2>1. a + 1 \in 1..Len(h) /\ h[a + 1] = Head(c)
    <3>1. Len(h) = a + b /\ h[a + 1] = Head(c)
      BY <1>4, <1>2
    <3>2. a + 1 \in 1..a + b
      BY <1>1
    <3> QED BY <3>1, <3>2
  <2> QED BY <2>1
<1>5. ASSUME NEW e \in Nat, s \o c = Append(h, e), e > n
      PROVE  /\ Head(c) > n => s = h /\ Head(c) = e /\ Tail(c) = <<>>
             /\ Head(c) <= n => Tail(c) # <<>>
  <2>1. /\ a + b = k + 1 /\ Append(h, e)[k + 1] = e
        /\ \A i \in 1..k : Append(h, e)[i] = h[i]
    BY <1>5, <1>2, <1>3, AppendProperties
  <2>2. ASSUME Head(c) > n PROVE s = h /\ Head(c) = e /\ Tail(c) = <<>>
    <3>1. ~(a + 1 \in 1..k)
      <4>1. SUFFICES ASSUME a + 1 \in 1..k PROVE FALSE
        OBVIOUS
      <4>2. h[a + 1] = Head(c) /\ h[a + 1] <= n
        BY <4>1, <2>1, <1>5, <1>2, <1>3
      <4> QED BY <4>2, <2>2, <1>2
    <3>2. b = 1 /\ a = k
      <4>1. b # 0 /\ a + b = k + 1
        BY <1>1, <2>1
      <4>2. \A i, j, l \in Nat : j # 0 /\ i + j = l + 1 /\ ~(i + 1 \in 1..l) => j = 1 /\ i = l
        OBVIOUS
      <4> QED BY <3>1, <4>1, <4>2
    <3>3. Tail(c) = <<>>
      <4>1. Len(Tail(c)) = 0
        BY <3>2, <1>2
      <4> QED BY <4>1, <1>2, EmptySeq
    <3>4. s \o c = Append(s, Head(c))
      <4>1. Append(s, Head(c)) \o Tail(c) = s \o c
        BY HandOver
      <4>2. Append(s, Head(c)) \in Seq(Nat)
        BY <1>2, AppendProperties
      <4> QED BY <3>3, <4>1, <4>2, ConcatEmptySeq
    <3>5. Append(s, Head(c)) = Append(h, e)
      BY <3>4, <1>5
    <3>6. s = h /\ Head(c) = e
      BY <3>5, <1>2, <1>5, AppendInjective
    <3> QED BY <3>3, <3>6
  <2>3. ASSUME Head(c) <= n PROVE Tail(c) # <<>>
    <3>1. SUFFICES ASSUME b = 1 PROVE FALSE
      <4>1. Tail(c) = <<>> => b - 1 = 0
        BY <1>2, EmptySeq
      <4> QED BY <4>1, <1>1
    <3>2. Head(c) = e
      BY <3>1, <2>1, <1>2, <1>5, <1>1, <1>3
    <3> QED BY <3>2, <2>3, <1>5, <1>2
  <2> QED BY <2>2, <2>3
<1> QED BY <1>4, <1>5
\* The steps as React Native sees them: its own, and those that leave its reader alone.
LEMMA ReaderCases ==
  ASSUME TypeOK, [Next]_vars
  PROVE  \/ Launch \/ StoreSubscription \/ CancelSubscription
         \/ CoroutineBegins \/ CoroutineEmits \/ CoroutineEnds
         \/ DeliverEvent \/ NextDelta \/ ReaderReturns \/ ReaderLeaves
         \/ UNCHANGED rnVars /\ platform' = platform /\ (OnRN => heard' = heard /\ told' = told)
<1>a. OnRN => form = "stream"
  BY DEF TypeOK, OnRN
<1> USE DEF OnRN
<1>1. CASE UNCHANGED vars
  BY <1>1 DEF vars, callVars, coreVars, streamVars
<1>2. CASE RNRuns \/ ReaderLeaves
  BY <1>2 DEF RNRuns
<1>3. ASSUME Worker \/ Report \/ EntryPoint \/ Consumer \/ Caller \/ Cancels \/ CoreCancels
      PROVE  platform' = platform /\ (OnRN => heard' = heard /\ told' = told)
  <2>1. CASE Worker
    BY <2>1, <1>a DEF Worker, Start, Finish, AndroidOnEvent, AppleOnEvent, DartOnEvent,
       CoreEmits, streamVars
  <2>2. CASE Report
    BY <2>2, <1>a DEF Report, AndroidOnCompletion, AppleOnCompletion, DartOnCompletion,
       CoreReports, streamVars, OnApple
  <2>3. CASE EntryPoint
    BY <2>3, <1>a DEF EntryPoint, Accept, AndroidRefused, AppleRefused, DartRefused,
       CoreRefuses, streamVars, OnApple, OnDart
  <2>4. CASE Consumer
    BY <2>4 DEF Consumer, Take, SeeEnd, coreVars
  <2>5. CASE Caller
    <3>1. CASE AndroidStart \/ AndroidPublish \/ AwaitReturns \/ StreamCancelReturns
               \/ StreamUnregisters
      BY <3>1 DEF AndroidStart, AndroidPublish, AwaitReturns, StreamCancelReturns,
         StreamUnregisters, Begin, Publish, coreVars, streamVars
    <3>2. CASE AwaitCancels \/ StreamCancels
      BY <3>2 DEF AwaitCancels, StreamCancels, CancelJob, streamVars
    <3>3. CASE AppleCaller
      BY <3>3 DEF AppleCaller, AppleStart, ApplePublish, AppleReturns, Begin, Publish,
         coreVars, streamVars
    <3>4. CASE DartIsolate
      BY <3>4 DEF DartIsolate, DartStart, DartPublish, TokenCancels, HandleEvent,
         HandleCompletion, Receives, CancelJob, Begin, Publish, coreVars, streamVars, OnDart
    <3> QED BY <2>5, <3>1, <3>2, <3>3, <3>4 DEF Caller, AndroidCaller
  <2>6. CASE Cancels
    BY <2>6 DEF Cancels, AndroidCancel, TaskCancelled, StreamTerminated, DartCancel, CancelJob,
       coreVars, streamVars, OnApple, OnDart
  <2>7. CASE CoreCancels
    BY <2>7 DEF CoreCancels, CancelJob, streamVars
  <2> QED BY <1>3, <2>1, <2>2, <2>3, <2>4, <2>5, <2>6, <2>7
<1> QED BY <1>1, <1>2, <1>3 DEF Next, RNRuns

RNLabels ==
  /\ native \in {"none", "launched", "stored"}
  /\ co \in {"none", "launched", "collecting", "ended", "never"}
  /\ stored \in BOOLEAN /\ promise \in BOOLEAN /\ revoke \in BOOLEAN
  /\ jsEnd \in {"open", "done", "error"}
  /\ reader \in {"ready", "pulling", "returning", "over"}
  /\ toldJs \in {"nothing", "done", "error", "cancelled"}

RNSequences == /\ events \in Seq(1..Failed) /\ queue \in Seq(1..MaxDeltas)
               /\ heardJs \in Seq(1..MaxDeltas)

\* Every step keeps the types of the native module and the iterator.
LEMMA NextRNLabels == TypeOK /\ [Next]_vars => RNLabels'
<1> SUFFICES ASSUME TypeOK, [Next]_vars PROVE RNLabels'
  OBVIOUS
<1>t. RNLabels
  BY DEF TypeOK, RNLabels
<1> USE DEF RNLabels, jsVars
<1>1. CASE Launch
  BY <1>1, <1>t DEF Launch
<1>2. CASE StoreSubscription
  BY <1>2, <1>t DEF StoreSubscription
<1>3. CASE CancelSubscription
  BY <1>3, <1>t DEF CancelSubscription
<1>4. CASE CoroutineBegins
  BY <1>4, <1>t DEF CoroutineBegins
<1>5. CASE CoroutineEmits
  BY <1>5, <1>t DEF CoroutineEmits
<1>6. CASE CoroutineEnds
  BY <1>6, <1>t DEF CoroutineEnds
<1>7. CASE DeliverEvent
  BY <1>7, <1>t DEF DeliverEvent
<1>8. CASE NextDelta
  BY <1>8, <1>t DEF NextDelta
<1>9. CASE ReaderReturns
  BY <1>9, <1>t DEF ReaderReturns
<1>10. CASE ReaderLeaves
  BY <1>10, <1>t DEF ReaderLeaves
<1>11. CASE UNCHANGED rnVars
  BY <1>11, <1>t DEF rnVars
<1> QED BY <1>1, <1>2, <1>3, <1>4, <1>5, <1>6, <1>7, <1>8, <1>9, <1>10, <1>11, ReaderCases

\* Every step keeps the types of what is between the coroutine and the reader.
LEMMA NextRNSequences == TypeOK /\ [Next]_vars => RNSequences'
<1> SUFFICES ASSUME TypeOK, [Next]_vars PROVE RNSequences'
  OBVIOUS
<1>t. RNSequences /\ buffer \in Seq(1..MaxDeltas)
  BY DEF TypeOK, RNSequences
<1>n. /\ 1..MaxDeltas \subseteq 1..Failed /\ Ended \in 1..Failed /\ Failed \in 1..Failed
      /\ \A e \in 1..Failed : e \notin {Ended, Failed} => e \in 1..MaxDeltas
  BY BridgeAssumption DEF Ended, Failed
<1>1. CASE UNCHANGED <<events, queue, heardJs>>
  BY <1>1, <1>t DEF RNSequences
<1>2. CASE CoroutineEmits
  <2>1. /\ buffer # <<>> /\ events' = Append(events, Head(buffer))
        /\ UNCHANGED <<queue, heardJs>>
    BY <1>2 DEF CoroutineEmits, Take, jsVars
  <2>2. Head(buffer) \in 1..Failed
    BY <2>1, <1>t, <1>n, SeqTypes
  <2> QED BY <2>1, <2>2, <1>t, SeqTypes DEF RNSequences
<1>3. CASE CoroutineEnds
  <2>1. /\ events' = Append(events, Ended) \/ events' = Append(events, Failed)
        /\ UNCHANGED <<queue, heardJs>>
    BY <1>3 DEF CoroutineEnds, jsVars
  <2> QED BY <2>1, <1>t, <1>n, SeqTypes DEF RNSequences
<1>4. CASE DeliverEvent
  <2>1. /\ events # <<>> /\ events' = Tail(events)
        /\ \/ UNCHANGED <<queue, heardJs>>
           \/ /\ Head(events) \notin {Ended, Failed}
              /\ \/ heardJs' = Append(heardJs, Head(events)) /\ UNCHANGED queue
                 \/ queue' = Append(queue, Head(events)) /\ UNCHANGED heardJs
    BY <1>4 DEF DeliverEvent
  <2>2. Head(events) \in 1..Failed /\ Tail(events) \in Seq(1..Failed)
    BY <2>1, <1>t, SeqTypes DEF RNSequences
  <2> QED BY <2>1, <2>2, <1>t, <1>n, SeqTypes DEF RNSequences
<1>5. CASE NextDelta
  <2>1. /\ UNCHANGED events
        /\ \/ UNCHANGED <<queue, heardJs>>
           \/ /\ queue # <<>> /\ heardJs' = Append(heardJs, Head(queue)) /\ queue' = Tail(queue)
    BY <1>5 DEF NextDelta
  <2> QED BY <2>1, <1>t, SeqTypes DEF RNSequences
<1>6. CASE \/ Launch \/ StoreSubscription \/ CancelSubscription \/ CoroutineBegins
           \/ ReaderReturns \/ ReaderLeaves
  BY <1>6, <1>1 DEF Launch, StoreSubscription, CancelSubscription, CoroutineBegins,
     ReaderReturns, ReaderLeaves, jsVars
<1>7. CASE UNCHANGED rnVars
  BY <1>7, <1>1 DEF rnVars, jsVars
<1> QED BY <1>2, <1>3, <1>4, <1>5, <1>6, <1>7, ReaderCases
\* The events keep the order of the deltas, and the end comes last.
LEMMA NextEvents == Inv /\ [Next]_vars => EventInv'
<1> SUFFICES ASSUME Inv, [Next]_vars, OnRN' PROVE EventInv'
  BY DEF EventInv
<1> DEFINE pipe == heardJs \o queue \o events
<1>r. TypeOK /\ CallTypes /\ RNLabels
  BY DEF Inv, TypeOK, CallTypes, RNLabels
<1>o. OnRN
  <2>1. platform' = platform
    BY <1>r, ReaderCases DEF Launch, StoreSubscription, CancelSubscription, CoroutineBegins,
       CoroutineEmits, CoroutineEnds, DeliverEvent, NextDelta, ReaderReturns, ReaderLeaves,
       callVars, coreVars, AndroidStart, Begin, Take, SeeEnd, AndroidCancel
  <2> QED BY <2>1 DEF OnRN
<1>t. /\ pipe = IF Underway THEN Append(heard, TheEnd) ELSE heard
      /\ jsEnd # "open" => co = "ended" /\ events = <<>>
      /\ jsEnd = "done" => told = "done"
      /\ Underway => events # <<>>
      /\ native = "none" => co = "none"
      /\ co = "ended" => told # "nothing"
      /\ reader = "pulling" => queue = <<>> /\ jsEnd = "open"
      /\ toldJs = "done" => jsEnd = "done" /\ queue = <<>> /\ reader = "over"
  BY <1>o DEF Inv, EventInv
<1>n. /\ MaxDeltas \in Nat /\ TheEnd \in Nat /\ TheEnd > MaxDeltas
      /\ Ended = MaxDeltas + 1 /\ Failed = MaxDeltas + 2
  BY BridgeAssumption DEF TheEnd, Ended, Failed
<1>s. /\ heardJs \in Seq(Nat) /\ queue \in Seq(Nat) /\ events \in Seq(Nat) /\ heard \in Seq(Nat)
      /\ buffer \in Seq(Nat) /\ heardJs \o queue \in Seq(Nat) /\ pipe \in Seq(Nat)
  <2>1. /\ events \in Seq(1..Failed) /\ queue \in Seq(1..MaxDeltas)
        /\ heardJs \in Seq(1..MaxDeltas) /\ 1..Failed \subseteq Nat /\ 1..MaxDeltas \subseteq Nat
    BY DEF Inv, TypeOK
  <2>2. /\ heardJs \in Seq(Nat) /\ queue \in Seq(Nat) /\ events \in Seq(Nat)
    BY <2>1, SeqMonotonic
  <2> QED BY <2>2, DeltasAreNumbers, ConcatProperties
<1>w. \A e \in Nat :
        /\ Append(events, e) # <<>>
        /\ (heardJs \o queue) \o Append(events, e) = Append((heardJs \o queue) \o events, e)
        /\ heardJs \o Append(queue, e) = Append(heardJs \o queue, e)
  <2>1. PICK S : S = Nat
    OBVIOUS
  <2>2. heardJs \in Seq(S) /\ queue \in Seq(S) /\ events \in Seq(S) /\ heardJs \o queue \in Seq(S)
    BY <2>1, <1>s
  <2>3. \A e \in S : Append(events, e) # <<>>
    BY ONLY <2>2, AppendProperties
  <2>4. ASSUME NEW e \in S
        PROVE  (heardJs \o queue) \o Append(events, e) = Append((heardJs \o queue) \o events, e)
    BY ONLY <2>2, ConcatAppend, e \in S
  <2>5. ASSUME NEW e \in S PROVE heardJs \o Append(queue, e) = Append(heardJs \o queue, e)
    BY ONLY <2>2, ConcatAppend, e \in S
  <2>6. ASSUME NEW e \in Nat PROVE e \in S
    BY <2>1
  <2> QED BY <2>3, <2>4, <2>5, <2>6, Zenon
<1>h. \A i \in 1..Len(heard) : heard[i] <= MaxDeltas
  <2>1. heard \in Seq(1..MaxDeltas)
    BY DEF Inv, TypeOK
  <2>2. \A i \in 1..Len(heard) : heard[i] \in 1..MaxDeltas
    BY <2>1, ElementOfSeq
  <2> QED BY <2>2, <1>n
<1>l. ASSUME events # <<>>
      PROVE  /\ pipe = heard => Head(events) <= MaxDeltas
             /\ pipe = Append(heard, TheEnd) =>
                  /\ Head(events) > MaxDeltas =>
                       heardJs \o queue = heard /\ Head(events) = TheEnd /\ Tail(events) = <<>>
                  /\ Head(events) <= MaxDeltas => Tail(events) # <<>>
  <2> DEFINE s == heardJs \o queue
  <2>1. /\ s \in Seq(Nat) /\ heard \in Seq(Nat) /\ events \in Seq(Nat) /\ MaxDeltas \in Nat
        /\ TheEnd \in Nat /\ TheEnd > MaxDeltas /\ pipe = s \o events
    BY <1>n, <1>s
  <2> HIDE DEF pipe, s
  <2>2. pipe = heard => Head(events) <= MaxDeltas
    BY ONLY <1>l, <1>h, <2>1, EndIsLast
  <2>3. pipe = Append(heard, TheEnd) =>
          /\ Head(events) > MaxDeltas => s = heard /\ Head(events) = TheEnd /\ Tail(events) = <<>>
          /\ Head(events) <= MaxDeltas => Tail(events) # <<>>
    BY ONLY <1>l, <1>h, <2>1, EndIsLast
  <2> QED BY <2>2, <2>3 DEF s
\* What is left to show of a step that keeps the pipe and the reader.
<1>k. ASSUME pipe' = pipe, Underway' = Underway, TheEnd' = TheEnd, heard' = heard
      PROVE  pipe' = IF Underway' THEN Append(heard', TheEnd') ELSE heard'
  BY <1>k, <1>t
<1> HIDE DEF pipe
<1>1. CASE Launch \/ StoreSubscription \/ ReaderLeaves \/ ReaderReturns
  <2>1. /\ UNCHANGED <<heardJs, queue, events, heard, told, jsEnd>>
        /\ \/ native = "none" /\ co' = "launched" /\ native' = "launched"
           \/ co' = co /\ native' \in {native, "stored"}
        /\ (UNCHANGED <<reader, toldJs>>) \/ (reader' = "over" /\ toldJs' = "cancelled")
           \/ (reader = "ready" /\ reader' = "returning" /\ toldJs' = toldJs)
    BY <1>1 DEF Launch, StoreSubscription, ReaderLeaves, ReaderReturns, callVars, streamVars,
       jsVars
  <2> QED BY <2>1, <1>t DEF EventInv, Underway, TheEnd, Ended, Failed, pipe
<1>2. CASE CancelSubscription \/ CoroutineBegins
  <2>1. /\ UNCHANGED <<heardJs, queue, events, heard, jsEnd, reader, toldJs, native>>
        /\ \/ co = "launched" /\ co' = "never" /\ told' = told
           \/ co = "launched" /\ co' = "collecting" /\ told' = told
           \/ co = "collecting" /\ co' = co
           \/ co' = co /\ told' = told
    BY <1>2 DEF CancelSubscription, CoroutineBegins, AndroidStart, AndroidCancel, Begin,
       callVars, streamVars, jsVars
  <2> QED BY <2>1, <1>t DEF EventInv, Underway, TheEnd, Ended, Failed, pipe
<1>3. CASE CoroutineEmits
  <2>1. /\ co = "collecting" /\ co' = co /\ buffer # <<>> /\ heard' = Append(heard, Head(buffer))
        /\ events' = Append(events, Head(buffer))
        /\ UNCHANGED <<heardJs, queue, told, jsEnd, reader, toldJs, native>>
    BY <1>3 DEF CoroutineEmits, Take, jsVars
  <2>2. Head(buffer) \in Nat /\ ~Underway /\ ~Underway'
    BY <2>1, <1>s, HeadTailProperties DEF Underway
  <2>3. pipe' = heard'
    <3>1. /\ pipe' = (heardJs \o queue) \o Append(events, Head(buffer))
          /\ pipe = (heardJs \o queue) \o events
      BY <2>1 DEF pipe
    <3>2. pipe' = Append(pipe, Head(buffer))
      BY <3>1, <2>2, <1>w
    <3> QED BY <3>2, <2>1, <2>2, <1>t
  <2> QED BY <2>1, <2>2, <2>3, <1>t DEF EventInv, pipe
<1>4. CASE CoroutineEnds
  <2>1. /\ co = "collecting" /\ co' = "ended" /\ events' = Append(events, TheEnd')
        /\ told' # "nothing"
        /\ UNCHANGED <<heardJs, queue, heard, jsEnd, reader, toldJs, native>>
    <3>1. /\ co = "collecting" /\ co' = "ended"
          /\ UNCHANGED <<heardJs, queue, jsEnd, reader, toldJs, native>>
          /\ events' = Append(events, TheEnd')
      BY <1>4 DEF CoroutineEnds, jsVars, TheEnd, Ended, Failed
    <3>2. told' # "nothing" /\ heard' = heard
      BY <1>4, <1>r DEF CoroutineEnds, SeeEnd, callVars, streamVars, CallTypes
    <3> QED BY <3>1, <3>2
  <2>2. TheEnd' \in Nat /\ ~Underway /\ jsEnd = "open" /\ Underway'
    BY <2>1, <1>t, <1>n, <1>r DEF TheEnd, Ended, Failed, Underway, RNLabels
  <2>3. pipe' = Append(heard', TheEnd')
    <3>1. /\ pipe' = (heardJs \o queue) \o Append(events, TheEnd')
          /\ pipe = (heardJs \o queue) \o events
      BY <2>1 DEF pipe
    <3>2. pipe' = Append(pipe, TheEnd')
      BY <3>1, <2>2, <1>w
    <3> QED BY <3>2, <2>1, <2>2, <1>t
  <2>4. events' # <<>>
    BY <2>1, <2>2, <1>w
  <2> QED BY <2>1, <2>2, <2>3, <2>4, <1>t DEF EventInv, pipe
<1>5. CASE DeliverEvent
  <2>1. /\ events # <<>> /\ events' = Tail(events) /\ UNCHANGED <<heard, told, co, native>>
        /\ jsEnd = "open" /\ toldJs # "done"
    BY <1>5, <1>t DEF DeliverEvent, callVars, streamVars
  <2>2. Head(events) \in Nat /\ TheEnd' = TheEnd
    BY <2>1, <1>s, HeadTailProperties DEF TheEnd, Ended, Failed
  <2>3. CASE Head(events) > MaxDeltas
    <3>1. Underway /\ heardJs \o queue = heard /\ Head(events) = TheEnd /\ Tail(events) = <<>>
      <4>1. ~(Head(events) <= MaxDeltas)
        BY <2>2, <2>3, <1>n
      <4>2. Underway /\ pipe = Append(heard, TheEnd)
        BY <4>1, <2>1, <1>l, <1>t
      <4> QED BY <4>2, <2>1, <2>3, <1>l
    <3>2. /\ jsEnd' = IF told = "done" THEN "done" ELSE "error"
          /\ UNCHANGED <<heardJs, queue>>
          /\ \/ reader = "pulling" /\ reader' = "over" /\ toldJs' = jsEnd'
             \/ reader # "pulling" /\ UNCHANGED <<reader, toldJs>>
      BY <1>5, <3>1, <1>n DEF DeliverEvent, TheEnd
    <3>3. pipe' = heard'
      BY <2>1, <3>1, <3>2, <1>s, ConcatEmptySeq DEF pipe
    <3> QED BY <2>1, <3>1, <3>2, <3>3, <1>t DEF EventInv, Underway, pipe
  <2>4. CASE Head(events) <= MaxDeltas
    <3>1. Underway => Tail(events) # <<>>
      BY <2>1, <2>4, <1>l, <1>t
    <3>2. /\ UNCHANGED <<jsEnd, toldJs>>
          /\ \/ /\ reader = "pulling" /\ reader' = "ready" /\ UNCHANGED queue
                /\ heardJs' = Append(heardJs, Head(events))
             \/ /\ reader # "pulling" /\ reader' = reader /\ UNCHANGED heardJs
                /\ queue' = Append(queue, Head(events))
      <4>1. Head(events) \notin {Ended, Failed}
        BY <2>2, <2>4, <1>n
      <4> QED BY <1>5, <4>1 DEF DeliverEvent
    <3>3. pipe' = pipe
      <4>1. CASE reader = "pulling"
        <5>1. heardJs \o queue = heardJs /\ heardJs' \o queue' = heardJs'
          BY <4>1, <3>2, <1>t, <1>s, <2>2, ConcatEmptySeq, AppendProperties
        <5>2. Append(heardJs, Head(events)) \o Tail(events) = heardJs \o events
          BY <2>1, <1>s, HandOver
        <5> QED BY <5>1, <5>2, <4>1, <3>2, <2>1 DEF pipe
      <4>2. CASE reader # "pulling"
        <5>1. heardJs \o Append(queue, Head(events)) = Append(heardJs \o queue, Head(events))
          BY <2>2, <1>w
        <5>2. Append(heardJs \o queue, Head(events)) \o Tail(events) = (heardJs \o queue) \o events
          BY <2>1, <1>s, HandOver
        <5> QED BY <5>1, <5>2, <4>2, <3>2, <2>1 DEF pipe
      <4> QED BY <4>1, <4>2
    <3>4. Underway' = Underway
      BY <2>1, <3>2 DEF Underway
    <3> QED BY <2>1, <2>2, <3>1, <3>2, <3>3, <3>4, <1>k, <1>t DEF EventInv, pipe
  <2> QED BY <2>2, <2>3, <2>4, <1>n
<1>6. CASE NextDelta
  <2>1. /\ reader = "ready" /\ UNCHANGED <<heard, told, co, events, jsEnd, native>>
        /\ \/ /\ jsEnd = "error" /\ reader' = "over" /\ toldJs' = "error"
              /\ UNCHANGED <<queue, heardJs>>
           \/ /\ queue # <<>> /\ heardJs' = Append(heardJs, Head(queue)) /\ queue' = Tail(queue)
              /\ UNCHANGED <<reader, toldJs>>
           \/ /\ queue = <<>> /\ jsEnd = "done" /\ reader' = "over" /\ toldJs' = "done"
              /\ UNCHANGED <<queue, heardJs>>
           \/ /\ queue = <<>> /\ jsEnd = "open" /\ reader' = "pulling" /\ toldJs' = toldJs
              /\ UNCHANGED <<queue, heardJs>>
    BY <1>6, <1>r DEF NextDelta, callVars, streamVars, RNLabels
  <2>2. Underway' = Underway /\ TheEnd' = TheEnd
    BY <2>1 DEF Underway, TheEnd, Ended, Failed
  <2>3. pipe' = pipe
    <3>1. heardJs' \o queue' = heardJs \o queue
      BY <2>1, <1>s, HandOver
    <3> QED BY <3>1, <2>1 DEF pipe
  <2> QED BY <2>1, <2>2, <2>3, <1>k, <1>t DEF EventInv, pipe
<1>7. CASE UNCHANGED rnVars /\ platform' = platform /\ (OnRN => heard' = heard /\ told' = told)
  <2>1. UNCHANGED <<co, native, events, jsEnd, reader, toldJs, queue, heardJs, heard, told>>
    BY <1>7, <1>o DEF rnVars, jsVars
  <2> QED BY <2>1, <1>t DEF EventInv, Underway, TheEnd, Ended, Failed, pipe
<1> QED BY <1>1, <1>2, <1>3, <1>4, <1>5, <1>6, <1>7, <1>r, ReaderCases
-----------------------------------------------------------------------------
(* The theorems.                                                           *)

\* Before the call begins there is nothing of it.
LEMMA InitInv == Init => Inv
<1> SUFFICES ASSUME Init PROVE Inv
  OBVIOUS
<1> USE DEF Init, CallInit, RNInit
<1>n. /\ 0 \in 0..MaxDeltas /\ Len(<<>>) = 0 /\ \A i \in 1..0 : FALSE
      /\ \A S : <<>> \in Seq(S)
  BY BridgeAssumption, EmptySeq
<1>1. TypeOK
  BY <1>n DEF TypeOK
<1>2. ContextInv /\ HandleInv /\ EndInv
  BY DEF ContextInv, HandleInv, EndInv, Over, OnAndroid, OnApple, OnDart
<1>3. MailInv /\ NoneMissing
  BY <1>n DEF MailInv, NoneMissing, InMail, Posted
<1>4. OrderInv
  BY <1>n, BridgeAssumption DEF OrderInv, Ascending, Below, UpTo
<1>5. EventInv
  <2>1. <<>> \o <<>> \o <<>> = <<>>
    BY <1>n, ConcatEmptySeq
  <2> QED BY <2>1 DEF EventInv, Underway
<1> QED BY <1>1, <1>2, <1>3, <1>4, <1>5 DEF Inv

\* Every step keeps the invariant.
LEMMA NextInv == Inv /\ [Next]_vars => Inv'
<1> SUFFICES ASSUME Inv, [Next]_vars PROVE Inv'
  OBVIOUS
<1>1. TypeOK
  BY DEF Inv
<1>2. CallTypes' /\ StreamTypes' /\ RNLabels' /\ RNSequences'
  BY <1>1, NextCallTypes, NextStreamTypes, NextRNLabels, NextRNSequences
<1>3. MailInv'
  BY NextMail
<1>4. copies' \in Nat
  <2>1. mail' \in Seq(1..Completion)' /\ (Posted' => mail' # <<>>)
    BY <1>2, <1>3 DEF StreamTypes, MailInv
  <2>2. Len(mail') \in Nat /\ (mail' # <<>> => Len(mail') # 0)
    BY <2>1, LenProperties, EmptySeq
  <2>3. copies' = IF Posted' /\ outcome' = "ok" THEN Len(mail') - 1 ELSE Len(mail')
    BY <1>3 DEF MailInv
  <2> QED BY <2>1, <2>2, <2>3
<1>5. TypeOK'
  BY <1>2, <1>4 DEF TypeOK, CallTypes, StreamTypes, RNLabels, RNSequences
<1>6. ContextInv' /\ HandleInv' /\ EndInv' /\ OrderInv' /\ NoneMissing' /\ EventInv'
  BY NextContext, NextHandle, NextEnd, NextOrder, NextNoneMissing, NextEvents
<1> QED BY <1>3, <1>5, <1>6 DEF Inv

\* Every reachable state of a call satisfies the invariant, whichever binding makes it.
THEOREM InvariantHolds == Spec => []Inv
<1>1. Init => Inv
  BY InitInv
<1>2. Inv /\ [Next]_vars => Inv'
  BY NextInv
<1> QED BY <1>1, <1>2, PTL DEF Spec

\* The context that user_data points to is freed once, and not used afterwards, by whoever
\* ends the call: the entry point that fails, the completion callback, or the isolate.
THEOREM ContextIsFreed == Spec => []ContextFreedOnce
<1>1. Inv => ContextFreedOnce
  <2> SUFFICES ASSUME Inv PROVE ContextFreedOnce
    OBVIOUS
  <2>1. ctx = IF caller = "idle" THEN "none" ELSE IF Over THEN "freed" ELSE "held"
    BY DEF Inv, ContextInv
  <2>2. ASSUME Settled PROVE ctx = "freed" /\ copies = 0
    <3>1. caller = "over" /\ phase \in {"reported", "refused"} /\ Over
      BY <2>2 DEF Settled, Over
    <3>2. mail = <<>> /\ ~Posted
      BY <3>1 DEF Inv, MailInv, Posted
    <3>3. copies = 0
      BY <3>2, EmptySeq DEF Inv, MailInv
    <3> QED BY <2>1, <3>1, <3>3
  <2> QED BY <2>1, <2>2 DEF ContextFreedOnce
<1> QED BY <1>1, InvariantHolds, PTL

\* Every settled call has released its job's handle, but for Android's two ways around the
\* completion callback.
THEOREM HandleIsReclaimed == Spec => []HandleReclaimed
<1>1. Inv => HandleReclaimed
  <2> SUFFICES ASSUME Inv, Settled PROVE \/ phase = "refused" \/ handle = "released"
                                         \/ OnAndroid /\ (early \/ (form = "stream" /\ wants))
    BY DEF HandleReclaimed
  <2>1. OnAndroid \/ OnApple \/ OnDart
    BY BridgeAssumption DEF Inv, TypeOK, OnAndroid, OnApple, OnDart
  <2>2. HandleInv /\ caller = "over" /\ phase \in {"reported", "refused"}
    BY DEF Inv, Settled
  <2> QED BY <2>1, <2>2 DEF HandleInv, Abandoned
<1> QED BY <1>1, InvariantHolds, PTL

\* What the reader of an iterator was given is the beginning of what the coroutine read.
LEMMA GivenInOrder ==
  ASSUME Inv
  PROVE  Ascending(Given)
<1>1. CASE ~OnRN
  BY <1>1 DEF Given, Inv, OrderInv
<1>2. CASE OnRN
  <2>1. heardJs \in Seq(Nat) /\ queue \o events \in Seq(Nat) /\ heard \in Seq(Nat)
        /\ heardJs \o queue \o events = heardJs \o (queue \o events)
        /\ Len(heardJs) \in Nat /\ Len(heard) \in Nat /\ Len(queue \o events) \in Nat
    <3>1. PICK S : S = Nat
      OBVIOUS
    <3>2. heardJs \in Seq(S) /\ queue \in Seq(S) /\ events \in Seq(S) /\ heard \in Seq(S)
      <4>1. /\ events \in Seq(1..Failed) /\ queue \in Seq(1..MaxDeltas)
            /\ heardJs \in Seq(1..MaxDeltas) /\ 1..Failed \subseteq S /\ 1..MaxDeltas \subseteq S
        BY <3>1 DEF Inv, TypeOK
      <4> QED BY <4>1, <3>1, SeqMonotonic, DeltasAreNumbers
    <3>3. /\ queue \o events \in Seq(S)
          /\ heardJs \o queue \o events = heardJs \o (queue \o events)
      BY ONLY <3>2, ConcatProperties, ConcatAssociative
    <3> QED BY <3>1, <3>2, <3>3, LenProperties
  <2> DEFINE rest == queue \o events
             whole == heardJs \o rest
  <2>2. whole = IF Underway THEN Append(heard, TheEnd) ELSE heard
    BY <1>2, <2>1 DEF Inv, EventInv
  <2>3. Ascending(heard) /\ TheEnd \in Nat /\ \A i \in 1..Len(heard) : heard[i] < TheEnd
    <3>1. TheEnd \in Nat /\ MaxDeltas \in Nat /\ TheEnd > MaxDeltas
      BY BridgeAssumption DEF TheEnd, Ended, Failed
    <3>2. heard \in Seq(1..MaxDeltas) /\ Ascending(heard)
      BY DEF Inv, TypeOK, OrderInv
    <3>3. \A i \in 1..Len(heard) : heard[i] \in 1..MaxDeltas
      BY <3>2, ElementOfSeq
    <3> QED BY <3>1, <3>2, <3>3
  <2>4. Ascending(whole)
    <3>1. Ascending(Append(heard, TheEnd))
      BY <2>1, <2>3, AppendInOrder
    <3> QED BY <2>2, <2>3, <3>1
  <2>5. /\ Len(whole) = Len(heardJs) + Len(rest)
        /\ \A i \in 1..Len(heardJs) + Len(rest) :
              whole[i] = IF i <= Len(heardJs) THEN heardJs[i] ELSE rest[i - Len(heardJs)]
    BY <2>1, ConcatProperties
  <2> HIDE DEF rest, whole
  <2>6. \A i \in 1..Len(heardJs) : i \in 1..Len(whole) /\ whole[i] = heardJs[i]
    <3>1. Len(rest) \in Nat
      BY <2>1 DEF rest
    <3>2. \A i \in 1..Len(heardJs) : i \in 1..Len(heardJs) + Len(rest) /\ i <= Len(heardJs)
      BY <3>1, <2>1
    <3> QED BY <3>2, <2>5
  <2>7. Ascending(heardJs)
    BY <2>4, <2>6 DEF Ascending
  <2> QED BY <1>2, <2>7 DEF Given
<1> QED BY <1>1, <1>2

\* A stream that has ended without an error has delivered every delta.
LEMMA DoneIsWhole ==
  ASSUME Inv, form = "stream", Seen = "done"
  PROVE  \/ outcome = "ok" /\ Len(Given) = emitted
         \/ outcome = "cancelled" /\ OnApple
<1>1. told = "done" /\ Given = heard
  <2>1. CASE ~OnRN
    BY <2>1 DEF Seen, Given
  <2>2. CASE OnRN
    <3>1. toldJs = "done" /\ jsEnd = "done" /\ queue = <<>> /\ events = <<>> /\ told = "done"
          /\ heardJs \o queue \o events = heard
      BY <2>2 DEF Seen, Inv, EventInv, Underway
    <3>2. heardJs \in Seq(1..MaxDeltas)
      BY DEF Inv, TypeOK
    <3>3. heardJs \o <<>> \o <<>> = heardJs
      BY <3>2, ConcatEmptySeq
    <3> QED BY <2>2, <3>1, <3>3 DEF Given
  <2> QED BY <2>1, <2>2
<1>2. ~wants /\ ending = "done" /\ buffer = <<>> /\ Over
  BY <1>1 DEF Inv, EndInv
<1>3. /\ phase = "reported" /\ (outcome = "ok" \/ (outcome = "cancelled" /\ OnApple))
      /\ (outcome = "ok" => ~asked)
  BY <1>2 DEF Inv, EndInv, ContextInv
<1>4. mail = <<>> /\ ~Posted
  BY <1>2 DEF Inv, MailInv, Posted, Over
<1>5. ~asked => Len(heard) = emitted
  <2>1. ~asked => Len(heard) + 0 + 0 = emitted
    BY <1>2, <1>4, EmptySeq DEF Inv, NoneMissing, InMail
  <2> QED BY <2>1, DeltasAreNumbers, LenProperties
<1> QED BY <1>1, <1>3, <1>5

\* An error that nobody's cancellation caused comes after the deltas.
LEMMA ErrorIsLast ==
  ASSUME Inv, form = "stream", Seen = "error", ~asked, outcome = "failed"
  PROVE  Len(Given) = emitted \/ OnRN
<1> SUFFICES ASSUME ~OnRN PROVE Len(heard) = emitted
  BY DEF Given
<1>1. told = "error"
  BY DEF Seen
<1>2. ~wants /\ buffer = <<>> /\ Over
  BY <1>1 DEF Inv, EndInv
<1>3. mail = <<>> /\ ~Posted
  BY <1>2 DEF Inv, MailInv, Posted, Over
<1>4. Len(heard) + 0 + 0 = emitted
  BY <1>2, <1>3, EmptySeq DEF Inv, NoneMissing, InMail
<1> QED BY <1>4, DeltasAreNumbers, LenProperties

\* The deltas arrive in order and once, and none is missing when the stream ends without an
\* error: in every binding, whatever the reader, the job and the threads between them do.
THEOREM StreamIsWhole == Spec => []WholeStream
<1>1. Inv => WholeStream
  <2> SUFFICES ASSUME Inv, form = "stream" PROVE WholeStream
    BY DEF WholeStream
  <2>1. \A i, j \in 1..Len(Given) : i < j => Given[i] < Given[j]
    BY GivenInOrder DEF Ascending
  <2> QED BY <2>1, DoneIsWhole, ErrorIsLast DEF WholeStream
<1> QED BY <1>1, InvariantHolds, PTL

-----------------------------------------------------------------------------
(* The job under a call.                                                   *)

\* What a step does to the job: nothing, or one of its moves.
LEMMA JobMoves ==
  ASSUME [Next]_vars
  PROVE  \/ phase' = phase /\ outcome' = outcome
         \/ phase = "none" /\ phase' \in {"pending", "refused"} /\ outcome' = outcome
         \/ phase = "pending" /\ phase' = "running" /\ outcome' = outcome
         \/ /\ phase = "running" /\ phase' = "finished"
            /\ outcome' \in {"ok", "failed", "cancelled"}
         \/ phase = "pending" /\ phase' = "finished" /\ outcome' = "cancelled"
         \/ phase = "finished" /\ phase' = "reported" /\ outcome' = outcome
<1> USE DEF coreVars, streamVars, dartVars
<1>1. CASE Accept \/ AndroidRefused \/ AppleRefused \/ DartRefused
  BY <1>1 DEF Accept, AndroidRefused, AppleRefused, DartRefused, CoreRefuses
<1>2. CASE Start
  BY <1>2 DEF Start
<1>3. CASE Finish
  BY <1>3 DEF Finish
<1>4. CASE AndroidOnCompletion \/ AppleOnCompletion \/ DartOnCompletion
  BY <1>4 DEF AndroidOnCompletion, AppleOnCompletion, DartOnCompletion, CoreReports
<1>5. CASE CancelJob
  BY <1>5 DEF CancelJob
<1>6. CASE CoreCancels \/ AwaitCancels \/ StreamCancels \/ StreamTerminated \/ TokenCancels
  BY <1>5, <1>6 DEF CoreCancels, AwaitCancels, StreamCancels, StreamTerminated, TokenCancels
<1>7. CASE TaskCancelled \/ DartCancel
  BY <1>5, <1>7 DEF TaskCancelled, DartCancel
<1>8. CASE AndroidOnEvent \/ AppleOnEvent \/ DartOnEvent
  BY <1>8 DEF AndroidOnEvent, AppleOnEvent, DartOnEvent, CoreEmits
<1>9. CASE Begins \/ Publish \/ Take \/ SeeEnd \/ UNCHANGED callVars
  BY <1>9 DEF Begins, Begin, Publish, Take, SeeEnd, callVars
<1>10. CASE AndroidCancel \/ AwaitReturns \/ StreamCancelReturns \/ StreamUnregisters
  BY <1>10 DEF AndroidCancel, AwaitReturns, StreamCancelReturns, StreamUnregisters
<1>11. CASE AppleReturns \/ HandleEvent
  BY <1>11 DEF AppleReturns, HandleEvent, Receives
<1>12. CASE HandleCompletion
  BY <1>12 DEF HandleCompletion, Receives
<1> QED BY CallCases, <1>1, <1>2, <1>3, <1>4, <1>6, <1>7, <1>8, <1>9, <1>10, <1>11, <1>12

\* Each of its moves is one that AsyncJob promises.
LEMMA JobKept ==
  ASSUME TypeOK, [Next]_vars
  PROVE  [Promise!Next]_(Promise!vars)
<1>1. outcome \in {"ok", "cancelled", "failed"}
  BY DEF TypeOK
<1>2. CASE phase' = phase /\ outcome' = outcome
  <2>1. JobPhase' = JobPhase
    BY <1>2 DEF JobPhase
  <2> QED BY <1>2, <2>1 DEF Promise!vars
<1>3. CASE phase = "none" /\ phase' \in {"pending", "refused"} /\ outcome' = outcome
  <2>1. JobPhase = "PENDING" /\ JobPhase' = "PENDING"
    BY <1>3 DEF JobPhase
  <2> QED BY <1>3, <2>1 DEF Promise!vars
<1>4. CASE phase = "pending" /\ phase' = "running" /\ outcome' = outcome
  <2>1. JobPhase = "PENDING" /\ JobPhase' = "RUNNING"
    BY <1>4 DEF JobPhase
  <2>2. Promise!Start("job")
    BY <1>4, <2>1 DEF Promise!Start
  <2> QED BY <2>2 DEF Promise!Next
<1>5. CASE /\ phase = "running" /\ phase' = "finished"
           /\ outcome' \in {"ok", "failed", "cancelled"}
  <2>1. JobPhase = "RUNNING" /\ JobPhase' \in Promise!Outcomes
    BY <1>5 DEF JobPhase, Promise!Outcomes
  <2>2. Promise!Settle("job", JobPhase')
    BY <1>5, <2>1 DEF Promise!Settle
  <2> QED BY <2>1, <2>2 DEF Promise!Next
<1>6. CASE phase = "pending" /\ phase' = "finished" /\ outcome' = "cancelled"
  <2>1. JobPhase = "PENDING" /\ JobPhase' = "CANCELLED"
    BY <1>6 DEF JobPhase
  <2>2. Promise!Settle("job", "CANCELLED") /\ "CANCELLED" \in Promise!Outcomes
    BY <1>6, <2>1 DEF Promise!Settle, Promise!Outcomes
  <2> QED BY <2>2 DEF Promise!Next
<1>7. CASE phase = "finished" /\ phase' = "reported" /\ outcome' = outcome
  <2>1. JobPhase \in Promise!Outcomes /\ JobPhase' = JobPhase
    BY <1>1, <1>7 DEF JobPhase, Promise!Outcomes
  <2>2. Promise!Notify("job")
    BY <1>7, <2>1 DEF Promise!Notify
  <2> QED BY <2>2 DEF Promise!Next
<1> QED BY JobMoves, <1>2, <1>3, <1>4, <1>5, <1>6, <1>7

\* The job under every call, whichever binding made it and whoever cancels it, is one that
\* JobPool delivers: it starts at most once, ends once and for good, is reported once and
\* with that outcome (SubmitJob in api.cc, JobContext and Job in job.cc).
THEOREM JobIsPromised == Spec => KeepsPromise
<1>1. Init => Promise!Init
  BY DEF Init, CallInit, JobPhase, Promise!Init
<1>2. TypeOK /\ [Next]_vars => [Promise!Next]_(Promise!vars)
  BY JobKept
<1>3. Spec => []TypeOK
  <2>1. Inv => TypeOK
    BY DEF Inv
  <2> QED BY <2>1, InvariantHolds, PTL
<1> QED BY <1>1, <1>2, <1>3, PTL DEF Spec, KeepsPromise, Promise!Spec
=============================================================================
