-------------------------- MODULE ReactNativeBridge --------------------------
(***************************************************************************)
(* A delta stream of the React Native binding on Android: streamDeltas and *)
(* cancelSubscription of FoundryLocalModule.kt run the Android binding's   *)
(* flow in a coroutine and emit its deltas and its end as events, which    *)
(* makeDeltaStream (bindings/react-native/src/stream.ts) turns into an     *)
(* async iterator.  The flow's consumer is the coroutine, so told says     *)
(* what the coroutine saw; toldJs says what the iterator's reader did.     *)
(***************************************************************************)
EXTENDS AndroidBridge

VARIABLES
  native,  \* the call of streamDeltas: none, launched, stored
  stored,  \* subscriptions has the coroutine
  co,      \* the coroutine: none, launched, collecting, ended, never (cancelled before it ran)
  promise, \* the promise of streamDeltas has settled
  revoke,  \* cancelSubscription was called and has not reached the native module
  events,  \* emitted and not yet delivered: numbers of deltas, Ended or Failed
  queue,   \* makeDeltaStream: queue
  jsEnd,   \* makeDeltaStream: ended and error; open, done or error
  reader,  \* the iterator's reader: ready, pulling (in next()), returning (in return()), over
  heardJs, toldJs

jsVars == <<queue, jsEnd, reader, heardJs, toldJs>>
rnVars == <<native, stored, co, promise, revoke, events, jsVars>>

OnRN == platform = "reactNative"

\* The two terminal events.
Ended == MaxDeltas + 1
Failed == MaxDeltas + 2

RNInit ==
  /\ native = "none" /\ stored = FALSE /\ co = "none" /\ promise = FALSE /\ revoke = FALSE
  /\ events = <<>> /\ queue = <<>> /\ jsEnd = "open" /\ reader = "ready"
  /\ heardJs = <<>> /\ toldJs = "nothing"

-----------------------------------------------------------------------------
(* FoundryLocalModule.streamDeltas and cancelSubscription, on the native   *)
(* modules' thread, and the coroutine, on another.                         *)

Launch ==
  /\ OnRN /\ native = "none"
  /\ native' = "launched" /\ co' = "launched"
  /\ UNCHANGED <<callVars, stored, promise, revoke, events, jsVars>>

\* The coroutine may have ended by now: then the entry stays.
StoreSubscription ==
  /\ OnRN /\ native = "launched"
  /\ native' = "stored" /\ stored' = TRUE
  /\ UNCHANGED <<callVars, co, promise, revoke, events, jsVars>>

\* A coroutine that has not been dispatched yet completes without running its body.
CancelSubscription ==
  /\ OnRN /\ revoke /\ native = "stored"
  /\ revoke' = FALSE /\ stored' = FALSE
  /\ co' = IF stored /\ co = "launched" THEN "never" ELSE co
  /\ IF stored /\ co = "collecting" /\ told = "nothing" THEN AndroidCancel ELSE UNCHANGED callVars
  /\ UNCHANGED <<native, promise, events, jsVars>>

CoroutineBegins ==
  /\ OnRN /\ co = "launched"
  /\ AndroidStart
  /\ co' = "collecting"
  /\ UNCHANGED <<native, stored, promise, revoke, events, jsVars>>

CoroutineEmits ==
  /\ OnRN /\ co = "collecting" /\ Take
  /\ events' = Append(events, Head(buffer))
  /\ UNCHANGED <<native, stored, co, promise, revoke, jsVars>>

\* onCompletion: the terminal event; then the promise is resolved however the flow ended.
CoroutineEnds ==
  /\ OnRN /\ co = "collecting"
  /\ IF told = "cancelled" THEN UNCHANGED callVars ELSE SeeEnd
  /\ events' = Append(events, IF told' = "done" THEN Ended ELSE Failed)
  /\ co' = "ended" /\ stored' = FALSE /\ promise' = TRUE
  /\ UNCHANGED <<native, revoke, jsVars>>

-----------------------------------------------------------------------------
(* stream.ts.                                                              *)

\* An event reaches the listeners, unless they were removed.
DeliverEvent ==
  /\ OnRN /\ events # <<>>
  /\ LET e == Head(events) IN
     IF e \in {Ended, Failed}
       THEN /\ jsEnd' = IF e = Ended THEN "done" ELSE "error"
            /\ IF reader = "pulling" THEN reader' = "over" /\ toldJs' = jsEnd'
                                     ELSE UNCHANGED <<reader, toldJs>>
            /\ UNCHANGED <<queue, heardJs>>
       ELSE /\ IF reader = "pulling" THEN heardJs' = Append(heardJs, e) /\ UNCHANGED queue
                                     ELSE queue' = Append(queue, e) /\ UNCHANGED heardJs
            /\ reader' = IF reader = "pulling" THEN "ready" ELSE reader
            /\ UNCHANGED <<jsEnd, toldJs>>
  /\ events' = Tail(events)
  /\ UNCHANGED <<callVars, native, stored, co, promise, revoke>>

\* next(): an error is thrown before what is queued is read.
NextDelta ==
  /\ OnRN /\ native # "none" /\ reader = "ready"
  /\ IF jsEnd = "error"
       THEN reader' = "over" /\ toldJs' = "error" /\ UNCHANGED <<queue, heardJs>>
     ELSE IF queue # <<>>
       THEN heardJs' = Append(heardJs, Head(queue)) /\ queue' = Tail(queue)
            /\ UNCHANGED <<reader, toldJs>>
     ELSE /\ reader' = IF jsEnd = "done" THEN "over" ELSE "pulling"
          /\ toldJs' = IF jsEnd = "done" THEN "done" ELSE toldJs
          /\ UNCHANGED <<queue, heardJs>>
  /\ UNCHANGED <<callVars, native, stored, co, promise, revoke, events, jsEnd>>

\* return(): the subscription is cancelled, and then the promise awaited.
ReaderLeaves ==
  /\ OnRN /\ native # "none" /\ reader = "ready"
  /\ reader' = "returning" /\ revoke' = (jsEnd = "open")
  /\ UNCHANGED <<callVars, native, stored, co, promise, events, queue, jsEnd, heardJs, toldJs>>

ReaderReturns ==
  /\ OnRN /\ reader = "returning" /\ promise
  /\ reader' = "over" /\ toldJs' = "cancelled"
  /\ UNCHANGED <<callVars, native, stored, co, promise, revoke, events, queue, jsEnd, heardJs>>

RNRuns ==
  \/ Launch \/ StoreSubscription \/ CancelSubscription
  \/ CoroutineBegins \/ CoroutineEmits \/ CoroutineEnds
  \/ DeliverEvent \/ NextDelta \/ ReaderReturns
=============================================================================
