------------------------------ MODULE Bridges ------------------------------
(***************************************************************************)
(* One asynchronous call through each of the language bindings: the core's *)
(* job (BridgeJob) composed with the binding that started it, and what an  *)
(* application may rely on whichever binding it uses.                      *)
(***************************************************************************)
EXTENDS AppleBridge, DartBridge, ReactNativeBridge

vars == <<callVars, rnVars>>

Init == /\ CallInit /\ RNInit
        /\ platform = "reactNative" => form = "stream"

\* The job's thread: what it does in the core and in the callbacks of each binding.
Worker == \/ Start \/ Finish
          \/ AndroidOnEvent \/ AppleOnEvent \/ DartOnEvent

Report == AndroidOnCompletion \/ AppleOnCompletion \/ DartOnCompletion

EntryPoint == Accept \/ AndroidRefused \/ AppleRefused \/ DartRefused

\* The reader of the stream, or the code that awaits the result.
Consumer == platform # "reactNative" /\ (Take \/ SeeEnd)

\* The binding's own threads: the coroutine, the Swift task, the isolate.
Caller == (platform = "android" /\ AndroidStart) \/ AndroidCaller \/ AppleCaller \/ DartIsolate

Cancels == (platform = "android" /\ AndroidCancel) \/ TaskCancelled \/ StreamTerminated \/ DartCancel

Next == \/ (Worker \/ Report \/ EntryPoint \/ Consumer \/ Caller \/ Cancels \/ CoreCancels)
           /\ UNCHANGED rnVars
        \/ RNRuns \/ ReaderLeaves

Spec == Init /\ [][Next]_vars

Quietly(A) == A /\ UNCHANGED rnVars

\* The pool's threads, the binding's executor and the reader keep running.  The body of a
\* job need not end before its cancellation is requested: a transcription waits for audio.
\* Nobody has to cancel or to leave a stream.
FairSpec ==
  /\ Spec
  /\ WF_vars(Quietly(Start)) /\ WF_vars(Quietly(asked /\ Finish)) /\ WF_vars(Quietly(Report))
  /\ WF_vars(Quietly(EntryPoint)) /\ WF_vars(Quietly(Consumer)) /\ WF_vars(Quietly(Caller))
  /\ WF_vars(RNRuns)

-----------------------------------------------------------------------------
\* Nothing of the call is going on any more.
Settled == /\ caller = "over" /\ phase \in {"reported", "refused"}
           /\ OnRN => co = "ended"

\* The context that user_data points to is never used after it was freed nor freed twice,
\* and when the call has settled it and every copy made for a message have been freed: on
\* success, failure, cancellation and refusal, whoever reports the job.
ContextFreedOnce == /\ ctx # "misused"
                    /\ Settled => ctx = "freed" /\ copies = 0

\* Every settled call has released its job handle, although each binding does so only in
\* its completion callback.  The two ways around that callback are Android's: the job is
\* reported before the listener has been told its handle (JobBridge.kt:52, 81), or a
\* stream is closed early and takes its listener away from a running job (line 87).
HandleReclaimed ==
  Settled => \/ phase = "refused" \/ handle = "released"
             \/ OnAndroid /\ (early \/ (form = "stream" /\ wants))

\* What the reader of the stream was given, and how it saw the stream end.
Given == IF OnRN THEN heardJs ELSE heard
Seen == IF OnRN THEN toldJs ELSE told

\* A stream ends without an error only when its job succeeded and every delta was
\* delivered, in order and once: a delta that a full channel drops always ends in an error.
\* Apple's streams alone end in the same way when the job is cancelled behind the reader's
\* back (Job.swift:302).  An error that nobody's cancellation caused comes after the deltas
\* made before it, except in React Native, where it overtakes them (stream.ts:160).
WholeStream ==
  form = "stream" =>
    /\ \A i, j \in 1..Len(Given) : i < j => Given[i] < Given[j]
    /\ Seen = "done" => \/ outcome = "ok" /\ Len(Given) = emitted
                        \/ outcome = "cancelled" /\ OnApple
    /\ (Seen = "error" /\ ~asked /\ outcome = "failed") => Len(Given) = emitted \/ OnRN

\* A React Native coroutine that is cancelled before it runs never does: it emits no event
\* and its promise does not settle (FoundryLocalModule.kt:445, stream.ts:176).
NeverRan == co = "never"

\* The cancellation of a Swift task that found no handle: nobody repeats it (Job.swift:208).
CancelLost == OnApple /\ form = "result" /\ ~asked

\* The end of a job reaches whoever awaits it or reads its stream, also when it ended
\* before the entry point had returned; a caller who cancels ends the job, also one whose
\* body would never end, and a reader who leaves a React Native stream gets away.
CallSettles ==
  /\ phase \in {"finished", "refused"} ~> Seen # "nothing"
  /\ (wants /\ ~CancelLost) ~> (phase \in {"reported", "refused"})
  /\ reader = "returning" ~> (reader = "over" \/ NeverRan)

\* The job under a call, as its owner may count on it.  A refused entry point leaves a job
\* that nothing ever happened to; taking results is left out of the bindings.
JobPhase == CASE phase \in {"none", "refused", "pending"} -> "PENDING"
              [] phase = "running" -> "RUNNING"
              [] phase \in {"finished", "reported"} ->
                   CASE outcome = "ok" -> "SUCCEEDED"
                     [] outcome = "failed" -> "FAILED"
                     [] outcome = "cancelled" -> "CANCELLED"

Promise == INSTANCE AsyncJob WITH
  Jobs <- {"job"},
  phase <- [j \in {"job"} |-> JobPhase],
  notified <- [j \in {"job"} |-> IF phase = "reported" THEN 1 ELSE 0],
  told <- [j \in {"job"} |-> IF phase = "reported" THEN JobPhase ELSE "none"],
  taken <- [j \in {"job"} |-> 0]

\* The core's side of a call does nothing that AsyncJob does not promise of a job: what
\* the bindings are shown to cope with is what JobPool implements.
KeepsPromise == Promise!Spec

-----------------------------------------------------------------------------
(* Why the safety properties hold: the parts of an inductive invariant.    *)

TypeOK ==
  /\ platform \in Platforms /\ form \in {"result", "stream"}
  /\ platform = "reactNative" => form = "stream"
  /\ phase \in {"none", "pending", "running", "finished", "reported", "refused"}
  /\ asked \in BOOLEAN /\ early \in BOOLEAN /\ emitted \in 0..MaxDeltas
  /\ outcome \in {"ok", "cancelled", "failed"} /\ handle \in {"none", "live", "released"}
  /\ caller \in {"idle", "entry", "accepted", "waiting", "cancelling", "closing", "over"}
  /\ ctx \in {"none", "held", "freed", "misused"}
  /\ known \in BOOLEAN /\ listening \in BOOLEAN /\ wants \in BOOLEAN
  /\ mail \in Seq(1..Completion) /\ copies \in Nat
  /\ buffer \in Seq(1..MaxDeltas) /\ heard \in Seq(1..MaxDeltas)
  /\ ending \in {"open", "done", "error"}
  /\ told \in {"nothing", "value", "empty", "done", "error", "cancelled"}
  /\ native \in {"none", "launched", "stored"}
  /\ co \in {"none", "launched", "collecting", "ended", "never"}
  /\ stored \in BOOLEAN /\ promise \in BOOLEAN /\ revoke \in BOOLEAN
  /\ events \in Seq(1..Failed) /\ queue \in Seq(1..MaxDeltas) /\ heardJs \in Seq(1..MaxDeltas)
  /\ jsEnd \in {"open", "done", "error"}
  /\ reader \in {"ready", "pulling", "returning", "over"}
  /\ toldJs \in {"nothing", "done", "error", "cancelled"}

\* The context lives from the entry to the completion callback, or in Flutter until the
\* isolate has handled the message that callback posts.
Over == IF OnDart THEN caller = "over" ELSE phase \in {"reported", "refused"}

ContextInv ==
  /\ ctx = IF caller = "idle" THEN "none" ELSE IF Over THEN "freed" ELSE "held"
  /\ phase = "none" <=> caller \in {"idle", "entry"}
  /\ phase = "refused" => caller = "over"
  /\ OnDart /\ caller = "over" => phase \in {"reported", "refused"}
  /\ caller \in {"cancelling", "closing"} => OnAndroid /\ form = "stream" /\ ending # "open"
  /\ phase \notin {"finished", "reported"} => outcome = "ok"
  /\ outcome = "ok" /\ asked => phase = "running"

\* Who releases the handle: the completion callback, which finds the listener and the handle
\* unless the call is one of the exceptions.
Abandoned == form = "stream" /\ wants

HandleInv ==
  /\ OnApple /\ phase = "reported" => handle = "released"
  /\ OnDart /\ caller = "over" => phase = "refused" \/ handle = "released"
  /\ OnAndroid /\ caller = "entry" => listening
  /\ OnAndroid /\ phase = "reported" => handle = "released" \/ early \/ Abandoned
  /\ OnAndroid /\ phase \in {"pending", "running", "finished"} =>
       (known \/ caller = "accepted") /\ (listening \/ Abandoned)

\* The messages to the isolate: each delta with its copy and then the completion, once.
Posted == OnDart /\ phase = "reported" /\ caller # "over"

MailInv ==
  /\ phase \in {"none", "pending", "refused"} => emitted = 0
  /\ ~OnDart \/ caller = "over" => mail = <<>>
  /\ \A i \in 1..Len(mail) : mail[i] <= emitted \/ (Posted /\ mail[i] = Completion)
  /\ Posted => mail # <<>> /\ mail[Len(mail)] = Completion
  /\ copies = IF Posted /\ outcome = "ok" THEN Len(mail) - 1 ELSE Len(mail)

\* The deltas are in order: what the reader has, what the stream holds, what is in the mail.
Ascending(s) == \A i, j \in 1..Len(s) : i < j => s[i] < s[j]
Below(s, t) == \A i \in 1..Len(s), j \in 1..Len(t) : s[i] < t[j]
UpTo(s, n) == \A i \in 1..Len(s) : s[i] <= n

OrderInv ==
  /\ Ascending(heard) /\ Ascending(buffer) /\ Ascending(mail)
  /\ Below(heard, buffer) /\ Below(heard, mail) /\ Below(buffer, mail)
  /\ UpTo(heard, emitted) /\ UpTo(buffer, emitted)
  /\ OnAndroid => Len(buffer) <= BufferSize

\* A stream ends when its job has, or its reader; what the reader sees is after the deltas.
EndInv ==
  /\ ending # "open" => wants \/ Over
  /\ ending = "done" /\ ~wants =>
       phase = "reported" /\ (outcome = "ok" \/ (outcome = "cancelled" /\ OnApple))
  /\ form = "stream" =>
       /\ wants => told = "cancelled" /\ (OnDart => caller \in {"waiting", "over"})
       /\ told \in {"done", "error"} => buffer = <<>> /\ Over
       /\ told = "done" => ending = "done"

\* No delta is missing unless the job is asked to stop or the reader has left.
InMail == IF Posted THEN Len(mail) - 1 ELSE Len(mail)
NoneMissing == form = "stream" /\ ~asked /\ ~wants => Len(heard) + Len(buffer) + InMail = emitted

\* In React Native the coroutine is the reader, and what it read is on its way to the reader
\* of the iterator: handed over, in the queue, in events.  The last event is the end.
Underway == co = "ended" /\ jsEnd = "open"
TheEnd == IF told = "done" THEN Ended ELSE Failed

EventInv ==
  OnRN =>
    /\ heardJs \o queue \o events = IF Underway THEN Append(heard, TheEnd) ELSE heard
    /\ jsEnd # "open" => co = "ended" /\ events = <<>>
    /\ jsEnd = "done" => told = "done"
    /\ Underway => events # <<>>
    /\ native = "none" => co = "none"
    /\ co = "ended" => told # "nothing"
    /\ reader = "pulling" => queue = <<>> /\ jsEnd = "open"
    /\ toldJs = "done" => jsEnd = "done" /\ queue = <<>> /\ reader = "over"

Inv == /\ TypeOK /\ ContextInv /\ HandleInv /\ EndInv
       /\ MailInv /\ OrderInv /\ NoneMissing /\ EventInv
=============================================================================
