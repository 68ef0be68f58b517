----------------------------- MODULE AppleBridge -----------------------------
(***************************************************************************)
(* The iOS and macOS binding: runAsyncJob and runStreamingJob of           *)
(* bindings/ios/Sources/FoundryLocal/Job.swift.  The context is the        *)
(* retained AsyncCallContext or StreamCallContext; the completion bridge   *)
(* releases the handle it is called with.                                  *)
(***************************************************************************)
EXTENDS BridgeJob

OnApple == platform = "apple"

AppleStart == OnApple /\ Begin(FALSE)

\* takeRetainedValue, then the continuation is resumed or the stream finished with an error.
AppleRefused ==
  /\ OnApple /\ CoreRefuses
  /\ ctx' = Frees /\ caller' = "over"
  /\ told' = IF form = "result" THEN "error" ELSE told
  /\ ending' = IF form = "stream" THEN "error" ELSE ending
  /\ UNCHANGED <<known, listening, dartVars, buffer, heard, wants>>

\* jobBox.set; for a stream also onTermination, before anybody has the stream.
ApplePublish == OnApple /\ Publish

\* The bridges never ask for cancellation; a stream that has ended ignores yield.
AppleOnEvent ==
  /\ OnApple /\ CoreEmits(FALSE)
  /\ ctx' = Uses
  /\ buffer' = IF form = "stream" /\ ending = "open" THEN Append(buffer, emitted + 1) ELSE buffer
  /\ UNCHANGED <<caller, known, listening, dartVars, ending, heard, told, wants>>

\* finishStream: a cancelled job's stream finishes without an error.
AppleEndOf(o) == IF o = "failed" THEN "error" ELSE "done"

\* Fault: the bridge takes the handle from the job box.
AppleReleases_Box == known

AppleReleases == TRUE

\* deliverCompletion or finishStream, then flm_job_release.
AppleOnCompletion ==
  /\ OnApple /\ CoreReports(AppleReleases)
  /\ ctx' = Frees
  /\ told' = IF form = "result" THEN ValueOf(outcome) ELSE told
  /\ ending' = IF form = "stream" /\ ending = "open" THEN AppleEndOf(outcome) ELSE ending
  /\ UNCHANGED <<caller, known, listening, dartVars, buffer, heard, wants>>

-----------------------------------------------------------------------------
\* The task is cancelled, perhaps before the call begins: onCancel runs now and never
\* again, and finds the handle only once the box is set.
TaskCancelled ==
  /\ OnApple /\ form = "result" /\ ~wants /\ told = "nothing"
  /\ wants' = TRUE
  /\ IF known THEN CancelJob ELSE UNCHANGED coreVars
  /\ UNCHANGED <<caller, ctx, known, listening, dartVars, streamVars, told>>

\* The consumer's task is cancelled or its iterator dropped: onTermination.
StreamTerminated ==
  /\ OnApple /\ form = "stream" /\ caller = "waiting" /\ ending = "open"
  /\ wants' = TRUE /\ told' = "cancelled"
  /\ CancelJob
  /\ buffer' = <<>> /\ ending' = "done"
  /\ UNCHANGED <<caller, ctx, known, listening, dartVars, heard>>

\* The awaiting call returns, the stream's consumer is done with it.
AppleReturns ==
  /\ OnApple /\ caller = "waiting" /\ told # "nothing"
  /\ caller' = "over"
  /\ UNCHANGED <<coreVars, ctx, known, listening, dartVars, streamVars, told, wants>>

AppleCaller == AppleStart \/ ApplePublish \/ AppleReturns
=============================================================================
