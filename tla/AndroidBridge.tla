---------------------------- MODULE AndroidBridge ----------------------------
(***************************************************************************)
(* The Android binding: the JNI entry points and trampolines               *)
(* (bindings/android/src/main/cpp) and the coroutine adapters of           *)
(* internal/JobBridge.kt over NativeCallbacks.kt.  The context is the      *)
(* CallbackContext that carries the correlation id; the handle is known    *)
(* to the listener, the only one who releases it.                          *)
(***************************************************************************)
EXTENDS BridgeJob

OnAndroid == platform \in {"android", "reactNative"}

\* In a coroutine: the listener is registered before the entry point is called.
AndroidStart == OnAndroid /\ Begin(TRUE)

\* The entry point's status is not FLM_OK: the context is deleted and ThrowIfError throws
\* into start(), which unregisters the listener.
AndroidRefused ==
  /\ OnAndroid /\ CoreRefuses
  /\ ctx' = Frees /\ listening' = FALSE
  /\ caller' = "over"
  /\ IF form = "result" THEN told' = IF told = "nothing" THEN "error" ELSE told
                        ELSE UNCHANGED told
  /\ ending' = IF form = "stream" THEN "error" ELSE ending
  /\ UNCHANGED <<known, dartVars, buffer, heard, wants>>

\* listener.jobHandle = job, and the cancellation handler or awaitClose is installed.
AndroidPublish == OnAndroid /\ Publish

\* Fault: a delta that does not fit is dropped and the job goes on.
AndroidDropped_Silently == FALSE

\* onDelta and onProgress: the stream or the continuation is not active any more, or the
\* channel is full.
AndroidDropped == wants \/ (form = "stream" /\ Len(buffer) = BufferSize)

\* OnDeltaTrampoline and OnProgressTrampoline, dispatched to the listener if there is one.
AndroidOnEvent ==
  /\ OnAndroid /\ CoreEmits(listening /\ AndroidDropped)
  /\ ctx' = Uses
  /\ buffer' = IF listening /\ form = "stream" /\ ~wants /\ ending = "open"
                  /\ Len(buffer) < BufferSize
               THEN Append(buffer, emitted + 1) ELSE buffer
  /\ UNCHANGED <<caller, known, listening, dartVars, ending, heard, told, wants>>

\* What an awaiting caller resumes with: nothing to read the result from without a handle.
Resumed == IF told # "nothing" THEN told
           ELSE IF outcome = "ok" /\ ~known THEN "empty" ELSE ValueOf(outcome)

\* Fault: the context is deleted only when a listener was told.
AndroidCompletes_KeepsContext == IF listening THEN Frees ELSE Uses

AndroidCompletes == Frees

\* OnCompletionTrampoline: dispatchCompletion removes the listener and tells it; the
\* listener takes the result and releases the handle if it has been told the handle.
AndroidOnCompletion ==
  /\ OnAndroid /\ CoreReports(listening /\ known)
  /\ listening' = FALSE /\ ctx' = AndroidCompletes
  /\ IF listening /\ form = "result" THEN told' = Resumed ELSE UNCHANGED told
  /\ ending' = IF listening /\ form = "stream" /\ ending = "open" THEN EndOf(outcome) ELSE ending
  /\ UNCHANGED <<caller, known, dartVars, buffer, heard, wants>>

-----------------------------------------------------------------------------
(* The coroutine.                                                          *)

\* The coroutine is cancelled: the continuation or the channel with it.
AndroidCancel ==
  /\ OnAndroid /\ caller # "idle" /\ told = "nothing"
  /\ wants' = TRUE /\ told' = "cancelled"
  /\ buffer' = <<>> /\ ending' = IF ending = "open" THEN "error" ELSE ending
  /\ UNCHANGED <<coreVars, caller, ctx, known, listening, dartVars, heard>>

\* invokeOnCancellation; it is called at once when the cancellation came before it.
AwaitCancels ==
  /\ OnAndroid /\ form = "result" /\ caller = "waiting" /\ wants
  /\ CancelJob
  /\ caller' = "over"
  /\ UNCHANGED <<ctx, known, listening, dartVars, streamVars, told, wants>>

AwaitReturns ==
  /\ OnAndroid /\ form = "result" /\ caller = "waiting" /\ ~wants /\ told # "nothing"
  /\ caller' = "over"
  /\ UNCHANGED <<coreVars, ctx, known, listening, dartVars, streamVars, told, wants>>

\* Fault: only the listener is taken away.
StreamCancels_Forgets ==
  /\ OnAndroid /\ form = "stream" /\ caller = "waiting" /\ ending # "open"
  /\ caller' = "closing"
  /\ UNCHANGED <<coreVars, ctx, known, listening, dartVars, streamVars, told, wants>>

\* awaitClose, once the channel is closed or cancelled: the job is cancelled ...
StreamCancels ==
  /\ OnAndroid /\ form = "stream" /\ caller = "waiting" /\ ending # "open"
  /\ CancelJob
  /\ caller' = IF phase = "pending" THEN "cancelling" ELSE "closing"
  /\ UNCHANGED <<ctx, known, listening, dartVars, streamVars, told, wants>>

\* ... (a pending job is reported before flm_job_cancel returns) ...
StreamCancelReturns ==
  /\ caller = "cancelling" /\ phase = "reported"
  /\ caller' = "closing"
  /\ UNCHANGED <<coreVars, ctx, known, listening, dartVars, streamVars, told, wants>>

\* ... and the listener unregistered.
StreamUnregisters ==
  /\ caller = "closing"
  /\ caller' = "over" /\ listening' = FALSE
  /\ UNCHANGED <<coreVars, ctx, known, dartVars, streamVars, told, wants>>

AndroidCaller ==
  \/ AndroidPublish \/ AwaitCancels \/ AwaitReturns
  \/ StreamCancels \/ StreamCancelReturns \/ StreamUnregisters
=============================================================================
