----------------------------- MODULE DartBridge -----------------------------
(***************************************************************************)
(* The Flutter binding: the C adapters of core/src/flm_dart_bridge.c,      *)
(* which copy what a callback gets and post it to the isolate, and the     *)
(* JobRunner of bindings/flutter/lib/src/job_runner.dart, which handles    *)
(* the messages one at a time once start() has returned.  The context is   *)
(* the FlmDartBridgeCtx; the listeners are NativeCallables, which drop     *)
(* what is posted to them after they were closed.                          *)
(***************************************************************************)
EXTENDS BridgeJob

OnDart == platform = "dart"

Completion == MaxDeltas + 1   \* the message that is not a delta

DartStart == OnDart /\ Begin(TRUE)

\* _teardownWithoutJob, then throwLastError out of start().
DartRefused ==
  /\ OnDart /\ CoreRefuses
  /\ ctx' = Frees /\ listening' = FALSE /\ caller' = "over"
  /\ told' = "error"
  /\ UNCHANGED <<known, dartVars, streamVars, wants>>

DartPublish == OnDart /\ Publish

\* flm_dart_bridge_delta and _progress: copy, post, and never ask for cancellation.
DartOnEvent ==
  /\ OnDart /\ CoreEmits(FALSE)
  /\ ctx' = Uses
  /\ copies' = copies + 1 /\ mail' = Append(mail, emitted + 1)
  /\ UNCHANGED <<caller, known, listening, streamVars, told, wants>>

\* flm_dart_bridge_complete: the error document is copied too.
DartOnCompletion ==
  /\ OnDart /\ CoreReports(FALSE)
  /\ ctx' = Uses
  /\ copies' = IF outcome = "ok" THEN copies ELSE copies + 1
  /\ mail' = Append(mail, Completion)
  /\ UNCHANGED <<caller, known, listening, streamVars, told, wants>>

-----------------------------------------------------------------------------
(* The isolate, which is in start() until the handle is published.         *)

Receives == /\ OnDart /\ caller = "waiting" /\ mail # <<>> /\ listening
            /\ mail' = Tail(mail)

\* _onDelta, _onProgress: the controller drops what nobody listens to any more.
HandleEvent ==
  /\ Receives /\ Head(mail) # Completion
  /\ buffer' = IF form = "stream" /\ ending = "open" /\ ~wants
               THEN Append(buffer, Head(mail)) ELSE buffer
  /\ copies' = copies - 1
  /\ UNCHANGED <<coreVars, caller, ctx, known, listening, ending, heard, told, wants>>

\* What _onCompletion frees: the error document, if there is one.
FreedCopies == IF outcome = "ok" THEN 0 ELSE 1

\* _onCompletion: result or error to the completer and the stream, then _finalize.
HandleCompletion ==
  /\ Receives /\ Head(mail) = Completion
  /\ told' = IF form = "result" THEN ValueOf(outcome) ELSE told
  /\ ending' = IF form = "stream" THEN EndOf(outcome) ELSE ending
  /\ copies' = copies - FreedCopies
  /\ handle' = "released" /\ known' = FALSE
  /\ listening' = FALSE /\ ctx' = Frees /\ caller' = "over"
  /\ UNCHANGED <<form, platform, phase, asked, emitted, outcome, early, buffer, heard, wants>>

\* The subscription or the token is cancelled; a token also before the call begins.
DartCancel ==
  /\ OnDart /\ ~wants /\ told = "nothing"
  /\ form = "stream" => caller \in {"waiting", "over"} /\ ending = "open"
  /\ wants' = TRUE
  /\ IF form = "stream" THEN told' = "cancelled" /\ buffer' = <<>> ELSE UNCHANGED <<told, buffer>>
  /\ IF form = "stream" /\ known THEN CancelJob ELSE UNCHANGED coreVars
  /\ UNCHANGED <<caller, ctx, known, listening, dartVars, ending, heard>>

\* The token's listener, which is installed once the job has started.
TokenCancels ==
  /\ OnDart /\ form = "result" /\ caller = "waiting" /\ wants /\ ~asked
  /\ phase \in {"pending", "running"}
  /\ CancelJob
  /\ UNCHANGED <<caller, ctx, known, listening, dartVars, streamVars, told, wants>>

DartIsolate ==
  \/ DartStart \/ DartPublish \/ TokenCancels \/ HandleEvent \/ HandleCompletion
=============================================================================
