------------------------------ MODULE BridgeJob ------------------------------
(***************************************************************************)
(* One asynchronous call of a language binding: the state every binding    *)
(* shares and the core's side of the call (SubmitJob in core/src/api.cc,   *)
(* JobContext and Job in job.cc, reduced to what the binding can observe:  *)
(* JobPool has the interleavings inside the core).                         *)
(*                                                                         *)
(* A "result" call is awaited and may report progress; a "stream" call     *)
(* delivers deltas 1, 2, ... to a consumer.  The job may run, and even be  *)
(* reported, before the entry point that submitted it returns.             *)
(***************************************************************************)
EXTENDS Naturals, Sequences

CONSTANTS Platforms,  \* the bindings: subset of {"android", "apple", "dart", "reactNative"}
          MaxDeltas,  \* bound of the model: how many deltas or progress reports a job makes
          BufferSize  \* capacity of an Android stream's channel (64 in the code)

ASSUME BridgeAssumption ==
  /\ Platforms \subseteq {"android", "apple", "dart", "reactNative"}
  /\ MaxDeltas \in Nat /\ BufferSize \in Nat \ {0}

VARIABLES
  platform, form,  \* the binding, and "result" or "stream"
  phase,     \* of the job: none, pending, running, finished, reported; refused
  asked,     \* the job's cancellation was requested
  emitted,   \* how many deltas or progress reports the body has made
  outcome,   \* of a finished job: ok, cancelled or failed
  handle,    \* the job's handle: none, live or released
  early,     \* history: the job was reported before the entry point returned
  caller,    \* idle, entry, accepted (in the entry point), waiting, closing, over
  ctx,       \* what user_data points to: none, held, freed; misused if used or freed again
  known,     \* the binding has stored the job handle where its cancel finds it
  listening, \* the listener that the callbacks are forwarded to is registered
  mail,      \* messages posted to the isolate (Dart)
  copies,    \* heap copies made for messages and not yet freed (Dart)
  buffer,    \* deltas in the stream, not yet taken by its consumer
  ending,    \* how the stream ends after its buffer: open, done, error
  heard,     \* deltas the consumer has taken
  told,      \* what the caller has seen last: nothing, value, empty, done, error, cancelled
  wants      \* the caller has cancelled

coreVars == <<form, platform, phase, asked, emitted, outcome, handle, early>>
streamVars == <<buffer, ending, heard>>
dartVars == <<mail, copies>>
callVars == <<coreVars, caller, ctx, known, listening, dartVars, streamVars, told, wants>>

CallInit ==
  /\ platform \in Platforms /\ form \in {"result", "stream"}
  /\ phase = "none" /\ asked = FALSE /\ emitted = 0 /\ outcome = "ok"
  /\ handle = "none" /\ early = FALSE
  /\ caller = "idle" /\ ctx = "none" /\ known = FALSE /\ listening = FALSE
  /\ mail = <<>> /\ copies = 0
  /\ buffer = <<>> /\ ending = "open" /\ heard = <<>>
  /\ told = "nothing" /\ wants = FALSE

-----------------------------------------------------------------------------
(* The core's steps.  A binding conjoins what its callback does.           *)

\* SubmitJob: the handle is issued, and written to out_job, before the pool has the job.
Accept ==
  /\ caller = "entry" /\ phase = "none"
  /\ phase' = "pending" /\ handle' = "live" /\ caller' = "accepted"
  /\ UNCHANGED <<form, platform, asked, emitted, outcome, early, ctx, known, listening,
                 dartVars, streamVars, told, wants>>

\* The entry point fails: no callback will ever be called.
CoreRefuses ==
  /\ caller = "entry" /\ phase = "none"
  /\ phase' = "refused"
  /\ UNCHANGED <<form, platform, asked, emitted, outcome, handle, early>>

Start ==
  /\ phase = "pending"
  /\ phase' = "running"
  /\ UNCHANGED <<form, platform, asked, emitted, outcome, handle, early, caller, ctx, known,
                 listening, dartVars, streamVars, told, wants>>

\* EmitDelta, ReportProgress: a callback that returns non-zero requests cancellation.
CoreEmits(stop) ==
  /\ phase = "running" /\ emitted < MaxDeltas
  /\ emitted' = emitted + 1
  /\ asked' = (asked \/ stop)
  /\ UNCHANGED <<form, platform, phase, outcome, handle, early>>

\* A job whose cancellation was requested cannot succeed any more.
Finish ==
  /\ phase = "running"
  /\ phase' = "finished"
  /\ outcome' \in IF asked THEN {"cancelled", "failed"} ELSE {"ok", "failed"}
  /\ UNCHANGED <<form, platform, asked, emitted, handle, early, caller, ctx, known, listening,
                 dartVars, streamVars, told, wants>>

\* The completion callback, which may release the handle.
CoreReports(released) ==
  /\ phase = "finished"
  /\ phase' = "reported"
  /\ handle' = IF released THEN "released" ELSE handle
  /\ early' = (caller = "accepted")
  /\ UNCHANGED <<form, platform, asked, emitted, outcome>>

\* flm_job_cancel: a pending job is finished by the caller, a finished one is left alone.
CancelJob ==
  /\ asked' = (asked \/ phase = "running")
  /\ phase' = IF phase = "pending" THEN "finished" ELSE phase
  /\ outcome' = IF phase = "pending" THEN "cancelled" ELSE outcome
  /\ UNCHANGED <<form, platform, emitted, handle, early>>

\* Another thread shuts the manager down.
CoreCancels ==
  /\ phase \in {"pending", "running"} /\ ~asked
  /\ CancelJob
  /\ UNCHANGED <<caller, ctx, known, listening, dartVars, streamVars, told, wants>>

-----------------------------------------------------------------------------
(* What the bindings have in common.                                       *)

\* A callback reads its context; the completion callback and a refused entry free it.
Uses == IF ctx = "held" THEN "held" ELSE "misused"
Frees == IF ctx = "held" THEN "freed" ELSE "misused"

\* The caller's side of the call begins: the context is made, the entry point entered.
Begin(registers) ==
  /\ caller = "idle"
  /\ caller' = "entry" /\ ctx' = "held" /\ listening' = registers
  /\ UNCHANGED <<coreVars, known, dartVars, streamVars, told, wants>>

\* The entry point has returned and the binding stores the handle.
Publish ==
  /\ caller = "accepted"
  /\ caller' = "waiting" /\ known' = TRUE
  /\ UNCHANGED <<coreVars, ctx, listening, dartVars, streamVars, told, wants>>

\* The consumer takes the next delta ...
Take ==
  /\ form = "stream" /\ told = "nothing" /\ buffer # <<>>
  /\ heard' = Append(heard, Head(buffer)) /\ buffer' = Tail(buffer)
  /\ UNCHANGED <<coreVars, caller, ctx, known, listening, dartVars, ending, told, wants>>

\* ... or, after the last one, learns how the stream ended.
SeeEnd ==
  /\ form = "stream" /\ told = "nothing" /\ buffer = <<>> /\ ending # "open"
  /\ told' = ending
  /\ UNCHANGED <<coreVars, caller, ctx, known, listening, dartVars, streamVars, wants>>

\* How a stream and an awaited call learn the outcome.
EndOf(o) == IF o = "ok" THEN "done" ELSE "error"
ValueOf(o) == IF o = "ok" THEN "value" ELSE "error"
=============================================================================
