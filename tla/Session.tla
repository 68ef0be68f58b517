------------------------------ MODULE Session ------------------------------
(***************************************************************************)
(* One inference session (core/src/session.cc): requests run on the pool's *)
(* workers one at a time under request_mutex_, while the application edits *)
(* the history, changes options and pushes audio on threads of its own.    *)
(* A chat session has the history and the tool-call counter; an audio      *)
(* session has the queue that a streaming transcription reads.             *)
(*                                                                         *)
(* Every section under Session::mutex_ or audio_mutex_ is one step.  What  *)
(* the model generates is open: any number of tool calls, an error, an     *)
(* end.  Model and runtime locks are in ModelLifecycle, jobs in JobPool.   *)
(***************************************************************************)
EXTENDS Naturals, Sequences, SequencesExt, FiniteSets

CONSTANTS Types,        \* the SessionTypes explored, of "chat" and "audio"
          Workers,      \* the pool's threads
          NoWorker,
          MaxRequests,  \* bounds of the model: requests submitted,
          MaxCalls,     \*   tool calls the model makes in all,
          MaxChunks,    \*   chunks of audio pushed,
          MaxEdits,     \*   other calls on the history and its option
          Documents     \* histories of other sessions the application may restore

Roles == {"system", "user", "assistant", "tool"}

\* A message of request 0 is of no request of this session: it comes from its options or from
\* another session's history.
Message == [role : Roles, of : 0..MaxRequests, calls : SUBSET (0..MaxCalls)]

ASSUME SessionAssumption ==
  /\ Types \subseteq {"chat", "audio"} /\ NoWorker \notin Workers
  /\ {MaxRequests, MaxCalls, MaxChunks, MaxEdits} \subseteq Nat
  /\ Documents \subseteq Seq(Message)
  /\ \A messages \in Documents : \A i \in DOMAIN messages : messages[i].of = 0

VARIABLES
  type,         \* Session::type_
  history,      \* Session::history_: role, request and tool calls of each message
  keepHistory,  \* Session::keep_history_
  nextCall,     \* Session::next_tool_call_id_
  audio,        \* Session::audio_queue_: numbered chunks
  requestLock,  \* holder of Session::request_mutex_
  requests,     \* the requests accepted so far: their messages in a chat session
  cancelled,    \* requests with Job::cancel_requested_
  outcome,      \* per request: "none" until its job has ended
  queue,        \* JobPool::queue_, the requests of this session
  pc, at,       \* per worker: next step, the request it executes
  prompt,       \* per worker: the history BuildPrompt put into the prompt
  calls,        \* per worker: the tool calls of the reply
  kept,         \* requests whose turn was appended
  exported,     \* what flm_session_export_history_json returned last
  pushed,       \* chunks pushed so far; each chunk is its number and is_final
  since,        \* per request: the first chunk pushed after it was accepted, then after its
                \* stream began
  heard,        \* per request: the chunks its stream has taken
  edited,       \* workers whose session's history was edited since they read it
  edits         \* edits made so far

chatVars == <<history, keepHistory, nextCall, exported, kept, edits>>
audioVars == <<audio, pushed, since, heard>>
jobVars == <<requests, cancelled, outcome, queue>>
workerVars == <<pc, at, prompt, calls, edited>>
vars == <<type, chatVars, audioVars, requestLock, jobVars, workerVars>>

\* The system prompt of the options is the first message.
SystemPrompt == [role |-> "system", of |-> 0, calls |-> {}]

Init ==
  /\ type \in Types
  /\ history \in (IF type = "chat" THEN {<<>>, <<SystemPrompt>>} ELSE {<<>>})
  /\ keepHistory \in BOOLEAN /\ (type = "audio" => keepHistory)
  /\ nextCall = 0 /\ audio = <<>> /\ requestLock = NoWorker
  /\ requests = <<>> /\ cancelled = {} /\ outcome = <<>> /\ queue = <<>>
  /\ pc = [w \in Workers |-> "poll"] /\ at = [w \in Workers |-> 0]
  /\ prompt = [w \in Workers |-> <<>>] /\ calls = [w \in Workers |-> {}]
  /\ kept = {} /\ exported = <<>> /\ edited = {} /\ edits = 0
  /\ pushed = 0 /\ since = <<>> /\ heard = <<>>

-----------------------------------------------------------------------------
Goto(w, label) == pc' = [pc EXCEPT ![w] = label]

(* The application: requests.                                              *)

\* The messages of flm_session_complete_async, and of flm_session_submit_tool_results_async
\* for one call that the model made or a restored history has; the code does not look whether
\* it is still in the history.
Completions(r) == {<<[role |-> "user", of |-> r, calls |-> {}]>>,
                   <<[role |-> "system", of |-> r, calls |-> {}],
                     [role |-> "user", of |-> r, calls |-> {}]>>}
ToolResults(r) ==
  {<<[role |-> "tool", of |-> r, calls |-> {c}]>> :
     c \in {i \in 0..MaxCalls : \/ i < nextCall
                               \/ \E j \in DOMAIN history : i \in history[j].calls}}

\* Fault: the moved-from pointer is queued.
Submit_MovedFrom ==
  LET r == Len(requests) + 1 IN
  /\ r <= MaxRequests
  /\ \E messages \in (IF type = "chat" THEN Completions(r) \cup ToolResults(r) ELSE {<<>>}) :
       requests' = Append(requests, messages)
  /\ outcome' = Append(outcome, "none")
  /\ since' = Append(since, pushed + 1) /\ heard' = Append(heard, <<>>)
  /\ queue' = Append(queue, 0)
  /\ UNCHANGED <<type, chatVars, audio, pushed, requestLock, cancelled, workerVars>>

Submit ==
  LET r == Len(requests) + 1 IN
  /\ r <= MaxRequests
  /\ \E messages \in (IF type = "chat" THEN Completions(r) \cup ToolResults(r) ELSE {<<>>}) :
       requests' = Append(requests, messages)
  /\ outcome' = Append(outcome, "none")
  /\ since' = Append(since, pushed + 1) /\ heard' = Append(heard, <<>>)
  /\ queue' = Append(queue, r)
  /\ UNCHANGED <<type, chatVars, audio, pushed, requestLock, cancelled, workerVars>>

\* flm_job_cancel: a request no worker has begun ends at once.
Cancel(r) ==
  /\ outcome[r] = "none" /\ r \notin cancelled
  /\ cancelled' = cancelled \cup {r}
  /\ outcome' = IF \A w \in Workers : at[w] # r THEN [outcome EXCEPT ![r] = "cancelled"]
                                                 ELSE outcome
  /\ UNCHANGED <<type, chatVars, audioVars, requestLock, requests, queue, workerVars>>

-----------------------------------------------------------------------------
(* The application: the history and its option.                            *)

\* An edit of the history, which the requests that have read it do not see.
Edit(messages) ==
  /\ type = "chat" /\ edits < MaxEdits /\ edits' = edits + 1
  /\ history' = messages
  /\ edited' = {w \in Workers : pc[w] \in {"generate", "append"}}
  /\ UNCHANGED <<type, audioVars, requestLock, jobVars, keepHistory, exported, kept, pc, at,
                 prompt, calls>>

Users(messages) == {i \in DOMAIN messages : messages[i].role = "user"}

\* What UndoTurns leaves: the messages before the last `count` user messages, or none when
\* there are fewer.
Undone(messages, count) ==
  LET cuts == {i \in Users(messages) : Cardinality({j \in Users(messages) : j >= i}) = count}
  IN IF count = 0 THEN messages
     ELSE IF cuts = {} THEN <<>>
     ELSE SubSeq(messages, 1, (CHOOSE i \in cuts : TRUE) - 1)

UndoTurns(count) == Edit(Undone(history, count)) /\ UNCHANGED nextCall

\* Fault: the history and the counter of tool calls are reset together.
ClearHistory_ResetsCalls == Edit(<<>>) /\ nextCall' = 0

ClearHistory == Edit(<<>>) /\ UNCHANGED nextCall

\* An export of this session or of another one comes back, which is refused when the history
\* has a user message.  The counter of tool calls stays where it is.
RestoreHistory ==
  /\ Users(history) = {}
  /\ \E messages \in {exported} \cup Documents : Edit(messages)
  /\ UNCHANGED nextCall

ExportHistory ==
  /\ type = "chat" /\ edits < MaxEdits /\ edits' = edits + 1
  /\ exported' = history
  /\ UNCHANGED <<type, history, keepHistory, nextCall, kept, audioVars, requestLock, jobVars,
                 workerVars>>

SetOptions ==
  /\ type = "chat" /\ edits < MaxEdits /\ edits' = edits + 1
  /\ keepHistory' = ~keepHistory
  /\ UNCHANGED <<type, history, nextCall, exported, kept, audioVars, requestLock, jobVars,
                 workerVars>>

-----------------------------------------------------------------------------
(* A worker and its request.                                               *)

\* JobPool::WorkerLoop and the claim of Job::Execute, which leaves a cancelled job alone.
Pop(w) ==
  /\ pc[w] = "poll" /\ queue # <<>>
  /\ queue' = Tail(queue)
  /\ IF outcome[Head(queue)] = "none"
       THEN at' = [at EXCEPT ![w] = Head(queue)] /\ Goto(w, "lock")
       ELSE UNCHANGED <<at, pc>>
  /\ UNCHANGED <<type, chatVars, audioVars, requestLock, requests, cancelled, outcome, prompt,
                 calls, edited>>

\* Fault: requests are not serialised.
Lock_Skipped(w) ==
  /\ pc[w] = "lock"
  /\ Goto(w, IF type = "chat" THEN "prompt" ELSE "open")
  /\ UNCHANGED <<type, chatVars, audioVars, requestLock, jobVars, at, prompt, calls, edited>>

Lock(w) ==
  /\ pc[w] = "lock" /\ requestLock = NoWorker
  /\ requestLock' = w
  /\ Goto(w, IF type = "chat" THEN "prompt" ELSE "open")
  /\ UNCHANGED <<type, chatVars, audioVars, jobVars, at, prompt, calls, edited>>

\* Fault: a body that throws keeps request_mutex_.
Leave_Locked(w, result) ==
  /\ requestLock' = IF requestLock = w /\ result # "failed" THEN NoWorker ELSE requestLock
  /\ outcome' = [outcome EXCEPT ![at[w]] = result]
  /\ Goto(w, "poll")
  /\ at' = [at EXCEPT ![w] = 0]
  /\ prompt' = [prompt EXCEPT ![w] = <<>>] /\ calls' = [calls EXCEPT ![w] = {}]
  /\ edited' = edited \ {w}
  /\ UNCHANGED <<type, requests, cancelled, queue>>

\* The body is left: request_mutex_ is given back and Job::Execute records the outcome.
Leave(w, result) ==
  /\ requestLock' = IF requestLock = w THEN NoWorker ELSE requestLock
  /\ outcome' = [outcome EXCEPT ![at[w]] = result]
  /\ Goto(w, "poll")
  /\ at' = [at EXCEPT ![w] = 0]
  /\ prompt' = [prompt EXCEPT ![w] = <<>>] /\ calls' = [calls EXCEPT ![w] = {}]
  /\ edited' = edited \ {w}
  /\ UNCHANGED <<type, requests, cancelled, queue>>

\* The body throws: before it takes the lock, when the request is of the wrong type; after it,
\* when it is malformed, the model was unloaded or OGA refuses.
Fail(w) ==
  /\ pc[w] \in {"lock", "prompt", "generate", "open", "listen"}
  /\ Leave(w, "failed")
  /\ UNCHANGED <<chatVars, audioVars>>

\* ThrowIfCancelled at the end of a generation or a stream that was cut short.
Abandon(w) ==
  /\ pc[w] \in {"generate", "listen"} /\ at[w] \in cancelled
  /\ Leave(w, "cancelled")
  /\ UNCHANGED <<chatVars, audioVars>>

\* The body returns; a cancellation that came too late still makes the job CANCELLED.
Done(w) == Leave(w, IF at[w] \in cancelled THEN "cancelled" ELSE "ok")

-----------------------------------------------------------------------------
(* Session::Complete and Session::SubmitToolResults.                       *)

\* Fault: the messages are recorded when they are put into the prompt.
BuildPrompt_Records(w) ==
  /\ pc[w] = "prompt"
  /\ prompt' = [prompt EXCEPT ![w] = history]
  /\ history' = history \o requests[at[w]]
  /\ edited' = edited \ {w}
  /\ Goto(w, "generate")
  /\ UNCHANGED <<type, keepHistory, nextCall, exported, kept, edits, audioVars, requestLock,
                 jobVars, at, calls>>

BuildPrompt(w) ==
  /\ pc[w] = "prompt"
  /\ prompt' = [prompt EXCEPT ![w] = history]
  /\ edited' = edited \ {w}
  /\ Goto(w, "generate")
  /\ UNCHANGED <<type, chatVars, audioVars, requestLock, jobVars, at, calls>>

\* One tool call of the reply is parsed and emitted, numbered by the session's counter.
GenerateCall(w) ==
  /\ pc[w] = "generate" /\ nextCall < MaxCalls
  /\ calls' = [calls EXCEPT ![w] = @ \cup {nextCall}]
  /\ nextCall' = nextCall + 1
  /\ UNCHANGED <<type, history, keepHistory, exported, kept, edits, audioVars, requestLock,
                 jobVars, pc, at, prompt, edited>>

\* The end of the generation and the test of keep_history_, outside mutex_.
GenerateEnds(w) ==
  /\ pc[w] = "generate"
  /\ IF keepHistory
       THEN Goto(w, "append") /\ UNCHANGED <<requestLock, jobVars, at, prompt, calls, edited>>
       ELSE Done(w)
  /\ UNCHANGED <<type, chatVars, audioVars>>

Reply(w) == [role |-> "assistant", of |-> at[w], calls |-> calls[w]]

\* The request's messages and the reply, under mutex_.
AppendTurn(w) ==
  /\ pc[w] = "append"
  /\ history' = Append(history \o requests[at[w]], Reply(w))
  /\ kept' = kept \cup {at[w]}
  /\ Done(w)
  /\ UNCHANGED <<keepHistory, nextCall, exported, edits, audioVars>>

-----------------------------------------------------------------------------
(* Session::PushAudio and Session::TranscribeStreaming.                    *)

PushAudio(final) ==
  /\ type = "audio" /\ pushed < MaxChunks
  /\ pushed' = pushed + 1
  /\ audio' = Append(audio, [number |-> pushed + 1, final |-> final])
  /\ UNCHANGED <<type, chatVars, since, heard, requestLock, jobVars, workerVars>>

\* Fault: what an earlier stream left in the queue is not cleared.
OpenStream_Keeps(w) ==
  /\ pc[w] = "open"
  /\ since' = [since EXCEPT ![at[w]] = pushed + 1]
  /\ Goto(w, "listen")
  /\ UNCHANGED <<type, chatVars, audio, pushed, heard, requestLock, jobVars, at, prompt, calls,
                 edited>>

\* The queue is cleared when the stream begins.
OpenStream(w) ==
  /\ pc[w] = "open"
  /\ audio' = <<>>
  /\ since' = [since EXCEPT ![at[w]] = pushed + 1]
  /\ Goto(w, "listen")
  /\ UNCHANGED <<type, chatVars, pushed, heard, requestLock, jobVars, at, prompt, calls, edited>>

\* The loop looks for a cancellation, then waits for a chunk.
Listen(w) ==
  /\ pc[w] = "listen" /\ at[w] \notin cancelled
  /\ Goto(w, "wait")
  /\ UNCHANGED <<type, chatVars, audioVars, requestLock, jobVars, at, prompt, calls, edited>>

\* The wait ends after 100 ms.
WaitTimesOut(w) ==
  /\ pc[w] = "wait" /\ audio = <<>>
  /\ Goto(w, "listen")
  /\ UNCHANGED <<type, chatVars, audioVars, requestLock, jobVars, at, prompt, calls, edited>>

\* Fault: the final chunk is taken like any other.
TakeChunk_NotFinal(w) ==
  /\ pc[w] = "wait" /\ audio # <<>>
  /\ audio' = Tail(audio)
  /\ heard' = [heard EXCEPT ![at[w]] = Append(@, Head(audio))]
  /\ Goto(w, "listen")
  /\ UNCHANGED <<type, at, prompt, calls, edited, requestLock, jobVars, chatVars, pushed, since>>

\* A chunk is taken, also after a cancellation, and processed: the final one is flushed, which
\* may fail, and ends the stream.
TakeChunk(w) ==
  /\ pc[w] = "wait" /\ audio # <<>>
  /\ audio' = Tail(audio)
  /\ heard' = [heard EXCEPT ![at[w]] = Append(@, Head(audio))]
  /\ IF Head(audio).final
       THEN Done(w) \/ Leave(w, "failed")
       ELSE Goto(w, "listen") /\ UNCHANGED <<type, at, prompt, calls, edited, requestLock, jobVars>>
  /\ UNCHANGED <<chatVars, pushed, since>>

-----------------------------------------------------------------------------
WorkerStep(w) ==
  \/ Pop(w) \/ Lock(w) \/ Abandon(w)
  \/ BuildPrompt(w) \/ GenerateEnds(w) \/ AppendTurn(w)
  \/ OpenStream(w) \/ Listen(w) \/ WaitTimesOut(w) \/ TakeChunk(w)

Application ==
  \/ Submit \/ \E r \in DOMAIN requests : Cancel(r)
  \/ \E count \in 0..2 : UndoTurns(count)
  \/ ClearHistory \/ RestoreHistory \/ ExportHistory \/ SetOptions
  \/ \E final \in BOOLEAN : PushAudio(final)

Next == Application \/ \E w \in Workers : WorkerStep(w) \/ GenerateCall(w) \/ Fail(w)

Spec == Init /\ [][Next]_vars

\* The workers run, and a generation ends: its length is bounded.
FairSpec == Spec /\ \A w \in Workers : WF_vars(WorkerStep(w))

-----------------------------------------------------------------------------
Streaming == {"listen", "wait"}
Labels == {"poll", "lock", "prompt", "generate", "append", "open"} \cup Streaming
Chunk == [number : 1..MaxChunks, final : BOOLEAN]

TypeOK ==
  /\ type \in Types
  /\ history \in Seq(Message) /\ exported \in Seq(Message)
  /\ keepHistory \in BOOLEAN /\ nextCall \in 0..MaxCalls /\ edits \in 0..MaxEdits
  /\ audio \in Seq(Chunk) /\ pushed \in 0..MaxChunks
  /\ requestLock \in Workers \cup {NoWorker}
  /\ requests \in Seq(Seq(Message)) /\ Len(requests) <= MaxRequests
  /\ outcome \in [DOMAIN requests -> {"none", "ok", "failed", "cancelled"}]
  /\ since \in [DOMAIN requests -> 1..MaxChunks + 1]
  /\ heard \in [DOMAIN requests -> Seq(Chunk)]
  /\ cancelled \subseteq DOMAIN requests /\ kept \subseteq DOMAIN requests
  /\ queue \in Seq(DOMAIN requests)
  /\ pc \in [Workers -> Labels]
  /\ at \in [Workers -> DOMAIN requests \cup {0}]
  /\ prompt \in [Workers -> Seq(Message)]
  /\ calls \in [Workers -> SUBSET (0..MaxCalls)] /\ edited \subseteq Workers

Status == [r \in 1..MaxRequests |->
             IF r \in kept THEN "kept"
             ELSE IF r \in DOMAIN outcome /\ outcome[r] # "none" THEN "dropped" ELSE "open"]

Log == INSTANCE TurnLog WITH
  Requests <- 1..MaxRequests, log <- history, status <- Status, archive <- exported

\* The history grows by whole turns, each at most once and none of a request that was dropped,
\* however requests, cancellations and edits interleave.  Undoing may cut it anywhere.
KeepsTurns == Log!Spec

\* The job of every request as AsyncJob has it.  Its callback and its result are JobPool's.
Ended == [ok |-> "SUCCEEDED", failed |-> "FAILED", cancelled |-> "CANCELLED"]

JobPhase == [r \in 1..MaxRequests |->
               IF r \notin DOMAIN requests THEN "PENDING"
               ELSE IF outcome[r] # "none" THEN Ended[outcome[r]]
               ELSE IF \E w \in Workers : at[w] = r THEN "RUNNING" ELSE "PENDING"]

Job == INSTANCE AsyncJob WITH
  Jobs <- 1..MaxRequests, phase <- JobPhase,
  notified <- [r \in 1..MaxRequests |-> 0], told <- [r \in 1..MaxRequests |-> "none"],
  taken <- [r \in 1..MaxRequests |-> 0]

\* What is assumed of the pool is what JobPool implements: a request runs at most once and
\* ends once, also one that is cancelled while it waits or after it was taken.
KeepsJobs == Job!Spec

\* A reply is appended to the very history it was generated from, unless the application
\* edited the history meanwhile: no other request gets in between.
ReplyFitsHistory ==
  [][\A w \in Workers : AppendTurn(w) /\ w \notin edited => prompt[w] = history]_vars

\* The replies of this session's requests in a history.
Replies(messages) == {i \in DOMAIN messages : messages[i].role = "assistant" /\ messages[i].of # 0}

\* No two replies of this session, in the history or about to be, contain a tool call of the
\* same id, also after undoing, clearing and restoring: a result that names its call cannot be
\* taken for another's.  Another session's history may contain the same ids: the counter of
\* every session begins at 0.
CallsAreUnique ==
  /\ \A i, j \in Replies(history) : i # j => history[i].calls \cap history[j].calls = {}
  /\ \A w \in Workers : \A i \in Replies(history) : history[i].calls \cap calls[w] = {}

\* A stream hears, in order and without a gap, the chunks pushed since it began, and one
\* that ends well ends with the first final chunk among them.
StreamHearsItsAudio ==
  \A r \in DOMAIN requests :
    /\ \A i \in DOMAIN heard[r] : /\ heard[r][i].number = since[r] + i - 1
                                  /\ heard[r][i].final => i = Len(heard[r])
    /\ type = "audio" /\ outcome[r] = "ok" => heard[r] # <<>> /\ Last(heard[r]).final

\* A stream that has begun ends once a final chunk was pushed after it began.
StreamEnds ==
  \A r \in 1..MaxRequests :
    (\E w \in Workers : at[w] = r /\ pc[w] \in Streaming /\ \E i \in DOMAIN audio : audio[i].final)
      ~> (r \in DOMAIN outcome /\ outcome[r] # "none")

\* Every request to a chat session ends, whatever happened to the one before it.
RequestsEnd ==
  \A r \in 1..MaxRequests :
    (type = "chat" /\ r \in DOMAIN outcome) ~> (r \in DOMAIN outcome /\ outcome[r] # "none")

-----------------------------------------------------------------------------
(* Why the safety properties hold: the parts of an inductive invariant.    *)

\* A request waits in the queue once or is at one worker, where it is not over; it carries no
\* reply, and its turn is kept when it is over.
RequestInv ==
  /\ \A i, j \in DOMAIN queue : queue[i] = queue[j] => i = j
  /\ \A w \in Workers :
       /\ pc[w] = "poll" <=> at[w] = 0
       /\ at[w] # 0 => outcome[at[w]] = "none" /\ \A i \in DOMAIN queue : queue[i] # at[w]
       /\ \A u \in Workers : at[u] = at[w] /\ at[w] # 0 => u = w
  /\ \A r \in DOMAIN requests : \A i \in DOMAIN requests[r] :
       requests[r][i].of = r /\ requests[r][i].role # "assistant"
  /\ \A r \in kept : outcome[r] # "none"

\* A body is past its lock only while its worker holds request_mutex_, and keeps to the
\* session's type.
LockInv ==
  \A w \in Workers : /\ pc[w] \notin {"poll", "lock"} => requestLock = w
                     /\ pc[w] \in {"prompt", "generate", "append"} => type = "chat"
                     /\ pc[w] \in {"open"} \cup Streaming => type = "audio"

\* The history is the one the prompt was built from until the application edits it.
PromptInv ==
  \A w \in Workers : pc[w] \in {"generate", "append"} /\ w \notin edited => prompt[w] = history

\* The counter is past every id in a reply of this session, whether in the history, in an
\* export that may come back, or about to be appended; and none of them share an id.
IdsApart(messages) ==
  /\ \A i, j \in Replies(messages) : i # j => messages[i].calls \cap messages[j].calls = {}
  /\ \A i \in Replies(messages) : /\ \A c \in messages[i].calls : c < nextCall
                                  /\ \A w \in Workers : messages[i].calls \cap calls[w] = {}

CallInv ==
  /\ IdsApart(history) /\ IdsApart(exported)
  /\ \A w \in Workers : \A c \in calls[w] : c < nextCall
  /\ \A u, w \in Workers : u # w => calls[u] \cap calls[w] = {}

\* The queue ends with the last chunk pushed, and begins where the stream that listens is.
StreamInv ==
  /\ \A i \in DOMAIN audio : audio[i].number + Len(audio) = pushed + i
  /\ \A w \in Workers : pc[w] \in Streaming =>
       /\ since[at[w]] + Len(heard[at[w]]) + Len(audio) = pushed + 1
       /\ \A i \in DOMAIN heard[at[w]] : ~heard[at[w]][i].final
  /\ \A r \in DOMAIN requests : heard[r] = <<>> \/ outcome[r] # "none"
                                \/ \E w \in Workers : at[w] = r /\ pc[w] \in Streaming

Inv == /\ TypeOK /\ RequestInv /\ LockInv /\ PromptInv /\ CallInv /\ StreamInv
       /\ StreamHearsItsAudio

-----------------------------------------------------------------------------
(* What the documentation says and the code does not do.                   *)

\* bindings/flutter/lib/src/audio_session.dart: "a final [pushAudio] with `isFinal: true`
\* tells the model to emit the last segment and close."
FinalChunkEndsStream ==
  \A r \in 1..MaxRequests :
    (r \in DOMAIN outcome /\ \E i \in DOMAIN audio : audio[i].final /\ audio[i].number >= since[r])
      ~> (r \in DOMAIN outcome /\ outcome[r] # "none")
=============================================================================
