------------------------------ MODULE Generation ------------------------------
(***************************************************************************)
(* Session::Generate of core/src/session.cc: the loop that asks ONNX       *)
(* Runtime GenAI for one token after the other, the streaming state        *)
(* machine that sorts them into visible text, reasoning and tool calls by  *)
(* the special tokens of the tokenizer, and the deltas it emits.           *)
(*                                                                         *)
(* A token that decodes to something is represented by its number; a       *)
(* special token that the state machine does not consume is decoded like   *)
(* any other.  Text is the sequence of the tokens it was decoded from.     *)
(*                                                                         *)
(* Session::TranscribeBatch has a loop of the same form without the state  *)
(* machine: here it is the state "speech", which no token leaves.  Its     *)
(* deltas are counted as text.                                             *)
(***************************************************************************)
EXTENDS Naturals, Sequences

CONSTANTS PromptTokens, \* prompt_token_count
          MaxTokens     \* bound of the model: the largest max_output_tokens

ASSUME GenerationAssumption == PromptTokens \in Nat \ {0} /\ MaxTokens \in Nat \ {0}

VARIABLES
  hasTools,    \* the request has tool definitions
  maxOutput,   \* max_output_tokens, or 0 when the request and the session give none
  maxLength,   \* the search option max_length: made of it, or the model's own
  asked,       \* the job's cancellation was requested
  stoppedAt,   \* history: the delta whose callback returned non-zero first, or 0
  state, preTool, toolBuffer,  \* StreamState, pre_tool_state, tool_buffer
  fullText, toolCalls,         \* full_text, tool_calls_aggregate
  produced,    \* completion_tokens
  visible,     \* history: the tokens that decoded to something, in order
  dropped,     \* history: tokens of calls without a name, beside calls that have one
  cancelled, finish,
  deltas,      \* what the delta callback was called with
  step         \* setup (of a transcription), head, token, array, marker, flush, complete;
               \* returned, threw

streamVars == <<state, preTool, toolBuffer, fullText, toolCalls, dropped>>
generationVars == <<hasTools, maxOutput, maxLength, asked, stoppedAt, streamVars, produced,
                    visible, cancelled, finish, deltas, step>>

\* The length of a multimodal prompt whose input_ids cannot be read counts as 0 when
\* max_length is set.  The model's own max_length may be less than the prompt has.
GenerationInit ==
  /\ hasTools \in BOOLEAN
  /\ \/ maxOutput \in 1..MaxTokens /\ maxLength \in {maxOutput, PromptTokens + maxOutput}
     \/ maxOutput = 0 /\ maxLength \in {PromptTokens, PromptTokens + MaxTokens}
  /\ asked = FALSE /\ stoppedAt = 0
  /\ state \in {"text", "speech"} /\ preTool = "text" /\ toolBuffer = <<>>
  /\ fullText = <<>> /\ toolCalls = <<>> /\ dropped = <<>>
  /\ produced = 0 /\ visible = <<>>
  /\ cancelled = FALSE /\ finish = "none"
  /\ deltas = <<>> /\ step = IF state = "speech" THEN "setup" ELSE "head"
  /\ state = "speech" => ~hasTools /\ maxOutput > 0 /\ maxLength = PromptTokens + maxOutput

-----------------------------------------------------------------------------
LimitReached == PromptTokens + produced >= maxLength

\* flm_job_cancel or the shutdown, at any time.
CancelGeneration ==
  /\ ~asked /\ step \notin {"returned", "threw"}
  /\ asked' = TRUE
  /\ UNCHANGED <<hasTools, maxOutput, maxLength, stoppedAt, streamVars, produced, visible,
                 cancelled, finish, deltas, step>>

\* JobContext::EmitDelta: the callback may ask to stop.
EmitDelta(kind, of, stop) ==
  /\ deltas' = Append(deltas, [kind |-> kind, of |-> of])
  /\ asked' = (asked \/ stop)
  /\ stoppedAt' = IF stop /\ stoppedAt = 0 THEN Len(deltas') ELSE stoppedAt

\* request_cancel, when EmitDelta has returned false; where the loop goes then.
HeedStop ==
  /\ cancelled' = asked'
  /\ finish' = IF asked' THEN "cancelled" ELSE finish

\* IsDone, which is asked before the cancellation is: at an end token, or at the limit.
LoopEnds ==
  /\ step = "head"
  /\ step' = "flush"
  /\ UNCHANGED <<hasTools, maxOutput, maxLength, asked, stoppedAt, streamVars, produced,
                 visible, cancelled, finish, deltas>>

LoopCancelled ==
  /\ step = "head" /\ ~LimitReached /\ asked
  /\ cancelled' = TRUE /\ finish' = "cancelled" /\ step' = "flush"
  /\ UNCHANGED <<hasTools, maxOutput, maxLength, asked, stoppedAt, streamVars, produced,
                 visible, deltas>>

\* The runtime has terminated the session by itself: seen at the head, or when the next
\* token fails, which is not counted then.
SessionTerminated ==
  /\ step = "token" \/ (step = "head" /\ ~LimitReached)
  /\ cancelled' = TRUE /\ finish' = "cancelled" /\ step' = "flush"
  /\ UNCHANGED <<hasTools, maxOutput, maxLength, asked, stoppedAt, streamVars, produced,
                 visible, deltas>>

LoopGoesOn ==
  /\ step = "head" /\ ~LimitReached /\ ~asked
  /\ step' = "token"
  /\ UNCHANGED <<hasTools, maxOutput, maxLength, asked, stoppedAt, streamVars, produced,
                 visible, cancelled, finish, deltas>>

\* GenerateNextToken fails, or a decoder: Generate throws.
GenerationFails ==
  /\ step \in {"token", "marker"}
  /\ step' = "threw"
  /\ UNCHANGED <<hasTools, maxOutput, maxLength, asked, stoppedAt, streamVars, produced,
                 visible, cancelled, finish, deltas>>

\* A token that changes the state, or decodes to nothing.
Quiet ==
  /\ step = "token"
  /\ produced' = produced + 1 /\ step' = "head"
  /\ UNCHANGED <<hasTools, maxOutput, maxLength, asked, stoppedAt, fullText, toolCalls,
                 dropped, visible, cancelled, finish, deltas>>

ReasoningBegins ==
  Quiet /\ state = "text" /\ state' = "reasoning" /\ UNCHANGED <<preTool, toolBuffer>>

ReasoningEnds ==
  Quiet /\ state = "reasoning" /\ state' = "text" /\ UNCHANGED <<preTool, toolBuffer>>

ToolCallBegins ==
  /\ Quiet /\ hasTools /\ state # "toolCall"
  /\ preTool' = state /\ state' = "toolCall" /\ toolBuffer' = <<>>

EmptyToken == Quiet /\ UNCHANGED <<state, preTool, toolBuffer>>

-----------------------------------------------------------------------------
\* A token that decodes to something.
Decoded ==
  /\ step = "token"
  /\ produced' = produced + 1 /\ visible' = Append(visible, produced + 1)
  /\ UNCHANGED <<hasTools, maxOutput, maxLength, preTool, state, toolCalls, dropped>>

Onward == IF cancelled' THEN "flush" ELSE "head"

TextToken ==
  /\ Decoded /\ state = "text"
  /\ fullText' = Append(fullText, produced + 1)
  /\ \E stop \in BOOLEAN : EmitDelta("text", <<produced + 1>>, stop)
  /\ HeedStop /\ step' = Onward
  /\ UNCHANGED toolBuffer

\* Fault: a callback that stops at a reasoning delta is not heeded.
ReasoningToken_Heedless ==
  /\ Decoded /\ state = "reasoning"
  /\ \E stop \in BOOLEAN : EmitDelta("reasoning", <<produced + 1>>, stop)
  /\ step' = "head"
  /\ UNCHANGED <<toolBuffer, fullText, cancelled, finish>>

ReasoningToken ==
  /\ Decoded /\ state = "reasoning"
  /\ \E stop \in BOOLEAN : EmitDelta("reasoning", <<produced + 1>>, stop)
  /\ HeedStop /\ step' = Onward
  /\ UNCHANGED <<toolBuffer, fullText>>

ToolToken ==
  /\ Decoded /\ state = "toolCall"
  /\ toolBuffer' = Append(toolBuffer, produced + 1)
  /\ step' = "head"
  /\ UNCHANGED <<fullText, asked, stoppedAt, deltas, cancelled, finish>>

-----------------------------------------------------------------------------
(* The end of a tool call.                                                 *)

Closes ==
  /\ step = "token" /\ hasTools /\ state = "toolCall"
  /\ produced' = produced + 1
  /\ UNCHANGED <<hasTools, maxOutput, maxLength, visible, preTool>>

\* process_one of ParseAndEmitToolCalls: the first n buffered tokens are a call.  What the
\* callback answers is not looked at.
EmitCall ==
  \E n \in DOMAIN toolBuffer, stop \in BOOLEAN :
    /\ EmitDelta("tool", SubSeq(toolBuffer, 1, n), stop)
    /\ toolCalls' = Append(toolCalls, SubSeq(toolBuffer, 1, n))
    /\ toolBuffer' = SubSeq(toolBuffer, n + 1, Len(toolBuffer))

\* The buffer is a call, or an array with one: it is emitted, and the array gone on with.
ToolCallParsed ==
  /\ Closes /\ EmitCall
  /\ step' = "array"
  /\ UNCHANGED <<state, fullText, dropped, cancelled, finish>>

\* The next item of the array: another call, whatever the callback answered to the one
\* before, or something without a name, which is passed over.
NextItem ==
  /\ step = "array"
  /\ \/ EmitCall /\ UNCHANGED dropped
     \/ /\ \E n \in DOMAIN toolBuffer :
             /\ dropped' = dropped \o SubSeq(toolBuffer, 1, n)
             /\ toolBuffer' = SubSeq(toolBuffer, n + 1, Len(toolBuffer))
        /\ UNCHANGED <<toolCalls, asked, stoppedAt, deltas>>
  /\ UNCHANGED <<hasTools, maxOutput, maxLength, state, preTool, fullText, produced, visible,
                 cancelled, finish, step>>

\* ParseAndEmitToolCalls returns true.
ArrayEnds ==
  /\ step = "array" /\ toolBuffer = <<>>
  /\ state' = preTool /\ step' = "marker"
  /\ UNCHANGED <<hasTools, maxOutput, maxLength, asked, stoppedAt, preTool, toolBuffer,
                 fullText, toolCalls, dropped, produced, visible, cancelled, finish, deltas>>

\* Fault: what is not a tool call is forgotten.
ToolCallMalformed_Forgotten ==
  /\ Closes
  /\ toolBuffer' = <<>> /\ state' = preTool
  /\ step' = "marker"
  /\ UNCHANGED <<fullText, toolCalls, dropped, asked, stoppedAt, deltas, cancelled, finish>>

\* Not JSON, or nothing with a name in it: the buffer was text after all.
ToolCallMalformed ==
  /\ Closes
  /\ fullText' = fullText \o toolBuffer
  /\ \E stop \in BOOLEAN : EmitDelta("text", toolBuffer, stop)
  /\ HeedStop
  /\ toolBuffer' = <<>> /\ state' = preTool
  /\ step' = "marker"
  /\ UNCHANGED <<toolCalls, dropped>>

\* A name that is not a string, in the first item or a later one: the JSON library throws,
\* after the calls before it were emitted.
ToolCallThrows ==
  /\ toolBuffer # <<>> /\ step' = "threw"
  /\ \/ Closes
     \/ step = "array" /\ UNCHANGED <<hasTools, maxOutput, maxLength, visible, preTool, produced>>
  /\ UNCHANGED <<state, toolBuffer, fullText, toolCalls, dropped, asked, stoppedAt, deltas,
                 cancelled, finish>>

MarkerDecoded ==
  /\ step = "marker"
  /\ step' = IF cancelled THEN "flush" ELSE "head"
  /\ UNCHANGED <<hasTools, maxOutput, maxLength, asked, stoppedAt, streamVars, produced,
                 visible, cancelled, finish, deltas>>

-----------------------------------------------------------------------------
(* After the loop.                                                         *)

\* An unterminated tool call becomes text; what the callback answers is not looked at.
Flush ==
  /\ step = "flush" /\ state # "speech" /\ step' = "complete"
  /\ IF ~cancelled /\ state = "toolCall" /\ toolBuffer # <<>>
       THEN /\ fullText' = fullText \o toolBuffer /\ toolBuffer' = <<>>
            /\ \E stop \in BOOLEAN : EmitDelta("text", toolBuffer, stop)
       ELSE UNCHANGED <<fullText, toolBuffer, asked, stoppedAt, deltas>>
  /\ UNCHANGED <<hasTools, maxOutput, maxLength, state, preTool, toolCalls, dropped, produced,
                 visible, cancelled, finish>>

FinishReason == IF finish # "none" THEN finish
                ELSE IF toolCalls # <<>> THEN "tool_calls"
                ELSE IF LimitReached THEN "length" ELSE "stop"

\* The COMPLETED delta; a cancelled generation throws after it.
Complete ==
  /\ step = "complete" /\ state # "speech"
  /\ finish' = FinishReason
  /\ \E stop \in BOOLEAN : EmitDelta("completed", <<>>, stop)
  /\ step' = IF cancelled /\ asked' THEN "threw" ELSE "returned"
  /\ UNCHANGED <<hasTools, maxOutput, maxLength, streamVars, produced, visible, cancelled>>

-----------------------------------------------------------------------------
(* A batch transcription.                                                  *)

\* Parsing, loading the audio and processing it: each may throw, and between them the
\* cancellation is looked for.  Then progress 0 is reported, which may ask to stop.
SpeechSetup ==
  /\ step = "setup"
  /\ \/ step' = "threw" /\ UNCHANGED asked
     \/ ~asked /\ step' = "head" /\ asked' \in BOOLEAN
  /\ UNCHANGED <<hasTools, maxOutput, maxLength, stoppedAt, streamVars, produced, visible,
                 cancelled, finish, deltas>>

SpeechToken ==
  /\ Decoded /\ state = "speech"
  /\ fullText' = Append(fullText, produced + 1)
  /\ \E stop \in BOOLEAN : EmitDelta("text", <<produced + 1>>, stop)
  /\ cancelled' = asked' /\ step' = Onward
  /\ UNCHANGED <<toolBuffer, finish>>

\* The text of a result that is decoded from the whole sequence.
Whole == <<0>>

\* When no token decoded to anything, the sequence is decoded as a whole.
SpeechText ==
  /\ step = "flush" /\ state = "speech" /\ step' = "complete"
  /\ fullText' \in IF cancelled \/ fullText # <<>> THEN {fullText} ELSE {<<>>, Whole}
  /\ UNCHANGED <<hasTools, maxOutput, maxLength, asked, stoppedAt, state, preTool, toolBuffer,
                 toolCalls, dropped, produced, visible, cancelled, finish, deltas>>

\* The COMPLETED delta and progress 100, whose answer is not looked at.
SpeechComplete ==
  /\ step = "complete" /\ state = "speech"
  /\ finish' = IF cancelled THEN "cancelled" ELSE "stop"
  /\ \E stop \in BOOLEAN : EmitDelta("completed", <<>>, stop)
  /\ step' = IF cancelled /\ asked' THEN "threw" ELSE "returned"
  /\ UNCHANGED <<hasTools, maxOutput, maxLength, streamVars, produced, visible, cancelled>>

GenerationNext ==
  \/ CancelGeneration
  \/ SpeechSetup \/ SpeechToken \/ SpeechText \/ SpeechComplete
  \/ LoopEnds \/ LoopCancelled \/ SessionTerminated \/ LoopGoesOn \/ GenerationFails
  \/ ReasoningBegins \/ ReasoningEnds \/ ToolCallBegins \/ EmptyToken
  \/ TextToken \/ ReasoningToken \/ ToolToken
  \/ ToolCallParsed \/ NextItem \/ ArrayEnds \/ ToolCallMalformed \/ ToolCallThrows
  \/ MarkerDecoded
  \/ Flush \/ Complete

-----------------------------------------------------------------------------
\* What the first n deltas say that are of a kind, joined.
Joined(sent, kind, n) ==
  LET join[i \in 0..n] == IF i = 0 THEN <<>>
                          ELSE IF sent[i].kind = kind THEN join[i - 1] \o sent[i].of
                          ELSE join[i - 1]
  IN join[n]

Of(kind) == Joined(deltas, kind, Len(deltas))

Ascending(s) == \A i, j \in DOMAIN s : i < j => s[i] < s[j]
Occurs(token, s) == \E k \in DOMAIN s : s[k] = token

\* Nothing the model said is lost, doubled or reordered on its way into the deltas, however
\* reasoning and tool calls are nested, malformed or cut off by the token limit; only what
\* stands beside a well-formed call in the same array is (session.cc:348).  The text of the
\* aggregate result is the text of the stream, except for a transcription whose tokens
\* decode to nothing one by one: its result has a text that no delta had (line 1407).
OutputPreserved ==
  LET text == Of("text") IN LET reasoning == Of("reasoning") IN LET called == Of("tool") IN
  step = "returned" /\ ~cancelled =>
    /\ text = fullText \/ (state = "speech" /\ text = <<>> /\ fullText = Whole)
    /\ Ascending(text) /\ Ascending(reasoning) /\ Ascending(called)
    /\ Len(text) + Len(reasoning) + Len(called) + Len(dropped) = Len(visible)
    /\ \A i \in DOMAIN visible :
         \E s \in {text, reasoning, called, dropped} : Occurs(visible[i], s)

Kind(i) == deltas[i].kind

\* The prompt's length counted when max_length was made of max_output_tokens.
LimitKnown == maxOutput > 0 /\ maxLength = PromptTokens + maxOutput

\* A generation that ends has said so in one COMPLETED delta, the last.  After a callback
\* stops it no token is asked of the model any more, and no delta comes but COMPLETED and,
\* when it stopped at a tool call, the calls that the same array still holds: their
\* emission does not look at what the callback answered (session.cc:371, job.cc:87-89).
\* The reason is "cancelled" then, unless it stopped at a tool call or at the flush of an
\* unterminated one, where its answer is not looked at either (session.cc:900): then the
\* reason may be another although the job ends as cancelled.  The reason "length" means
\* that max_output_tokens were made, if some were given and the length of the prompt was
\* known (line 698); a reply that calls tools never says it.
StopIsHeeded ==
  LET last == Len(deltas) IN
  /\ step = "returned" => last > 0 /\ Kind(last) = "completed"
  /\ \A i \in 1..(last - 1) : Kind(i) # "completed"
  /\ stoppedAt > 0 =>
       /\ step # "token"
       /\ \A i \in (stoppedAt + 1)..last :
            Kind(i) = "completed" \/ (Kind(i) = "tool" /\ Kind(stoppedAt) = "tool")
       /\ finish \in {"none", "cancelled"} \/ Kind(stoppedAt) \in {"tool", "completed"}
            \/ state = "toolCall"
  /\ finish = "length" /\ LimitKnown => produced = maxOutput
  /\ finish \in {"length", "stop"} => \A i \in 1..last : Kind(i) # "tool"

-----------------------------------------------------------------------------
(* The inductive invariant of the loop.                                    *)

Over == step \in {"returned", "threw"}

GenerationTypeOK ==
  /\ hasTools \in BOOLEAN /\ asked \in BOOLEAN /\ cancelled \in BOOLEAN
  /\ maxOutput \in Nat /\ maxLength \in Nat
  /\ produced \in Nat /\ stoppedAt \in Nat
  /\ state \in {"text", "reasoning", "toolCall", "speech"}
  /\ preTool \in {"text", "reasoning"}
  /\ toolBuffer \in Seq(Nat) /\ toolCalls \in Seq(Seq(Nat))
  /\ deltas \in Seq([kind : {"text", "reasoning", "tool", "completed"}, of : Seq(Nat)])
  /\ step \in {"setup", "head", "token", "array", "marker", "flush", "complete", "returned",
              "threw"}
  /\ finish \in {"none", "cancelled", "tool_calls", "length", "stop"}

\* The limit is met exactly where the length of the prompt counts.
WithinLimit ==
  LimitKnown => /\ produced <= maxOutput
                /\ step = "token" => produced < maxOutput
                /\ finish = "length" => produced = maxOutput

\* What is sent of tool calls is in the aggregate, and a transcription has none.
ToolsAccounted ==
  /\ step = "array" => state = "toolCall" /\ toolCalls # <<>>
  /\ state = "speech" => ~hasTools /\ toolCalls = <<>>
  /\ toolCalls = <<>> => \A i \in 1..Len(deltas) : Kind(i) # "tool"
  /\ finish \in {"length", "stop"} => toolCalls = <<>>

\* COMPLETED is the last delta, and the loop is over then.
CompletedLast ==
  /\ \A i \in 1..Len(deltas) : Kind(i) = "completed" => i = Len(deltas) /\ Over
  /\ step = "returned" => Len(deltas) > 0 /\ Kind(Len(deltas)) = "completed"

\* Who has stopped gets nothing more until the loop is over but the rest of an array; what
\* makes the loop heed him is cancelled, or the request itself where the answer was not
\* looked at.
Stopped ==
  /\ ~Over => finish \in {"none", "cancelled"}
  /\ finish = "cancelled" /\ ~Over => cancelled
  /\ step \in {"setup", "head", "token", "array"} => ~cancelled
  /\ stoppedAt > 0 =>
       /\ asked /\ step \notin {"setup", "token"} /\ stoppedAt <= Len(deltas)
       /\ \A i \in (stoppedAt + 1)..Len(deltas) :
            Kind(i) = "completed" \/ (Kind(i) = "tool" /\ Kind(stoppedAt) = "tool")
       /\ step = "array" => Kind(stoppedAt) = "tool"
       /\ step \in {"head", "marker", "flush"} => cancelled \/ state # "toolCall"
       /\ \/ finish = "cancelled"
          \/ Kind(stoppedAt) \in {"tool", "completed"}
          \/ step \in {"complete", "returned", "threw"} /\ state = "toolCall"
          \/ finish = "none" /\ state = "speech" /\ cancelled

GenerationInv == GenerationTypeOK /\ WithinLimit /\ ToolsAccounted /\ CompletedLast /\ Stopped

-----------------------------------------------------------------------------
(* The inductive invariant of what becomes of the tokens.                  *)

\* The text of the deltas is the text of the result, but for a transcription without deltas.
TextSent(text) ==
  \/ text = fullText
  \/ /\ state = "speech" /\ text = <<>> /\ fullText = Whole
     /\ step \in {"complete", "returned", "threw"}

\* Tokens come in ascending order, and what is buffered was made after all text and calls.
InOrder(text, reasoning, called, open, made) ==
  /\ Ascending(text) /\ Ascending(reasoning) /\ Ascending(called) /\ Ascending(open)
  /\ \A s \in {text, reasoning, called, open} : \A i \in DOMAIN s : s[i] <= made
  /\ \A s \in {text, called} : \A i \in DOMAIN s, k \in DOMAIN open : s[i] < open[k]

\* Every token went somewhere, and to one place.
AllSomewhere(text, reasoning, called, lost, open, seen) ==
  /\ Len(text) + Len(reasoning) + Len(called) + Len(lost) + Len(open) = Len(seen)
  /\ \A i \in DOMAIN seen :
       \E s \in {text, reasoning, called, lost, open} : Occurs(seen[i], s)

\* Only an open tool call is buffered, and none is left at the end.
Buffered ==
  /\ toolBuffer # <<>> => state = "toolCall"
  /\ step \in {"complete", "returned"} /\ ~cancelled => toolBuffer = <<>>

OutputInv ==
  /\ visible \in Seq(Nat) /\ dropped \in Seq(Nat) /\ fullText \in Seq(Nat)
  /\ TextSent(Of("text"))
  /\ InOrder(Of("text"), Of("reasoning"), Of("tool"), toolBuffer, produced)
  /\ AllSomewhere(Of("text"), Of("reasoning"), Of("tool"), dropped, toolBuffer, visible)
  /\ Buffered
=============================================================================
