---------------------------- MODULE SessionProofs ----------------------------
(***************************************************************************)
(* Proofs about a session: the inductive invariant of Session, the safety  *)
(* properties that follow from it, and that the history is a log of whole  *)
(* turns (TurnLog), for every number of workers, requests, tool calls,     *)
(* chunks and edits.                                                       *)
(***************************************************************************)
EXTENDS Session, SequenceTheorems, TLAPS

\* A step of the stream's loop that takes no chunk.
Loops(w) == Listen(w) \/ WaitTimesOut(w)

\* Every step is one call of the application or one action of one worker.
LEMMA NextCases ==
  ASSUME [Next]_vars
  PROVE  \/ Submit \/ \E r \in DOMAIN requests : Cancel(r)
         \/ \E count \in 0..2 : UndoTurns(count)
         \/ ClearHistory \/ RestoreHistory \/ ExportHistory \/ SetOptions
         \/ \E final \in BOOLEAN : PushAudio(final)
         \/ \E w \in Workers :
              \/ Pop(w) \/ Lock(w) \/ Abandon(w) \/ BuildPrompt(w) \/ GenerateEnds(w)
              \/ AppendTurn(w) \/ OpenStream(w) \/ Loops(w) \/ TakeChunk(w) \/ GenerateCall(w)
              \/ Fail(w)
         \/ UNCHANGED vars
BY DEF Next, Application, WorkerStep, Loops

LEMMA LoopEffect ==
  ASSUME NEW w \in Workers, Loops(w)
  PROVE  /\ pc[w] \in Streaming /\ \E label \in Streaming : pc' = [pc EXCEPT ![w] = label]
         /\ UNCHANGED <<type, history, keepHistory, nextCall, exported, kept, edits, audio, pushed,
                        since, heard, requestLock, requests, cancelled, outcome, queue, at, prompt,
                        calls, edited>>
BY DEF Loops, Listen, WaitTimesOut, Goto, Streaming, chatVars, audioVars, jobVars

-----------------------------------------------------------------------------
(* Sequences.                                                              *)

\* What undoing leaves is the beginning of the history.
LEMMA UndoneIsPrefix ==
  ASSUME NEW S, NEW messages \in Seq(S), NEW count \in Nat
  PROVE  \E n \in 0..Len(messages) : Undone(messages, count) = SubSeq(messages, 1, n)
<1> DEFINE cuts == {i \in Users(messages) :
                      Cardinality({j \in Users(messages) : j >= i}) = count}
<1>1. CASE count = 0
  BY <1>1 DEF Undone
<1>2. CASE count # 0 /\ cuts = {}
  BY <1>2 DEF Undone
<1>3. CASE count # 0 /\ cuts # {}
  <2>1. PICK k : k = CHOOSE i \in cuts : TRUE
    OBVIOUS
  <2>2. k \in 1..Len(messages)
    <3>1. k \in cuts
      BY <1>3, <2>1
    <3> QED BY <3>1 DEF Users
  <2>3. Undone(messages, count) = SubSeq(messages, 1, k - 1)
    BY <1>3, <2>1 DEF Undone
  <2> QED BY <2>2, <2>3
<1> QED BY <1>1, <1>2, <1>3

\* Appending to a queue and taking its first element.
LEMMA Queued ==
  ASSUME NEW S, NEW s \in Seq(S), NEW e \in S
  PROVE  /\ Append(s, e) \in Seq(S) /\ Len(s) \in Nat /\ Len(Append(s, e)) = Len(s) + 1
         /\ \A i \in 1..Len(s) : Append(s, e)[i] = s[i]
         /\ Append(s, e)[Len(s) + 1] = e
OBVIOUS

LEMMA Taken ==
  ASSUME NEW S, NEW s \in Seq(S), s # <<>>
  PROVE  /\ Tail(s) \in Seq(S) /\ Len(s) \in Nat \ {0} /\ Len(Tail(s)) = Len(s) - 1
         /\ Head(s) \in S /\ Head(s) = s[1]
         /\ \A i \in 1..Len(Tail(s)) : Tail(s)[i] = s[i + 1]
OBVIOUS

\* A function on 1..n is a sequence.
LEMMA Appended ==
  ASSUME NEW S, NEW n \in Nat, NEW f \in [1..n -> S], NEW e \in S
  PROVE  /\ Append(f, e) \in [1..n + 1 -> S] /\ f \in Seq(S) /\ Len(f) = n
         /\ \A i \in 1..n : Append(f, e)[i] = f[i]
         /\ Append(f, e)[n + 1] = e
<1>1. f \in Seq(S) /\ Len(f) = n
  BY IsASeq
<1>2. Append(f, e) \in Seq(S) /\ Len(Append(f, e)) = n + 1
  BY <1>1, Queued
<1>3. Append(f, e) \in [1..n + 1 -> S]
  BY <1>2, LenProperties
<1> QED BY <1>1, <1>3, Queued

\* An edit leaves the beginning of the history, or brings an export back.
LEMMA PrefixElements ==
  ASSUME NEW S, NEW s \in Seq(S), NEW n \in 0..Len(s)
  PROVE  /\ SubSeq(s, 1, n) \in Seq(S) /\ Len(SubSeq(s, 1, n)) = n
         /\ \A i \in 1..n : SubSeq(s, 1, n)[i] = s[i]
OBVIOUS

LEMMA SuffixElements ==
  ASSUME NEW S, NEW s \in Seq(S), NEW m \in Nat \ {0}, NEW n \in Nat, n = Len(s), m <= n
  PROVE  /\ SubSeq(s, m, n) \in Seq(S) /\ Len(SubSeq(s, m, n)) = n - m + 1
         /\ \A i \in 1..n - m + 1 : SubSeq(s, m, n)[i] = s[m + i - 1]
OBVIOUS

\* A turn appended to the history.
LEMMA TurnElements ==
  ASSUME NEW S, NEW s \in Seq(S), NEW t \in Seq(S), NEW e \in S, NEW h, h = Append(s \o t, e)
  PROVE  /\ h \in Seq(S) /\ Len(h) = Len(s) + Len(t) + 1
         /\ \A i \in 1..Len(s) : h[i] = s[i]
         /\ \A i \in 1..Len(t) : h[Len(s) + i] = t[i]
         /\ h[Len(s) + Len(t) + 1] = e
<1>1. s \o t \in Seq(S) /\ Len(s \o t) = Len(s) + Len(t)
      /\ (\A i \in 1..Len(s) : (s \o t)[i] = s[i])
      /\ (\A i \in 1..Len(t) : (s \o t)[Len(s) + i] = t[i])
  OBVIOUS
<1> QED BY <1>1

-----------------------------------------------------------------------------
(* The inductive invariant, one part at a time.                            *)

\* The messages of a request.
LEMMA Submitted ==
  ASSUME TypeOK, NEW n \in 1..MaxRequests,
         NEW messages \in (IF type = "chat" THEN Completions(n) \cup ToolResults(n) ELSE {<<>>})
  PROVE  /\ messages \in Seq(Message)
         /\ \A i \in DOMAIN messages : messages[i].of = n /\ messages[i].role # "assistant"
<1> DEFINE user == [role |-> "user", of |-> n, calls |-> {}]
           system == [role |-> "system", of |-> n, calls |-> {}]
           tool(c) == [role |-> "tool", of |-> n, calls |-> {c}]
<1>1. user \in Message /\ system \in Message /\ \A c \in 0..MaxCalls : tool(c) \in Message
  BY SessionAssumption DEF Message, Roles
<1>2. \/ messages = <<user>> \/ messages = <<system, user>> \/ messages = <<>>
      \/ \E c \in 0..MaxCalls : messages = <<tool(c)>>
  BY DEF Completions, ToolResults
<1>3. \A i \in DOMAIN messages : messages[i].of = n /\ messages[i].role # "assistant"
  BY <1>2
<1> HIDE DEF user, system, tool
<1>4. <<user>> \in Seq(Message) /\ <<system, user>> \in Seq(Message) /\ <<>> \in Seq(Message)
  BY <1>1
<1>5. \A c \in 0..MaxCalls : <<tool(c)>> \in Seq(Message)
  BY <1>1
<1> QED BY <1>2, <1>3, <1>4, <1>5

\* The reply of a request.
LEMMA ReplyType ==
  ASSUME TypeOK, NEW w \in Workers, at[w] # 0
  PROVE  at[w] \in DOMAIN requests /\ requests[at[w]] \in Seq(Message) /\ Reply(w) \in Message
<1>1. at[w] \in DOMAIN requests /\ calls[w] \subseteq 0..MaxCalls
  BY DEF TypeOK
<1>2. requests[at[w]] \in Seq(Message)
  BY <1>1 DEF TypeOK
<1>3. at[w] \in 0..MaxRequests
  <2>1. DOMAIN requests = 1..Len(requests) /\ Len(requests) \in Nat /\ Len(requests) <= MaxRequests
    BY DEF TypeOK
  <2> QED BY <1>1, <2>1, SessionAssumption
<1> QED BY <1>1, <1>2, <1>3 DEF Reply, Message, Roles

\* Leaving the body keeps the types of what it changes.
LEMMA LeaveTypes ==
  ASSUME TypeOK, NEW w \in Workers, NEW result \in {"ok", "failed", "cancelled"},
         Leave(w, result)
  PROVE  /\ requestLock' \in Workers \cup {NoWorker}
         /\ outcome' \in [DOMAIN requests -> {"none", "ok", "failed", "cancelled"}]
         /\ pc' \in [Workers -> Labels] /\ at' \in [Workers -> DOMAIN requests \cup {0}]
         /\ prompt' \in [Workers -> Seq(Message)]
         /\ calls' \in [Workers -> SUBSET (0..MaxCalls)] /\ edited' \subseteq Workers
         /\ UNCHANGED <<type, requests, cancelled, queue>>
<1>1. <<>> \in Seq(Message)
  OBVIOUS
<1>2. /\ requestLock' \in Workers \cup {NoWorker}
      /\ outcome' \in [DOMAIN requests -> {"none", "ok", "failed", "cancelled"}]
      /\ pc' \in [Workers -> Labels] /\ at' \in [Workers -> DOMAIN requests \cup {0}]
  BY DEF Leave, Goto, TypeOK, Labels, Streaming
<1>3. /\ prompt' \in [Workers -> Seq(Message)]
      /\ calls' \in [Workers -> SUBSET (0..MaxCalls)] /\ edited' \subseteq Workers
  BY <1>1 DEF Leave, TypeOK
<1> QED BY <1>2, <1>3 DEF Leave

\* Every variable keeps its type.
LEMMA NextTypeOK == ASSUME Inv, [Next]_vars PROVE TypeOK'
<1>a. TypeOK
  BY DEF Inv
<1>b. /\ Len(requests) \in 0..MaxRequests /\ DOMAIN requests = 1..Len(requests)
      /\ {MaxRequests, MaxCalls, MaxChunks, MaxEdits} \subseteq Nat
  BY SessionAssumption DEF Inv, TypeOK
<1>c. \A w \in Workers : pc[w] # "poll" => at[w] # 0 /\ at[w] \in DOMAIN requests
  BY DEF Inv, RequestInv, TypeOK
<1>1. ASSUME Submit PROVE TypeOK'
  <2> DEFINE n == Len(requests) + 1
  <2>1. UNCHANGED <<type, history, keepHistory, nextCall, exported, kept, edits, audio, pushed,
            requestLock, cancelled, pc, at, prompt, calls, edited>>
    BY <1>1 DEF Submit, chatVars, workerVars
  <2>2. PICK messages \in (IF type = "chat" THEN Completions(n) \cup ToolResults(n) ELSE {<<>>}) :
          requests' = Append(requests, messages)
    BY <1>1 DEF Submit
  <2>3. n \in 1..MaxRequests
    BY <1>1, <1>b DEF Submit
  <2>4. messages \in Seq(Message)
    BY <1>a, <2>2, <2>3, Submitted
  <2>5. requests' \in Seq(Seq(Message)) /\ Len(requests') = n /\ DOMAIN requests' = 1..n
    BY <1>a, <2>2, <2>4 DEF TypeOK
  <2>6. /\ outcome' = Append(outcome, "none") /\ since' = Append(since, pushed + 1)
        /\ heard' = Append(heard, <<>>) /\ queue' = Append(queue, n)
    BY <1>1 DEF Submit
  <2>7. /\ Len(requests) \in Nat /\ n \in Nat /\ pushed + 1 \in 1..MaxChunks + 1
        /\ outcome \in [1..Len(requests) -> {"none", "ok", "failed", "cancelled"}]
        /\ since \in [1..Len(requests) -> 1..MaxChunks + 1]
        /\ heard \in [1..Len(requests) -> Seq(Chunk)] /\ queue \in Seq(1..Len(requests))
    <3>1. /\ pushed \in 0..MaxChunks /\ queue \in Seq(DOMAIN requests)
          /\ outcome \in [DOMAIN requests -> {"none", "ok", "failed", "cancelled"}]
          /\ since \in [DOMAIN requests -> 1..MaxChunks + 1]
          /\ heard \in [DOMAIN requests -> Seq(Chunk)]
      BY <1>a DEF TypeOK
    <3>2. Len(requests) \in Nat /\ MaxChunks \in Nat /\ DOMAIN requests = 1..Len(requests)
      BY <1>b
    <3>3. n \in Nat /\ pushed + 1 \in 1..MaxChunks + 1
      BY <3>1, <3>2
    <3> QED BY <3>1, <3>2, <3>3
  <2>8. outcome' \in [1..n -> {"none", "ok", "failed", "cancelled"}]
    BY <2>6, <2>7, Appended
  <2>9. since' \in [1..n -> 1..MaxChunks + 1]
    BY <2>6, <2>7, Appended
  <2>10. heard' \in [1..n -> Seq(Chunk)]
    <3>1. <<>> \in Seq(Chunk)
      OBVIOUS
    <3> QED BY <2>6, <2>7, <3>1, Appended
  <2>11. queue' \in Seq(1..n)
    <3>1. queue \in Seq(1..n)
      BY <2>7, SeqMonotonic
    <3> QED BY <2>6, <2>7, <3>1, Queued
  <2>12. cancelled' \subseteq 1..n /\ kept' \subseteq 1..n /\ at' \in [Workers -> 1..n \cup {0}]
    <3>1. 1..Len(requests) \subseteq 1..n
      BY <2>7
    <3> QED BY <1>a, <1>b, <2>1, <3>1 DEF TypeOK
  <2>13. /\ outcome' \in [DOMAIN requests' -> {"none", "ok", "failed", "cancelled"}]
         /\ since' \in [DOMAIN requests' -> 1..MaxChunks + 1]
         /\ heard' \in [DOMAIN requests' -> Seq(Chunk)] /\ queue' \in Seq(DOMAIN requests')
         /\ cancelled' \subseteq DOMAIN requests' /\ kept' \subseteq DOMAIN requests'
         /\ at' \in [Workers -> DOMAIN requests' \cup {0}]
    BY <2>5, <2>8, <2>9, <2>10, <2>11, <2>12
  <2>14. requests' \in Seq(Seq(Message)) /\ Len(requests') <= MaxRequests
    BY <2>3, <2>5
  <2>15. /\ type' \in Types /\ history' \in Seq(Message) /\ exported' \in Seq(Message)
         /\ keepHistory' \in BOOLEAN /\ nextCall' \in 0..MaxCalls /\ edits' \in 0..MaxEdits
         /\ audio' \in Seq(Chunk) /\ pushed' \in 0..MaxChunks
         /\ requestLock' \in Workers \cup {NoWorker} /\ pc' \in [Workers -> Labels]
         /\ prompt' \in [Workers -> Seq(Message)]
         /\ calls' \in [Workers -> SUBSET (0..MaxCalls)] /\ edited' \subseteq Workers
    BY <1>a, <2>1 DEF TypeOK
  <2> QED BY <2>13, <2>14, <2>15 DEF TypeOK
<1>2. ASSUME NEW r \in DOMAIN requests, Cancel(r) PROVE TypeOK'
  <2>1. UNCHANGED <<type, history, keepHistory, nextCall, exported, kept, edits, audio,
      pushed, since, heard, requestLock, requests, queue, pc, at, prompt, calls, edited>>
    BY <1>2 DEF Cancel, chatVars, audioVars, workerVars
  <2>2. cancelled' \subseteq DOMAIN requests
    BY <1>2, <1>a, <1>b DEF Cancel, chatVars, audioVars, workerVars, TypeOK
  <2>3. outcome' \in [DOMAIN requests -> {"none", "ok", "failed", "cancelled"}]
    BY <1>2, <1>a, <1>b DEF Cancel, chatVars, audioVars, workerVars, TypeOK
  <2> QED BY <1>a, <2>1, <2>2, <2>3 DEF TypeOK
<1>3. ASSUME NEW count \in 0..2, UndoTurns(count) PROVE TypeOK'
  <2>1. UNCHANGED <<type, keepHistory, nextCall, exported, kept, audio, pushed, since,
      heard, requestLock, requests, cancelled, outcome, queue, pc, at, prompt, calls>>
    BY <1>3 DEF UndoTurns, Edit, audioVars, jobVars
  <2>2. history' \in Seq(Message)
    <3>1. history \in Seq(Message) /\ history' = Undone(history, count) /\ count \in Nat
      BY <1>3, <1>a DEF UndoTurns, Edit, TypeOK
    <3>2. PICK n \in 0..Len(history) : history' = SubSeq(history, 1, n)
      BY <3>1, UndoneIsPrefix
    <3> QED BY <3>1, <3>2, PrefixElements
  <2>3. edits' \in 0..MaxEdits
    BY <1>3, <1>a, <1>b DEF UndoTurns, Edit, audioVars, jobVars, TypeOK
  <2>4. edited' \subseteq Workers
    BY <1>3, <1>a, <1>b DEF UndoTurns, Edit, audioVars, jobVars, TypeOK
  <2> QED BY <1>a, <2>1, <2>2, <2>3, <2>4 DEF TypeOK
<1>4. ASSUME ClearHistory PROVE TypeOK'
  <2>1. UNCHANGED <<type, keepHistory, nextCall, exported, kept, audio, pushed, since,
      heard, requestLock, requests, cancelled, outcome, queue, pc, at, prompt, calls>>
    BY <1>4 DEF ClearHistory, Edit, audioVars, jobVars
  <2>2. history' \in Seq(Message)
    BY <1>4, <1>a, <1>b DEF ClearHistory, Edit, audioVars, jobVars, TypeOK
  <2>3. edits' \in 0..MaxEdits
    BY <1>4, <1>a, <1>b DEF ClearHistory, Edit, audioVars, jobVars, TypeOK
  <2>4. edited' \subseteq Workers
    BY <1>4, <1>a, <1>b DEF ClearHistory, Edit, audioVars, jobVars, TypeOK
  <2> QED BY <1>a, <2>1, <2>2, <2>3, <2>4 DEF TypeOK
<1>5. ASSUME RestoreHistory PROVE TypeOK'
  <2>1. UNCHANGED <<type, keepHistory, nextCall, exported, kept, audio, pushed, since,
      heard, requestLock, requests, cancelled, outcome, queue, pc, at, prompt, calls>>
    BY <1>5 DEF RestoreHistory, Edit, audioVars, jobVars
  <2>2. history' \in Seq(Message)
    BY <1>5, <1>a, SessionAssumption DEF RestoreHistory, Edit, TypeOK
  <2>3. edits' \in 0..MaxEdits
    BY <1>5, <1>a, <1>b DEF RestoreHistory, Edit, audioVars, jobVars, TypeOK
  <2>4. edited' \subseteq Workers
    BY <1>5, <1>a, <1>b DEF RestoreHistory, Edit, audioVars, jobVars, TypeOK
  <2> QED BY <1>a, <2>1, <2>2, <2>3, <2>4 DEF TypeOK
<1>6. ASSUME ExportHistory PROVE TypeOK'
  <2>1. UNCHANGED <<type, history, keepHistory, nextCall, kept, audio, pushed, since, heard,
      requestLock, requests, cancelled, outcome, queue, pc, at, prompt, calls, edited>>
    BY <1>6 DEF ExportHistory, audioVars, jobVars, workerVars
  <2>2. exported' \in Seq(Message)
    BY <1>6, <1>a, <1>b DEF ExportHistory, audioVars, jobVars, workerVars, TypeOK
  <2>3. edits' \in 0..MaxEdits
    BY <1>6, <1>a, <1>b DEF ExportHistory, audioVars, jobVars, workerVars, TypeOK
  <2> QED BY <1>a, <2>1, <2>2, <2>3 DEF TypeOK
<1>7. ASSUME SetOptions PROVE TypeOK'
  <2>1. UNCHANGED <<type, history, nextCall, exported, kept, audio, pushed, since, heard,
      requestLock, requests, cancelled, outcome, queue, pc, at, prompt, calls, edited>>
    BY <1>7 DEF SetOptions, audioVars, jobVars, workerVars
  <2>2. keepHistory' \in BOOLEAN
    BY <1>7, <1>a, <1>b DEF SetOptions, audioVars, jobVars, workerVars, TypeOK
  <2>3. edits' \in 0..MaxEdits
    BY <1>7, <1>a, <1>b DEF SetOptions, audioVars, jobVars, workerVars, TypeOK
  <2> QED BY <1>a, <2>1, <2>2, <2>3 DEF TypeOK
<1>8. ASSUME NEW final \in BOOLEAN, PushAudio(final) PROVE TypeOK'
  <2>1. UNCHANGED <<type, history, keepHistory, nextCall, exported, kept, edits, since,
      heard, requestLock, requests, cancelled, outcome, queue, pc, at, prompt, calls,
      edited>>
    BY <1>8 DEF PushAudio, chatVars, jobVars, workerVars
  <2>2. pushed' \in 0..MaxChunks
    BY <1>8, <1>a, <1>b DEF PushAudio, chatVars, jobVars, workerVars, TypeOK
  <2>3. audio' \in Seq(Chunk)
    <3> DEFINE c == [number |-> pushed + 1, final |-> final]
    <3>1. c \in Chunk /\ audio' = Append(audio, c)
      BY <1>8, <1>a, <1>b DEF PushAudio, TypeOK, Chunk
    <3> HIDE DEF c
    <3> QED BY <1>a, <3>1, Queued DEF TypeOK
  <2> QED BY <1>a, <2>1, <2>2, <2>3 DEF TypeOK
<1>9. ASSUME NEW w \in Workers, Pop(w) PROVE TypeOK'
  <2>1. UNCHANGED <<type, history, keepHistory, nextCall, exported, kept, edits, audio, pushed,
                    since, heard, requestLock, requests, cancelled, outcome, prompt, calls, edited>>
    BY <1>9 DEF Pop, chatVars, audioVars
  <2>2. queue' \in Seq(DOMAIN requests) /\ Head(queue) \in DOMAIN requests
    BY <1>9, <1>a, Taken DEF Pop, TypeOK
  <2>3. pc' \in [Workers -> Labels] /\ at' \in [Workers -> DOMAIN requests \cup {0}]
    BY <1>9, <1>a, <2>2 DEF Pop, Goto, TypeOK, Labels, Streaming
  <2> QED BY <1>a, <2>1, <2>2, <2>3 DEF TypeOK
<1>10. ASSUME NEW w \in Workers, Lock(w) PROVE TypeOK'
  <2>1. UNCHANGED <<type, history, keepHistory, nextCall, exported, kept, edits, audio,
      pushed, since, heard, requests, cancelled, outcome, queue, at, prompt, calls, edited>>
    BY <1>10 DEF Lock, Goto, chatVars, audioVars, jobVars
  <2>2. requestLock' \in Workers \cup {NoWorker}
    BY <1>10, <1>a, <1>b DEF Lock, Goto, chatVars, audioVars, jobVars, TypeOK
  <2>3. pc' \in [Workers -> Labels]
    BY <1>10, <1>a, <1>b DEF Lock, Goto, chatVars, audioVars, jobVars, TypeOK, Labels, Streaming
  <2> QED BY <1>a, <2>1, <2>2, <2>3 DEF TypeOK
<1>11. ASSUME NEW w \in Workers, Abandon(w) PROVE TypeOK'
  <2>1. Leave(w, "cancelled") /\ UNCHANGED <<chatVars, audioVars>>
    BY <1>11 DEF Abandon
  <2>2. UNCHANGED <<history, keepHistory, nextCall, exported, kept, edits, audio, pushed, since,
                    heard>>
    BY <2>1 DEF chatVars, audioVars
  <2> QED BY <1>a, <2>1, <2>2, LeaveTypes DEF TypeOK
<1>12. ASSUME NEW w \in Workers, BuildPrompt(w) PROVE TypeOK'
  <2>1. UNCHANGED <<type, history, keepHistory, nextCall, exported, kept, edits, audio,
      pushed, since, heard, requestLock, requests, cancelled, outcome, queue, at, calls>>
    BY <1>12 DEF BuildPrompt, Goto, chatVars, audioVars, jobVars
  <2>2. prompt' \in [Workers -> Seq(Message)]
    BY <1>12, <1>a, <1>b DEF BuildPrompt, Goto, chatVars, audioVars, jobVars, TypeOK
  <2>3. edited' \subseteq Workers
    BY <1>12, <1>a, <1>b DEF BuildPrompt, Goto, chatVars, audioVars, jobVars, TypeOK
  <2>4. pc' \in [Workers -> Labels]
    BY <1>12, <1>a, <1>b DEF BuildPrompt, Goto, chatVars, audioVars, jobVars, TypeOK, Labels,
        Streaming
  <2> QED BY <1>a, <2>1, <2>2, <2>3, <2>4 DEF TypeOK
<1>13. ASSUME NEW w \in Workers, GenerateEnds(w) PROVE TypeOK'
  <2>1. UNCHANGED <<history, keepHistory, nextCall, exported, kept, edits, audio, pushed, since,
                    heard>>
    BY <1>13 DEF GenerateEnds, chatVars, audioVars
  <2>2. CASE keepHistory
    <3>1. /\ pc' \in [Workers -> Labels]
          /\ UNCHANGED <<type, requestLock, requests, cancelled, outcome, queue, at, prompt,
                         calls, edited>>
      BY <1>13, <1>a, <2>2 DEF GenerateEnds, Goto, jobVars, TypeOK, Labels, Streaming
    <3> QED BY <1>a, <2>1, <3>1 DEF TypeOK
  <2>3. CASE ~keepHistory
    <3>1. Leave(w, "cancelled") \/ Leave(w, "ok")
      BY <1>13, <2>3 DEF GenerateEnds, Done
    <3> QED BY <1>a, <2>1, <3>1, LeaveTypes DEF TypeOK
  <2> QED BY <2>2, <2>3
<1>14. ASSUME NEW w \in Workers, AppendTurn(w) PROVE TypeOK'
  <2>1. UNCHANGED <<keepHistory, nextCall, exported, edits, audio, pushed, since, heard>>
    BY <1>14 DEF AppendTurn, audioVars
  <2>2. history' \in Seq(Message) /\ kept' \subseteq DOMAIN requests
    <3>1. /\ history \in Seq(Message) /\ requests[at[w]] \in Seq(Message) /\ Reply(w) \in Message
          /\ history' = Append(history \o requests[at[w]], Reply(w))
      BY <1>14, <1>a, <1>c, ReplyType DEF AppendTurn, TypeOK
    <3>2. kept' \subseteq DOMAIN requests
      BY <1>14, <1>a, <1>c DEF AppendTurn, TypeOK
    <3> QED BY <3>1, <3>2, TurnElements
  <2>3. Leave(w, "cancelled") \/ Leave(w, "ok")
    BY <1>14 DEF AppendTurn, Done
  <2> QED BY <1>a, <2>1, <2>2, <2>3, LeaveTypes DEF TypeOK
<1>15. ASSUME NEW w \in Workers, OpenStream(w) PROVE TypeOK'
  <2>1. UNCHANGED <<type, history, keepHistory, nextCall, exported, kept, edits, pushed,
      heard, requestLock, requests, cancelled, outcome, queue, at, prompt, calls, edited>>
    BY <1>15 DEF OpenStream, Goto, chatVars, jobVars
  <2>2. audio' \in Seq(Chunk)
    <3>1. <<>> \in Seq(Chunk)
      OBVIOUS
    <3> QED BY <1>15, <3>1 DEF OpenStream
  <2>3. since' \in [DOMAIN requests -> 1..MaxChunks + 1]
    <3>1. pushed + 1 \in 1..MaxChunks + 1
      BY <1>a, <1>b DEF TypeOK
    <3> QED BY <1>15, <1>a, <3>1 DEF OpenStream, TypeOK
  <2>4. pc' \in [Workers -> Labels]
    BY <1>15, <1>a, <1>b DEF OpenStream, Goto, chatVars, jobVars, TypeOK, Labels, Streaming
  <2> QED BY <1>a, <2>1, <2>2, <2>3, <2>4 DEF TypeOK
<1>16. ASSUME NEW w \in Workers, TakeChunk(w) PROVE TypeOK'
  <2>1. UNCHANGED <<history, keepHistory, nextCall, exported, kept, edits, pushed, since>>
    BY <1>16 DEF TakeChunk, chatVars
  <2>2. audio' \in Seq(Chunk)
    BY <1>16, <1>a, Taken DEF TakeChunk, TypeOK
  <2>3. heard' \in [DOMAIN requests -> Seq(Chunk)]
    <3>1. at[w] \in DOMAIN requests /\ Head(audio) \in Chunk /\ heard[at[w]] \in Seq(Chunk)
      BY <1>16, <1>a, <1>c, Taken DEF TakeChunk, TypeOK
    <3>2. Append(heard[at[w]], Head(audio)) \in Seq(Chunk)
      BY <3>1, Queued
    <3> QED BY <1>16, <1>a, <3>1, <3>2 DEF TakeChunk, TypeOK
  <2>4. CASE Head(audio).final
    <3>1. Leave(w, "cancelled") \/ Leave(w, "ok") \/ Leave(w, "failed")
      BY <1>16, <2>4 DEF TakeChunk, Done
    <3> QED BY <1>a, <2>1, <2>2, <2>3, <3>1, LeaveTypes DEF TypeOK
  <2>5. CASE ~Head(audio).final
    <3>1. UNCHANGED <<type, at, prompt, calls, edited, requestLock, requests, cancelled, outcome,
                      queue>>
      BY <1>16, <2>5 DEF TakeChunk, jobVars
    <3>2. pc' \in [Workers -> Labels]
      BY <1>16, <1>a, <2>5 DEF TakeChunk, Goto, TypeOK, Labels, Streaming
    <3> QED BY <1>a, <2>1, <2>2, <2>3, <3>1, <3>2 DEF TypeOK
  <2> QED BY <2>4, <2>5
<1>17. ASSUME NEW w \in Workers, GenerateCall(w) PROVE TypeOK'
  <2>1. UNCHANGED <<type, history, keepHistory, exported, kept, edits, audio, pushed, since,
      heard, requestLock, requests, cancelled, outcome, queue, pc, at, prompt, edited>>
    BY <1>17 DEF GenerateCall, audioVars, jobVars
  <2>2. calls' \in [Workers -> SUBSET (0..MaxCalls)]
    BY <1>17, <1>a, <1>b DEF GenerateCall, audioVars, jobVars, TypeOK
  <2>3. nextCall' \in 0..MaxCalls
    BY <1>17, <1>a, <1>b DEF GenerateCall, audioVars, jobVars, TypeOK
  <2> QED BY <1>a, <2>1, <2>2, <2>3 DEF TypeOK
<1>18. ASSUME NEW w \in Workers, Fail(w) PROVE TypeOK'
  <2>1. Leave(w, "failed") /\ UNCHANGED <<chatVars, audioVars>>
    BY <1>18 DEF Fail
  <2>2. UNCHANGED <<history, keepHistory, nextCall, exported, kept, edits, audio, pushed, since,
                    heard>>
    BY <2>1 DEF chatVars, audioVars
  <2> QED BY <1>a, <2>1, <2>2, LeaveTypes DEF TypeOK
<1>19. CASE UNCHANGED vars
  BY <1>19, <1>a, <1>b, <1>c, <1>c DEF vars, chatVars, audioVars, jobVars, workerVars,
      TypeOK
<1>20. ASSUME NEW w \in Workers, Loops(w) PROVE TypeOK'
  <2>1. pc' \in [Workers -> Labels]
    BY <1>20, <1>a, LoopEffect DEF TypeOK, Labels
  <2> QED BY <1>20, <1>a, <2>1, LoopEffect DEF TypeOK
<1> QED BY <1>1, <1>2, <1>3, <1>4, <1>5, <1>6, <1>7, <1>8, <1>9, <1>10, <1>11, <1>12, <1>13,
    <1>14, <1>15, <1>16, <1>17, <1>18, <1>19, <1>20, NextCases

\* What a new request adds.
NewRequest(n) ==
  /\ DOMAIN requests' = DOMAIN requests \cup {n} /\ n \notin DOMAIN requests
  /\ \A r \in DOMAIN requests : /\ requests'[r] = requests[r] /\ outcome'[r] = outcome[r]
                                /\ heard'[r] = heard[r] /\ since'[r] = since[r]
  /\ \A i \in DOMAIN requests'[n] : /\ requests'[n][i].of = n
                                    /\ requests'[n][i].role # "assistant"
  /\ outcome'[n] = "none" /\ heard'[n] = <<>> /\ since'[n] = pushed + 1
  /\ DOMAIN queue' = DOMAIN queue \cup {Len(queue) + 1} /\ Len(queue) + 1 \notin DOMAIN queue
  /\ queue'[Len(queue) + 1] = n /\ \A i \in DOMAIN queue : queue'[i] = queue[i]
  /\ UNCHANGED <<type, audio, pushed, kept, pc, at>>

LEMMA SubmitEffect == ASSUME Inv, Submit PROVE NewRequest(Len(requests) + 1)
<1> DEFINE n == Len(requests) + 1
<1>1. PICK messages \in (IF type = "chat" THEN Completions(n) \cup ToolResults(n) ELSE {<<>>}) :
        /\ requests' = Append(requests, messages) /\ outcome' = Append(outcome, "none")
        /\ since' = Append(since, pushed + 1) /\ heard' = Append(heard, <<>>)
        /\ queue' = Append(queue, n)
        /\ UNCHANGED <<type, audio, pushed, kept, pc, at>>
  BY DEF Submit, chatVars, workerVars
<1>2. /\ requests \in Seq(Seq(Message)) /\ queue \in Seq(DOMAIN requests) /\ TypeOK
      /\ n <= MaxRequests
  BY DEF Inv, TypeOK, Submit
<1>3. Len(requests) \in Nat /\ DOMAIN requests = 1..Len(requests) /\ n \in 1..MaxRequests
  BY <1>2, SessionAssumption
<1>4. messages \in Seq(Message) /\ (\A i \in DOMAIN messages :
        messages[i].of = n /\ messages[i].role # "assistant")
  BY <1>2, <1>3, Submitted
<1>5. /\ outcome \in [1..Len(requests) -> {"none", "ok", "failed", "cancelled"}]
      /\ since \in [1..Len(requests) -> 1..MaxChunks + 1]
      /\ heard \in [1..Len(requests) -> Seq(Chunk)]
      /\ pushed + 1 \in 1..MaxChunks + 1 /\ <<>> \in Seq(Chunk)
  <2>1. /\ outcome \in [DOMAIN requests -> {"none", "ok", "failed", "cancelled"}]
        /\ since \in [DOMAIN requests -> 1..MaxChunks + 1]
        /\ heard \in [DOMAIN requests -> Seq(Chunk)] /\ pushed \in 0..MaxChunks
    BY <1>2 DEF TypeOK
  <2>2. MaxChunks \in Nat /\ <<>> \in Seq(Chunk)
    BY SessionAssumption
  <2>3. pushed + 1 \in 1..MaxChunks + 1
    BY <2>1, <2>2
  <2> QED BY <1>3, <2>1, <2>2, <2>3
<1>6. requests' \in Seq(Seq(Message)) /\ Len(requests') = n /\ requests'[n] = messages
      /\ \A r \in 1..Len(requests) : requests'[r] = requests[r]
  BY <1>1, <1>2, <1>4, Queued
<1>7. DOMAIN requests' = DOMAIN requests \cup {n} /\ n \notin DOMAIN requests
  BY <1>3, <1>6
<1>8. /\ outcome'[n] = "none" /\ \A r \in 1..Len(requests) : outcome'[r] = outcome[r]
      /\ heard'[n] = <<>> /\ \A r \in 1..Len(requests) : heard'[r] = heard[r]
      /\ since'[n] = pushed + 1 /\ \A r \in 1..Len(requests) : since'[r] = since[r]
  BY <1>1, <1>3, <1>5, Appended
<1>9. /\ DOMAIN queue' = DOMAIN queue \cup {Len(queue) + 1} /\ Len(queue) + 1 \notin DOMAIN queue
      /\ queue'[Len(queue) + 1] = n /\ \A i \in DOMAIN queue : queue'[i] = queue[i]
  <2>1. queue \in Seq(Nat) /\ n \in Nat
    <3>1. DOMAIN requests \subseteq Nat /\ n \in Nat
      BY <1>3
    <3>2. queue \in Seq(DOMAIN requests)
      BY <1>2
    <3> QED BY ONLY <3>1, <3>2, SeqMonotonic
  <2>2. /\ queue' \in Seq(Nat) /\ Len(queue) \in Nat /\ Len(queue') = Len(queue) + 1
        /\ \A i \in 1..Len(queue) : queue'[i] = queue[i]
        /\ queue'[Len(queue) + 1] = n
    BY <1>1, <2>1, Queued
  <2>3. DOMAIN queue = 1..Len(queue) /\ DOMAIN queue' = 1..Len(queue')
    BY <2>1, <2>2, LenProperties
  <2>4. /\ 1..Len(queue) + 1 = 1..Len(queue) \cup {Len(queue) + 1}
        /\ Len(queue) + 1 \notin 1..Len(queue)
    BY <2>2
  <2> QED BY <2>2, <2>3, <2>4
<1>10. \A r \in DOMAIN requests : /\ requests'[r] = requests[r] /\ outcome'[r] = outcome[r]
                                  /\ heard'[r] = heard[r] /\ since'[r] = since[r]
  BY <1>3, <1>6, <1>8
<1>11. \A i \in DOMAIN requests'[n] : requests'[n][i].of = n /\ requests'[n][i].role # "assistant"
  BY <1>4, <1>6
<1>12. UNCHANGED <<type, audio, pushed, kept, pc, at>>
  BY <1>1
<1> HIDE DEF n
<1>13. NewRequest(n)
  BY <1>7, <1>8, <1>9, <1>10, <1>11, <1>12 DEF NewRequest
<1> QED BY <1>13 DEF n

\* Who is past the lock holds it.
LEMMA NextLockInv == ASSUME Inv, [Next]_vars PROVE LockInv'
<1>a. LockInv
  BY DEF Inv
<1>b. pc \in [Workers -> Labels] /\ requestLock \in Workers \cup {NoWorker}
      /\ NoWorker \notin Workers /\ type \in {"chat", "audio"}
  BY SessionAssumption DEF Inv, TypeOK
<1>1. ASSUME Submit PROVE LockInv'
  BY <1>1, <1>a, <1>b DEF Submit, chatVars, workerVars, LockInv
<1>2. ASSUME NEW r \in DOMAIN requests, Cancel(r) PROVE LockInv'
  BY <1>2, <1>a, <1>b DEF Cancel, chatVars, audioVars, workerVars, LockInv
<1>3. ASSUME NEW count \in 0..2, UndoTurns(count) PROVE LockInv'
  BY <1>3, <1>a, <1>b DEF UndoTurns, Edit, audioVars, jobVars, LockInv
<1>4. ASSUME ClearHistory PROVE LockInv'
  BY <1>4, <1>a, <1>b DEF ClearHistory, Edit, audioVars, jobVars, LockInv
<1>5. ASSUME RestoreHistory PROVE LockInv'
  BY <1>5, <1>a, <1>b DEF RestoreHistory, Edit, audioVars, jobVars, LockInv
<1>6. ASSUME ExportHistory PROVE LockInv'
  BY <1>6, <1>a, <1>b DEF ExportHistory, audioVars, jobVars, workerVars, LockInv
<1>7. ASSUME SetOptions PROVE LockInv'
  BY <1>7, <1>a, <1>b DEF SetOptions, audioVars, jobVars, workerVars, LockInv
<1>8. ASSUME NEW final \in BOOLEAN, PushAudio(final) PROVE LockInv'
  BY <1>8, <1>a, <1>b DEF PushAudio, chatVars, jobVars, workerVars, LockInv
<1>9. ASSUME NEW w \in Workers, Pop(w) PROVE LockInv'
  BY <1>9, <1>a, <1>b DEF Pop, Goto, chatVars, audioVars, LockInv, Streaming
<1>10. ASSUME NEW w \in Workers, Lock(w) PROVE LockInv'
  BY <1>10, <1>a, <1>b DEF Lock, Goto, chatVars, audioVars, jobVars, LockInv, Streaming
<1>11. ASSUME NEW w \in Workers, Abandon(w) PROVE LockInv'
  BY <1>11, <1>a, <1>b DEF Abandon, Leave, Goto, chatVars, audioVars, LockInv, Streaming
<1>12. ASSUME NEW w \in Workers, BuildPrompt(w) PROVE LockInv'
  BY <1>12, <1>a, <1>b DEF BuildPrompt, Goto, chatVars, audioVars, jobVars, LockInv, Streaming
<1>13. ASSUME NEW w \in Workers, GenerateEnds(w) PROVE LockInv'
  BY <1>13, <1>a, <1>b DEF GenerateEnds, Done, Leave, Goto, chatVars, audioVars, jobVars,
      LockInv, Streaming
<1>14. ASSUME NEW w \in Workers, AppendTurn(w) PROVE LockInv'
  BY <1>14, <1>a, <1>b DEF AppendTurn, Done, Leave, Goto, audioVars, LockInv, Streaming
<1>15. ASSUME NEW w \in Workers, OpenStream(w) PROVE LockInv'
  BY <1>15, <1>a, <1>b DEF OpenStream, Goto, chatVars, jobVars, LockInv, Streaming
<1>16. ASSUME NEW w \in Workers, TakeChunk(w) PROVE LockInv'
  BY <1>16, <1>a, <1>b DEF TakeChunk, Done, Leave, Goto, chatVars, jobVars, LockInv, Streaming
<1>17. ASSUME NEW w \in Workers, GenerateCall(w) PROVE LockInv'
  BY <1>17, <1>a, <1>b DEF GenerateCall, audioVars, jobVars, LockInv, Streaming
<1>18. ASSUME NEW w \in Workers, Fail(w) PROVE LockInv'
  BY <1>18, <1>a, <1>b DEF Fail, Leave, Goto, chatVars, audioVars, LockInv, Streaming
<1>19. CASE UNCHANGED vars
  BY <1>19, <1>a, <1>b DEF vars, chatVars, audioVars, jobVars, workerVars, LockInv
<1>20. ASSUME NEW w \in Workers, Loops(w) PROVE LockInv'
  BY <1>20, <1>a, <1>b, LoopEffect DEF LockInv, Streaming
<1> QED BY <1>1, <1>2, <1>3, <1>4, <1>5, <1>6, <1>7, <1>8, <1>9, <1>10, <1>11, <1>12, <1>13,
    <1>14, <1>15, <1>16, <1>17, <1>18, <1>19, <1>20, NextCases

\* The prompt matches the history until an edit.
LEMMA NextPromptInv == ASSUME Inv, [Next]_vars PROVE PromptInv'
<1>a. PromptInv /\ LockInv
  BY DEF Inv
<1>b. pc \in [Workers -> Labels] /\ prompt \in [Workers -> Seq(Message)]
  BY DEF Inv, TypeOK
<1>1. ASSUME Submit PROVE PromptInv'
  BY <1>1, <1>a, <1>b DEF Submit, chatVars, workerVars, PromptInv
<1>2. ASSUME NEW r \in DOMAIN requests, Cancel(r) PROVE PromptInv'
  BY <1>2, <1>a, <1>b DEF Cancel, chatVars, audioVars, workerVars, PromptInv
<1>3. ASSUME NEW count \in 0..2, UndoTurns(count) PROVE PromptInv'
  BY <1>3, <1>a, <1>b DEF UndoTurns, Edit, audioVars, jobVars, PromptInv
<1>4. ASSUME ClearHistory PROVE PromptInv'
  BY <1>4, <1>a, <1>b DEF ClearHistory, Edit, audioVars, jobVars, PromptInv
<1>5. ASSUME RestoreHistory PROVE PromptInv'
  BY <1>5, <1>a, <1>b DEF RestoreHistory, Edit, audioVars, jobVars, PromptInv
<1>6. ASSUME ExportHistory PROVE PromptInv'
  BY <1>6, <1>a, <1>b DEF ExportHistory, audioVars, jobVars, workerVars, PromptInv
<1>7. ASSUME SetOptions PROVE PromptInv'
  BY <1>7, <1>a, <1>b DEF SetOptions, audioVars, jobVars, workerVars, PromptInv
<1>8. ASSUME NEW final \in BOOLEAN, PushAudio(final) PROVE PromptInv'
  BY <1>8, <1>a, <1>b DEF PushAudio, chatVars, jobVars, workerVars, PromptInv
<1>9. ASSUME NEW w \in Workers, Pop(w) PROVE PromptInv'
  BY <1>9, <1>a, <1>b DEF Pop, Goto, chatVars, audioVars, PromptInv
<1>10. ASSUME NEW w \in Workers, Lock(w) PROVE PromptInv'
  BY <1>10, <1>a, <1>b DEF Lock, Goto, chatVars, audioVars, jobVars, PromptInv
<1>11. ASSUME NEW w \in Workers, Abandon(w) PROVE PromptInv'
  BY <1>11, <1>a, <1>b DEF Abandon, Leave, Goto, chatVars, audioVars, PromptInv
<1>12. ASSUME NEW w \in Workers, BuildPrompt(w) PROVE PromptInv'
  BY <1>12, <1>a, <1>b DEF BuildPrompt, Goto, chatVars, audioVars, jobVars, PromptInv
<1>13. ASSUME NEW w \in Workers, GenerateEnds(w) PROVE PromptInv'
  BY <1>13, <1>a, <1>b DEF GenerateEnds, Done, Leave, Goto, chatVars, audioVars, jobVars,
      PromptInv
<1>14. ASSUME NEW w \in Workers, AppendTurn(w) PROVE PromptInv'
  <2>1. /\ pc[w] = "append" /\ pc' = [pc EXCEPT ![w] = "poll"]
        /\ prompt' = [prompt EXCEPT ![w] = <<>>] /\ edited' = edited \ {w}
    BY <1>14 DEF AppendTurn, Done, Leave, Goto
  <2>2. \A u \in Workers : pc[u] \in {"generate", "append"} => u = w
    BY <1>a, <2>1 DEF LockInv
  <2> QED BY <1>b, <2>1, <2>2 DEF PromptInv
<1>15. ASSUME NEW w \in Workers, OpenStream(w) PROVE PromptInv'
  BY <1>15, <1>a, <1>b DEF OpenStream, Goto, chatVars, jobVars, PromptInv, Streaming
<1>16. ASSUME NEW w \in Workers, TakeChunk(w) PROVE PromptInv'
  BY <1>16, <1>a, <1>b DEF TakeChunk, Done, Leave, Goto, chatVars, jobVars, PromptInv, Streaming
<1>17. ASSUME NEW w \in Workers, GenerateCall(w) PROVE PromptInv'
  BY <1>17, <1>a, <1>b DEF GenerateCall, audioVars, jobVars, PromptInv
<1>18. ASSUME NEW w \in Workers, Fail(w) PROVE PromptInv'
  BY <1>18, <1>a, <1>b DEF Fail, Leave, Goto, chatVars, audioVars, PromptInv
<1>19. CASE UNCHANGED vars
  BY <1>19, <1>a, <1>b DEF vars, chatVars, audioVars, jobVars, workerVars, PromptInv
<1>20. ASSUME NEW w \in Workers, Loops(w) PROVE PromptInv'
  BY <1>20, <1>a, <1>b, LoopEffect DEF PromptInv, Streaming
<1> QED BY <1>1, <1>2, <1>3, <1>4, <1>5, <1>6, <1>7, <1>8, <1>9, <1>10, <1>11, <1>12, <1>13,
    <1>14, <1>15, <1>16, <1>17, <1>18, <1>19, <1>20, NextCases

\* Ids stay apart.
LEMMA NextCallInv == ASSUME Inv, [Next]_vars PROVE CallInv'
<1>a. CallInv
  BY DEF Inv
<1>b. /\ history \in Seq(Message) /\ exported \in Seq(Message)
      /\ nextCall \in Nat /\ MaxCalls \in Nat
      /\ calls \in [Workers -> SUBSET (0..MaxCalls)]
  BY SessionAssumption DEF Inv, TypeOK
<1>1. ASSUME Submit PROVE CallInv'
  BY <1>1, <1>a, <1>b DEF Submit, chatVars, workerVars, CallInv, IdsApart, Replies
<1>2. ASSUME NEW r \in DOMAIN requests, Cancel(r) PROVE CallInv'
  BY <1>2, <1>a, <1>b DEF Cancel, chatVars, audioVars, workerVars, CallInv, IdsApart,
      Replies
<1>3. ASSUME NEW count \in 0..2, UndoTurns(count) PROVE CallInv'
  <2>1. /\ history' = Undone(history, count) /\ count \in Nat
        /\ UNCHANGED <<exported, nextCall, calls>>
    BY <1>3 DEF UndoTurns, Edit
  <2>2. PICK n \in 0..Len(history) : history' = SubSeq(history, 1, n)
    BY <1>b, <2>1, UndoneIsPrefix
  <2>3. Len(history') = n /\ \A i \in 1..n : history'[i] = history[i]
    BY <1>b, <2>2, PrefixElements
  <2>4. Replies(history') \subseteq Replies(history)
        /\ \A i \in Replies(history') : history'[i] = history[i]
    BY <1>b, <2>2, <2>3, PrefixElements DEF Replies
  <2> QED BY <1>a, <2>1, <2>4 DEF CallInv, IdsApart
<1>4. ASSUME ClearHistory PROVE CallInv'
  BY <1>4, <1>a, <1>b DEF ClearHistory, Edit, audioVars, jobVars, CallInv, IdsApart, Replies
<1>5. ASSUME RestoreHistory PROVE CallInv'
  <2>1. /\ history' \in {exported} \cup Documents
        /\ UNCHANGED <<exported, nextCall, calls>>
    BY <1>5 DEF RestoreHistory, Edit
  <2>2. CASE history' = exported
    BY <1>a, <2>1, <2>2 DEF CallInv, IdsApart, Replies
  <2>3. CASE history' \in Documents
    <3>1. Replies(history') = {}
      BY <2>3, SessionAssumption DEF Replies
    <3> QED BY <1>a, <2>1, <3>1 DEF CallInv, IdsApart, Replies
  <2> QED BY <2>1, <2>2, <2>3
<1>6. ASSUME ExportHistory PROVE CallInv'
  BY <1>6, <1>a, <1>b DEF ExportHistory, audioVars, jobVars, workerVars, CallInv, IdsApart,
      Replies
<1>7. ASSUME SetOptions PROVE CallInv'
  BY <1>7, <1>a, <1>b DEF SetOptions, audioVars, jobVars, workerVars, CallInv, IdsApart,
      Replies
<1>8. ASSUME NEW final \in BOOLEAN, PushAudio(final) PROVE CallInv'
  BY <1>8, <1>a, <1>b DEF PushAudio, chatVars, jobVars, workerVars, CallInv, IdsApart,
      Replies
<1>9. ASSUME NEW w \in Workers, Pop(w) PROVE CallInv'
  BY <1>9, <1>a, <1>b DEF Pop, Goto, chatVars, audioVars, CallInv, IdsApart, Replies
<1>10. ASSUME NEW w \in Workers, Lock(w) PROVE CallInv'
  BY <1>10, <1>a, <1>b DEF Lock, Goto, chatVars, audioVars, jobVars, CallInv, IdsApart,
      Replies
<1>11. ASSUME NEW w \in Workers, Abandon(w) PROVE CallInv'
  BY <1>11, <1>a, <1>b DEF Abandon, Leave, Goto, chatVars, audioVars, CallInv, IdsApart,
      Replies
<1>12. ASSUME NEW w \in Workers, BuildPrompt(w) PROVE CallInv'
  BY <1>12, <1>a, <1>b DEF BuildPrompt, Goto, chatVars, audioVars, jobVars, CallInv,
      IdsApart, Replies
<1>13. ASSUME NEW w \in Workers, GenerateEnds(w) PROVE CallInv'
  BY <1>13, <1>a, <1>b DEF GenerateEnds, Done, Leave, Goto, chatVars, audioVars, jobVars,
      CallInv, IdsApart, Replies
<1>14. ASSUME NEW w \in Workers, AppendTurn(w) PROVE CallInv'
  <2> DEFINE n == Len(history) + Len(requests[at[w]]) + 1
  <2>1. /\ history' = Append(history \o requests[at[w]], Reply(w)) /\ at[w] # 0
        /\ calls' = [calls EXCEPT ![w] = {}] /\ UNCHANGED <<exported, nextCall>>
    BY <1>14 DEF AppendTurn, Done, Leave, Inv, RequestInv
  <2>2. /\ requests[at[w]] \in Seq(Message) /\ Reply(w) \in Message
        /\ \A i \in DOMAIN requests[at[w]] : requests[at[w]][i].role # "assistant"
    BY <2>1, ReplyType DEF Inv, RequestInv
  <2>3. /\ history' \in Seq(Message) /\ Len(history') = n /\ history'[n] = Reply(w)
        /\ \A i \in 1..Len(history) : history'[i] = history[i]
        /\ \A i \in 1..Len(requests[at[w]]) : history'[Len(history) + i] = requests[at[w]][i]
    BY <1>b, <2>1, <2>2, TurnElements
  <2>4. \A i \in 1..n : \/ i \in 1..Len(history) \/ i = n
                        \/ \E j \in 1..Len(requests[at[w]]) : i = Len(history) + j
    <3>1. Len(history) \in Nat /\ Len(requests[at[w]]) \in Nat
      BY <1>b, <2>2
    <3>2. PICK a \in Nat, b \in Nat : a = Len(history) /\ b = Len(requests[at[w]])
      BY <3>1
    <3>3. ASSUME NEW i \in 1..a + b + 1
          PROVE  i \in 1..a \/ i = a + b + 1 \/ \E j \in 1..b : i = a + j
      <4>1. CASE i <= a \/ i = a + b + 1
        BY <4>1
      <4>2. CASE i > a /\ i # a + b + 1
        <5>1. i - a \in 1..b /\ i = a + (i - a)
          BY <4>2
        <5> QED BY <5>1
      <4> QED BY <4>1, <4>2
    <3> QED BY <3>2, <3>3
  <2>5. \A i \in Replies(history') : (i \in Replies(history) /\ history'[i] = history[i])
                                     \/ (i = n /\ history'[i] = Reply(w))
    <3>1. DOMAIN history' = 1..n /\ DOMAIN history = 1..Len(history)
          /\ DOMAIN requests[at[w]] = 1..Len(requests[at[w]])
      BY <1>b, <2>2, <2>3
    <3>2. ASSUME NEW j \in 1..Len(requests[at[w]])
          PROVE  history'[Len(history) + j].role # "assistant"
      BY <2>2, <2>3, <3>1
    <3> HIDE DEF n
    <3>3. ASSUME NEW i \in Replies(history')
          PROVE  (i \in Replies(history) /\ history'[i] = history[i])
                 \/ (i = n /\ history'[i] = Reply(w))
      <4>1. i \in 1..n /\ history'[i].role = "assistant"
        BY <3>1 DEF Replies
      <4>2. \A j \in 1..Len(requests[at[w]]) : i # Len(history) + j
        BY <3>2, <4>1
      <4>3. i \in 1..Len(history) \/ i = n
        BY <2>4, <4>1, <4>2
      <4> QED BY <2>3, <3>1, <4>1, <4>3 DEF Replies
    <3> QED BY <3>3
  <2>6. Reply(w).calls = calls[w]
    BY DEF Reply
  <2>7. calls'[w] = {} /\ \A u \in Workers : u # w => calls'[u] = calls[u]
    BY <1>b, <2>1
  <2> HIDE DEF n
  <2>8. IdsApart(history)'
    <3>1. \A i \in Replies(history) :
            /\ \A j \in Replies(history) : i # j => history[i].calls \cap history[j].calls = {}
            /\ \A c \in history[i].calls : c < nextCall
            /\ \A u \in Workers : history[i].calls \cap calls[u] = {}
      BY <1>a DEF CallInv, IdsApart
    <3>2. /\ \A c \in calls[w] : c < nextCall
          /\ \A u \in Workers : u # w => calls[u] \cap calls[w] = {}
      BY <1>a DEF CallInv
    <3>3. \A i, j \in Replies(history') : i # j => history'[i].calls \cap history'[j].calls = {}
      BY <2>5, <2>6, <3>1
    <3>4. \A i \in Replies(history') : \A c \in history'[i].calls : c < nextCall'
      BY <2>1, <2>5, <2>6, <3>1, <3>2
    <3>5. \A i \in Replies(history') : \A u \in Workers : history'[i].calls \cap calls'[u] = {}
      BY <2>5, <2>6, <2>7, <3>1, <3>2
    <3> QED BY <3>3, <3>4, <3>5 DEF IdsApart, Replies
  <2>9. IdsApart(exported)'
    BY <1>a, <2>1, <2>7 DEF CallInv, IdsApart, Replies
  <2> QED BY <1>a, <2>1, <2>7, <2>8, <2>9 DEF CallInv
<1>15. ASSUME NEW w \in Workers, OpenStream(w) PROVE CallInv'
  BY <1>15, <1>a, <1>b DEF OpenStream, Goto, chatVars, jobVars, CallInv, IdsApart, Replies
<1>16. ASSUME NEW w \in Workers, TakeChunk(w) PROVE CallInv'
  BY <1>16, <1>a, <1>b DEF TakeChunk, Done, Leave, Goto, chatVars, jobVars, CallInv,
      IdsApart, Replies
<1>17. ASSUME NEW w \in Workers, GenerateCall(w) PROVE CallInv'
  <2>1. /\ calls' = [calls EXCEPT ![w] = calls[w] \cup {nextCall}] /\ nextCall' = nextCall + 1
        /\ UNCHANGED <<history, exported>>
    BY <1>17 DEF GenerateCall
  <2>2. calls'[w] = calls[w] \cup {nextCall} /\ \A u \in Workers : u # w => calls'[u] = calls[u]
    BY <1>b, <2>1
  <2>a. /\ \A i \in DOMAIN history : history[i].calls \subseteq Nat
        /\ \A i \in DOMAIN exported : exported[i].calls \subseteq Nat
    <3>1. \A m \in Message : m.calls \subseteq Nat
      BY <1>b DEF Message
    <3> QED BY <1>b, <3>1
  <2>3. IdsApart(history)'
    BY <1>a, <1>b, <2>1, <2>2, <2>a DEF CallInv, IdsApart, Replies
  <2>4. IdsApart(exported)'
    BY <1>a, <1>b, <2>1, <2>2, <2>a DEF CallInv, IdsApart, Replies
  <2>5. \A u \in Workers : \A c \in calls'[u] : c < nextCall'
    BY <1>a, <1>b, <2>1, <2>2 DEF CallInv
  <2>6. \A u, v \in Workers : u # v => calls'[u] \cap calls'[v] = {}
    BY <1>a, <1>b, <2>1, <2>2 DEF CallInv
  <2> QED BY <2>3, <2>4, <2>5, <2>6 DEF CallInv
<1>18. ASSUME NEW w \in Workers, Fail(w) PROVE CallInv'
  BY <1>18, <1>a, <1>b DEF Fail, Leave, Goto, chatVars, audioVars, CallInv, IdsApart,
      Replies
<1>19. CASE UNCHANGED vars
  BY <1>19, <1>a, <1>b DEF vars, chatVars, audioVars, jobVars, workerVars, CallInv,
      IdsApart, Replies
<1>20. ASSUME NEW w \in Workers, Loops(w) PROVE CallInv'
  BY <1>20, <1>a, LoopEffect DEF CallInv, IdsApart, Replies
<1> QED BY <1>1, <1>2, <1>3, <1>4, <1>5, <1>6, <1>7, <1>8, <1>9, <1>10, <1>11, <1>12, <1>13,
    <1>14, <1>15, <1>16, <1>17, <1>18, <1>19, <1>20, NextCases

\* A request is in one place.
LEMMA NextRequestInv == ASSUME Inv, [Next]_vars PROVE RequestInv'
<1>a. RequestInv
  BY DEF Inv
<1>b. /\ pc \in [Workers -> Labels] /\ at \in [Workers -> DOMAIN requests \cup {0}]
      /\ outcome \in [DOMAIN requests -> {"none", "ok", "failed", "cancelled"}]
      /\ queue \in Seq(DOMAIN requests) /\ kept \subseteq DOMAIN requests
      /\ 0 \notin DOMAIN requests
  BY DEF Inv, TypeOK
<1>1. ASSUME Submit PROVE RequestInv'
  <2> DEFINE n == Len(requests) + 1
  <2>1. NewRequest(n)
    BY <1>1, SubmitEffect
  <2>2. \A i \in DOMAIN queue' : (i \in DOMAIN queue /\ queue'[i] = queue[i])
                                 \/ (i = Len(queue) + 1 /\ queue'[i] = n)
    BY <1>b, <2>1 DEF NewRequest
  <2>3. n \notin DOMAIN requests /\ n # 0 /\ \A i \in DOMAIN queue : queue[i] \in DOMAIN requests
    BY <1>b DEF Inv, TypeOK
  <2>4. \A i, j \in DOMAIN queue' : queue'[i] = queue'[j] => i = j
    BY <1>a, <2>2, <2>3 DEF RequestInv
  <2>5. \A u \in Workers :
          /\ pc'[u] = "poll" <=> at'[u] = 0
          /\ at'[u] # 0 => outcome'[at'[u]] = "none" /\ \A i \in DOMAIN queue' : queue'[i] # at'[u]
          /\ \A v \in Workers : at'[v] = at'[u] /\ at'[u] # 0 => v = u
    BY <1>a, <1>b, <2>1, <2>2, <2>3 DEF RequestInv, NewRequest
  <2>6. \A r \in DOMAIN requests' : \A i \in DOMAIN requests'[r] :
          requests'[r][i].of = r /\ requests'[r][i].role # "assistant"
    BY <1>a, <2>1 DEF RequestInv, NewRequest
  <2>7. \A r \in kept' : outcome'[r] # "none"
    BY <1>a, <1>b, <2>1 DEF RequestInv, NewRequest
  <2> QED BY <2>4, <2>5, <2>6, <2>7 DEF RequestInv
<1>2. ASSUME NEW r \in DOMAIN requests, Cancel(r) PROVE RequestInv'
  BY <1>2, <1>a, <1>b DEF Cancel, chatVars, audioVars, workerVars, RequestInv
<1>3. ASSUME NEW count \in 0..2, UndoTurns(count) PROVE RequestInv'
  BY <1>3, <1>a, <1>b DEF UndoTurns, Edit, audioVars, jobVars, RequestInv
<1>4. ASSUME ClearHistory PROVE RequestInv'
  BY <1>4, <1>a, <1>b DEF ClearHistory, Edit, audioVars, jobVars, RequestInv
<1>5. ASSUME RestoreHistory PROVE RequestInv'
  BY <1>5, <1>a, <1>b DEF RestoreHistory, Edit, audioVars, jobVars, RequestInv
<1>6. ASSUME ExportHistory PROVE RequestInv'
  BY <1>6, <1>a, <1>b DEF ExportHistory, audioVars, jobVars, workerVars, RequestInv
<1>7. ASSUME SetOptions PROVE RequestInv'
  BY <1>7, <1>a, <1>b DEF SetOptions, audioVars, jobVars, workerVars, RequestInv
<1>8. ASSUME NEW final \in BOOLEAN, PushAudio(final) PROVE RequestInv'
  BY <1>8, <1>a, <1>b DEF PushAudio, chatVars, jobVars, workerVars, RequestInv
<1>9. ASSUME NEW w \in Workers, Pop(w) PROVE RequestInv'
  BY <1>9, <1>a, <1>b DEF Pop, Goto, chatVars, audioVars, RequestInv
<1>10. ASSUME NEW w \in Workers, Lock(w) PROVE RequestInv'
  BY <1>10, <1>a, <1>b DEF Lock, Goto, chatVars, audioVars, jobVars, RequestInv
<1>11. ASSUME NEW w \in Workers, Abandon(w) PROVE RequestInv'
  BY <1>11, <1>a, <1>b DEF Abandon, Leave, Goto, chatVars, audioVars, RequestInv
<1>12. ASSUME NEW w \in Workers, BuildPrompt(w) PROVE RequestInv'
  BY <1>12, <1>a, <1>b DEF BuildPrompt, Goto, chatVars, audioVars, jobVars, RequestInv
<1>13. ASSUME NEW w \in Workers, GenerateEnds(w) PROVE RequestInv'
  BY <1>13, <1>a, <1>b DEF GenerateEnds, Done, Leave, Goto, chatVars, audioVars, jobVars,
      RequestInv
<1>14. ASSUME NEW w \in Workers, AppendTurn(w) PROVE RequestInv'
  BY <1>14, <1>a, <1>b DEF AppendTurn, Done, Leave, Goto, audioVars, RequestInv
<1>15. ASSUME NEW w \in Workers, OpenStream(w) PROVE RequestInv'
  BY <1>15, <1>a, <1>b DEF OpenStream, Goto, chatVars, jobVars, RequestInv
<1>16. ASSUME NEW w \in Workers, TakeChunk(w) PROVE RequestInv'
  <2>a. pc[w] = "wait" /\ kept' = kept
    BY <1>16 DEF TakeChunk, chatVars
  <2>1. CASE Goto(w, "listen") /\ UNCHANGED <<at, jobVars>>
    BY <2>a, <2>1, <1>a, <1>b DEF Goto, jobVars, RequestInv
  <2>2. CASE Leave(w, "ok") \/ Leave(w, "cancelled") \/ Leave(w, "failed")
    BY <2>a, <2>2, <1>a, <1>b DEF Leave, Goto, RequestInv
  <2> QED BY <1>16, <2>1, <2>2 DEF TakeChunk, Done
<1>17. ASSUME NEW w \in Workers, GenerateCall(w) PROVE RequestInv'
  BY <1>17, <1>a, <1>b DEF GenerateCall, audioVars, jobVars, RequestInv
<1>18. ASSUME NEW w \in Workers, Fail(w) PROVE RequestInv'
  BY <1>18, <1>a, <1>b DEF Fail, Leave, Goto, chatVars, audioVars, RequestInv
<1>19. CASE UNCHANGED vars
  BY <1>19, <1>a, <1>b DEF vars, chatVars, audioVars, jobVars, workerVars, RequestInv
<1>20. ASSUME NEW w \in Workers, Loops(w) PROVE RequestInv'
  BY <1>20, <1>a, <1>b, LoopEffect DEF RequestInv, Streaming
<1> QED BY <1>1, <1>2, <1>3, <1>4, <1>5, <1>6, <1>7, <1>8, <1>9, <1>10, <1>11, <1>12, <1>13,
    <1>14, <1>15, <1>16, <1>17, <1>18, <1>19, <1>20, NextCases

\* The types of what a stream reads and writes.
LEMMA StreamTypes ==
  ASSUME Inv
  PROVE  /\ audio \in Seq(Chunk) /\ pushed \in Nat /\ at \in [Workers -> DOMAIN requests \cup {0}]
         /\ heard \in [DOMAIN requests -> Seq(Chunk)] /\ pc \in [Workers -> Labels]
         /\ since \in [DOMAIN requests -> 1..MaxChunks + 1]
         /\ outcome \in [DOMAIN requests -> {"none", "ok", "failed", "cancelled"}]
         /\ MaxChunks \in Nat
<1>1. /\ audio \in Seq(Chunk) /\ pushed \in 0..MaxChunks
      /\ at \in [Workers -> DOMAIN requests \cup {0}]
      /\ heard \in [DOMAIN requests -> Seq(Chunk)] /\ pc \in [Workers -> Labels]
      /\ since \in [DOMAIN requests -> 1..MaxChunks + 1]
      /\ outcome \in [DOMAIN requests -> {"none", "ok", "failed", "cancelled"}]
  BY DEF Inv, TypeOK
<1>2. MaxChunks \in Nat
  BY SessionAssumption
<1>3. pushed \in Nat
  BY <1>1, <1>2
<1> QED BY <1>1, <1>2, <1>3

\* A step that leaves the audio alone, and begins or ends no stream.
LEMMA StreamKept ==
  ASSUME StreamInv, UNCHANGED <<audio, pushed, since, heard, requests>>,
         \A u \in Workers : /\ pc'[u] \in Streaming <=> pc[u] \in Streaming
                            /\ pc[u] \in Streaming => at'[u] = at[u],
         \A r \in DOMAIN requests : outcome[r] # "none" => outcome'[r] # "none"
  PROVE  StreamInv'
<1>1. \A i \in DOMAIN audio' : audio'[i].number + Len(audio') = pushed' + i
  BY DEF StreamInv
<1>2. \A w \in Workers : pc'[w] \in Streaming =>
        /\ since'[at'[w]] + Len(heard'[at'[w]]) + Len(audio') = pushed' + 1
        /\ \A i \in DOMAIN heard'[at'[w]] : ~heard'[at'[w]][i].final
  BY DEF StreamInv
<1>3. \A r \in DOMAIN requests' : heard'[r] = <<>> \/ outcome'[r] # "none"
                                  \/ \E w \in Workers : at'[w] = r /\ pc'[w] \in Streaming
  BY DEF StreamInv
<1> QED BY <1>1, <1>2, <1>3 DEF StreamInv

\* The queue and the stream that listens.
LEMMA NextStreamInv == ASSUME Inv, [Next]_vars PROVE StreamInv'
<1>a. StreamInv /\ RequestInv /\ LockInv
  BY DEF Inv
<1>b. /\ audio \in Seq(Chunk) /\ pushed \in Nat /\ at \in [Workers -> DOMAIN requests \cup {0}]
      /\ heard \in [DOMAIN requests -> Seq(Chunk)] /\ pc \in [Workers -> Labels]
      /\ since \in [DOMAIN requests -> 1..MaxChunks + 1]
      /\ outcome \in [DOMAIN requests -> {"none", "ok", "failed", "cancelled"}]
      /\ MaxChunks \in Nat
  BY StreamTypes
<1>c. \A c \in Chunk : c.number \in Nat
  BY SessionAssumption DEF Chunk
<1>1. ASSUME Submit PROVE StreamInv'
  <2>1. NewRequest(Len(requests) + 1)
    BY <1>1, SubmitEffect
  <2>2. \A u \in Workers : pc[u] \in Streaming => at[u] \in DOMAIN requests
    BY <1>a, <1>b DEF RequestInv, Streaming
  <2> QED BY <1>a, <1>b, <2>1, <2>2 DEF StreamInv, NewRequest
<1>2. ASSUME NEW r \in DOMAIN requests, Cancel(r) PROVE StreamInv'
  BY <1>2, <1>a, <1>b, <1>c DEF Cancel, chatVars, audioVars, workerVars, StreamInv, Streaming
<1>3. ASSUME NEW count \in 0..2, UndoTurns(count) PROVE StreamInv'
  BY <1>3, <1>a, <1>b, <1>c DEF UndoTurns, Edit, audioVars, jobVars, StreamInv, Streaming
<1>4. ASSUME ClearHistory PROVE StreamInv'
  BY <1>4, <1>a, <1>b, <1>c DEF ClearHistory, Edit, audioVars, jobVars, StreamInv, Streaming
<1>5. ASSUME RestoreHistory PROVE StreamInv'
  BY <1>5, <1>a, <1>b, <1>c DEF RestoreHistory, Edit, audioVars, jobVars, StreamInv, Streaming
<1>6. ASSUME ExportHistory PROVE StreamInv'
  BY <1>6, <1>a, <1>b, <1>c DEF ExportHistory, audioVars, jobVars, workerVars, StreamInv, Streaming
<1>7. ASSUME SetOptions PROVE StreamInv'
  BY <1>7, <1>a, <1>b, <1>c DEF SetOptions, audioVars, jobVars, workerVars, StreamInv, Streaming
<1>8. ASSUME NEW final \in BOOLEAN, PushAudio(final) PROVE StreamInv'
  <2> DEFINE c == [number |-> pushed + 1, final |-> final]
  <2>1. /\ audio' = Append(audio, c) /\ pushed' = pushed + 1 /\ c.number = pushed + 1 /\ c \in Chunk
        /\ UNCHANGED <<pc, at, heard, since, outcome, requests>>
    BY <1>8, <1>b DEF PushAudio, chatVars, jobVars, workerVars, Chunk
  <2> HIDE DEF c
  <2>2. /\ Len(audio') = Len(audio) + 1 /\ Len(audio) \in Nat
        /\ \A i \in 1..Len(audio) : audio'[i] = audio[i]
        /\ audio'[Len(audio) + 1] = c
    BY <1>b, <2>1, Queued
  <2>3. \A i \in DOMAIN audio' : audio'[i].number + Len(audio') = pushed' + i
    <3>1. audio' \in Seq(Chunk)
      BY <1>b, <2>1, Queued
    <3>2. ASSUME NEW i \in 1..Len(audio) PROVE audio'[i].number + Len(audio') = pushed' + i
      <4>1. audio[i].number \in Nat /\ audio[i].number + Len(audio) = pushed + i
        BY <1>a, <1>b, <1>c DEF StreamInv, Streaming
      <4>2. audio'[i] = audio[i] /\ Len(audio') = Len(audio) + 1 /\ pushed' = pushed + 1
        BY <2>1, <2>2
      <4>3. PICK k \in Nat : k = audio[i].number
        BY <4>1
      <4>a. pushed \in Nat /\ Len(audio) \in Nat /\ i \in Nat
        BY <1>b, <2>2
      <4>4. k + Len(audio) = pushed + i
        BY <4>1, <4>3
      <4>5. k + (Len(audio) + 1) = (pushed + 1) + i
        BY <4>a, <4>4
      <4> QED BY <4>2, <4>3, <4>5
    <3> QED BY <1>b, <2>1, <2>2, <3>1, <3>2
  <2>4. \A u \in Workers : pc[u] \in Streaming => Len(heard[at[u]]) \in Nat /\ since[at[u]] \in Nat
    BY <1>a, <1>b DEF RequestInv, Streaming
  <2>5. \A u \in Workers : pc[u] \in Streaming =>
          /\ since[at[u]] + Len(heard[at[u]]) + Len(audio') = pushed' + 1
          /\ \A i \in DOMAIN heard[at[u]] : ~heard[at[u]][i].final
    <3>1. ASSUME NEW u \in Workers, pc[u] \in Streaming
          PROVE  since[at[u]] + Len(heard[at[u]]) + Len(audio') = pushed' + 1
      <4>1. PICK a \in Nat, b \in Nat : a = since[at[u]] /\ b = Len(heard[at[u]])
        BY <2>4, <3>1
      <4>a. pushed \in Nat /\ Len(audio) \in Nat
        BY <1>b, <2>2
      <4>2. a + b + Len(audio) = pushed + 1
        BY <1>a, <3>1, <4>1 DEF StreamInv, Streaming
      <4>3. a + b + (Len(audio) + 1) = (pushed + 1) + 1
        BY <4>a, <4>2
      <4> QED BY <2>1, <2>2, <4>1, <4>3
    <3> QED BY <1>a, <3>1 DEF StreamInv, Streaming
  <2>6. UNCHANGED <<pc, at, heard, since, outcome, requests>>
    BY <2>1
  <2> QED BY <1>a, <2>3, <2>5, <2>6 DEF StreamInv, Streaming
<1>9. ASSUME NEW w \in Workers, Pop(w) PROVE StreamInv'
  <2>1. /\ UNCHANGED <<audio, pushed, since, heard, requests, outcome>> /\ pc[w] = "poll"
        /\ \A u \in Workers : u # w => pc'[u] = pc[u] /\ at'[u] = at[u]
        /\ pc'[w] \notin Streaming
    BY <1>9, <1>b DEF Pop, Goto, audioVars, Streaming
  <2>2. \A u \in Workers : /\ pc'[u] \in Streaming <=> pc[u] \in Streaming
                           /\ pc[u] \in Streaming => at'[u] = at[u]
    BY <2>1 DEF Streaming
  <2>3. /\ UNCHANGED <<audio, pushed, since, heard, requests>>
        /\ \A r \in DOMAIN requests : outcome[r] # "none" => outcome'[r] # "none"
    BY <2>1
  <2> QED BY <1>a, <2>2, <2>3, StreamKept
<1>10. ASSUME NEW w \in Workers, Lock(w) PROVE StreamInv'
  BY <1>10, <1>a, <1>b, <1>c DEF Lock, Goto, chatVars, audioVars, jobVars, StreamInv, Streaming
<1>11. ASSUME NEW w \in Workers, Abandon(w) PROVE StreamInv'
  BY <1>11, <1>a, <1>b, <1>c DEF Abandon, Leave, Goto, chatVars, audioVars, StreamInv, Streaming
<1>12. ASSUME NEW w \in Workers, BuildPrompt(w) PROVE StreamInv'
  BY <1>12, <1>a, <1>b, <1>c DEF BuildPrompt, Goto, chatVars, audioVars, jobVars, StreamInv,
      Streaming
<1>13. ASSUME NEW w \in Workers, GenerateEnds(w) PROVE StreamInv'
  <2>1. /\ UNCHANGED <<audio, pushed, since, heard, requests>> /\ pc[w] = "generate"
        /\ \A u \in Workers : u # w => pc'[u] = pc[u] /\ at'[u] = at[u]
        /\ pc'[w] \notin Streaming
        /\ \A r \in DOMAIN requests : outcome[r] # "none" => outcome'[r] # "none"
    BY <1>13, <1>b DEF GenerateEnds, Done, Leave, Goto, audioVars, jobVars, Streaming
  <2>2. \A u \in Workers : /\ pc'[u] \in Streaming <=> pc[u] \in Streaming
                           /\ pc[u] \in Streaming => at'[u] = at[u]
    BY <2>1 DEF Streaming
  <2>3. UNCHANGED <<audio, pushed, since, heard, requests>>
    BY <2>1
  <2> QED BY <1>a, <2>1, <2>2, <2>3, StreamKept
<1>14. ASSUME NEW w \in Workers, AppendTurn(w) PROVE StreamInv'
  BY <1>14, <1>a, <1>b, <1>c DEF AppendTurn, Done, Leave, Goto, audioVars, StreamInv, Streaming
<1>15. ASSUME NEW w \in Workers, OpenStream(w) PROVE StreamInv'
  <2>1. /\ audio' = <<>> /\ since' = [since EXCEPT ![at[w]] = pushed + 1]
        /\ pc' = [pc EXCEPT ![w] = "listen"] /\ pc[w] = "open"
        /\ UNCHANGED <<pushed, heard, requests, outcome, at>>
    BY <1>15 DEF OpenStream, Goto, jobVars
  <2>2. /\ at[w] \in DOMAIN requests /\ outcome[at[w]] = "none"
        /\ \A u \in Workers : (at[u] = at[w] => u = w) /\ (pc[u] \in Streaming => u = w)
    <3>1. pc[w] \notin {"poll", "lock"}
      BY <2>1
    <3>2. \A u \in Workers : pc[u] \in Streaming => u = w
      BY <1>a, <3>1 DEF LockInv, Streaming
    <3>3. at[w] # 0
      BY <1>a, <3>1 DEF RequestInv
    <3> QED BY <1>a, <1>b, <3>2, <3>3 DEF RequestInv
  <2>3. heard[at[w]] = <<>>
    BY <1>a, <2>1, <2>2 DEF StreamInv, Streaming
  <2>4. since'[at[w]] = pushed + 1
    BY <1>b, <2>1, <2>2
  <2> QED BY <1>a, <1>b, <2>1, <2>2, <2>3, <2>4 DEF StreamInv, Streaming
<1>16. ASSUME NEW w \in Workers, TakeChunk(w) PROVE StreamInv'
  <2> DEFINE r == at[w]
  <2>1. /\ pc[w] = "wait" /\ audio # <<>> /\ audio' = Tail(audio)
        /\ heard' = [heard EXCEPT ![r] = Append(heard[r], Head(audio))]
        /\ UNCHANGED <<pushed, since, requests>>
        /\ \/ /\ Head(audio).final
              /\ Leave(w, "cancelled") \/ Leave(w, "ok") \/ Leave(w, "failed")
           \/ ~Head(audio).final /\ Goto(w, "listen") /\ UNCHANGED <<at, outcome>>
    BY <1>16 DEF TakeChunk, Done, Leave, jobVars
  <2>2. r \in DOMAIN requests /\ \A u \in Workers : pc[u] \in Streaming => u = w
    <3>1. pc[w] \notin {"poll", "lock"}
      BY <2>1
    <3>2. \A u \in Workers : pc[u] \in Streaming => u = w
      BY <1>a, <3>1 DEF LockInv, Streaming
    <3>3. at[w] # 0
      BY <1>a, <3>1 DEF RequestInv
    <3> QED BY <1>b, <3>2, <3>3
  <2>3. /\ Len(audio) \in Nat \ {0} /\ Len(audio') = Len(audio) - 1 /\ audio' \in Seq(Chunk)
        /\ Head(audio) \in Chunk /\ \A i \in 1..Len(audio') : audio'[i] = audio[i + 1]
    BY <1>b, <2>1, Taken
  <2>4. /\ heard[r] \in Seq(Chunk) /\ heard'[r] = Append(heard[r], Head(audio))
        /\ \A q \in DOMAIN requests : q # r => heard'[q] = heard[q]
    BY <1>b, <2>1, <2>2
  <2>5. /\ Len(heard[r]) \in Nat /\ Len(heard'[r]) = Len(heard[r]) + 1 /\ heard'[r] \in Seq(Chunk)
        /\ \A i \in 1..Len(heard[r]) : heard'[r][i] = heard[r][i]
        /\ heard'[r][Len(heard[r]) + 1] = Head(audio)
    BY <2>3, <2>4, Queued
  <2>6. \A i \in DOMAIN audio' : audio'[i].number + Len(audio') = pushed' + i
    <3>1. ASSUME NEW i \in 1..Len(audio') PROVE audio'[i].number + Len(audio') = pushed' + i
      <4>1. i + 1 \in 1..Len(audio)
        BY <2>3
      <4>2. audio[i + 1].number \in Nat /\ audio[i + 1].number + Len(audio) = pushed + (i + 1)
        <5>1. audio[i + 1] \in Chunk /\ i + 1 \in DOMAIN audio
          BY <1>b, <4>1
        <5> QED BY <1>a, <1>c, <5>1 DEF StreamInv, Streaming
      <4>3. audio'[i] = audio[i + 1] /\ Len(audio') = Len(audio) - 1 /\ pushed' = pushed
        BY <2>1, <2>3
      <4>4. PICK k \in Nat : k = audio[i + 1].number
        BY <4>2
      <4>a. pushed \in Nat /\ Len(audio) \in Nat /\ i \in Nat
        BY <1>b, <2>3
      <4>5. k + Len(audio) = pushed + (i + 1)
        BY <4>2, <4>4
      <4>6. k + (Len(audio) - 1) = pushed + i
        BY <4>a, <4>5
      <4> QED BY <4>3, <4>4, <4>6
    <3> QED BY <2>3, <3>1
  <2>7. since[r] \in Nat /\ since[r] + Len(heard[r]) + Len(audio) = pushed + 1
    BY <1>a, <1>b, <2>1, <2>2 DEF StreamInv, Streaming
  <2>8. \A i \in DOMAIN heard[r] : ~heard[r][i].final
    BY <1>a, <2>1 DEF StreamInv, Streaming
  <2>9. CASE Head(audio).final
    <3>1. pc' = [pc EXCEPT ![w] = "poll"] /\ outcome'[r] # "none"
          /\ (\A q \in DOMAIN requests : q # r => outcome'[q] = outcome[q])
      BY <1>b, <2>1, <2>2, <2>9 DEF Leave, Goto
    <3>2. \A u \in Workers : pc'[u] \notin Streaming
      BY <1>b, <2>2, <3>1 DEF Streaming
    <3>3. \A q \in DOMAIN requests : q # r => heard[q] = <<>> \/ outcome[q] # "none"
      BY <1>a, <2>2 DEF StreamInv, Streaming
    <3> QED BY <2>1, <2>4, <2>6, <3>1, <3>2, <3>3 DEF StreamInv, Streaming
  <2>10. CASE ~Head(audio).final
    <3>1. /\ UNCHANGED <<at, outcome>> /\ pc'[w] = "listen" /\ pc[w] \in Streaming
          /\ \A u \in Workers : u # w => pc'[u] = pc[u]
      BY <1>b, <2>1, <2>10 DEF Goto, Streaming
    <3>2. since[r] + Len(heard'[r]) + Len(audio') = pushed + 1
      BY <1>b, <2>3, <2>5, <2>7
    <3>3. \A i \in DOMAIN heard'[r] : ~heard'[r][i].final
      <4>1. DOMAIN heard'[r] = 1..Len(heard[r]) + 1 /\ DOMAIN heard[r] = 1..Len(heard[r])
        BY <2>4, <2>5
      <4>2. \A i \in 1..Len(heard[r]) + 1 : i \in 1..Len(heard[r]) \/ i = Len(heard[r]) + 1
        BY <2>5
      <4> HIDE DEF r
      <4> QED BY <2>5, <2>8, <2>10, <4>1, <4>2
    <3>4. \A q \in DOMAIN requests : q # r => heard[q] = <<>> \/ outcome[q] # "none"
      BY <1>a, <2>2 DEF StreamInv, Streaming
    <3> QED BY <2>1, <2>2, <2>4, <2>6, <3>1, <3>2, <3>3, <3>4 DEF StreamInv, Streaming
  <2> QED BY <2>9, <2>10
<1>17. ASSUME NEW w \in Workers, GenerateCall(w) PROVE StreamInv'
  BY <1>17, <1>a, <1>b, <1>c DEF GenerateCall, audioVars, jobVars, StreamInv, Streaming
<1>18. ASSUME NEW w \in Workers, Fail(w) PROVE StreamInv'
  BY <1>18, <1>a, <1>b, <1>c DEF Fail, Leave, Goto, chatVars, audioVars, StreamInv, Streaming
<1>19. CASE UNCHANGED vars
  BY <1>19, <1>a, <1>b, <1>c DEF vars, chatVars, audioVars, jobVars, workerVars, StreamInv,
      Streaming
<1>20. ASSUME NEW w \in Workers, Loops(w) PROVE StreamInv'
  <2>1. \A u \in Workers : pc'[u] \in Streaming <=> pc[u] \in Streaming
    BY <1>20, <1>b, LoopEffect
  <2> QED BY <1>20, <1>a, <2>1, LoopEffect, StreamKept
<1> QED BY <1>1, <1>2, <1>3, <1>4, <1>5, <1>6, <1>7, <1>8, <1>9, <1>10, <1>11, <1>12, <1>13,
    <1>14, <1>15, <1>16, <1>17, <1>18, <1>19, <1>20, NextCases

\* A stream hears its audio.
LEMMA NextStreamHears == ASSUME Inv, [Next]_vars PROVE StreamHearsItsAudio'
<1>a. StreamHearsItsAudio /\ StreamInv /\ RequestInv /\ LockInv
  BY DEF Inv
<1>b. /\ audio \in Seq(Chunk) /\ pushed \in Nat /\ at \in [Workers -> DOMAIN requests \cup {0}]
      /\ heard \in [DOMAIN requests -> Seq(Chunk)] /\ pc \in [Workers -> Labels]
      /\ since \in [DOMAIN requests -> 1..MaxChunks + 1]
      /\ outcome \in [DOMAIN requests -> {"none", "ok", "failed", "cancelled"}]
      /\ MaxChunks \in Nat
  BY StreamTypes
<1>c. \A c \in Chunk : c.number \in Nat
  BY SessionAssumption DEF Chunk
<1>1. ASSUME Submit PROVE StreamHearsItsAudio'
  <2>1. NewRequest(Len(requests) + 1)
    BY <1>1, SubmitEffect
  <2> QED BY <1>a, <1>b, <2>1 DEF StreamHearsItsAudio, NewRequest
<1>2. ASSUME NEW r \in DOMAIN requests, Cancel(r) PROVE StreamHearsItsAudio'
  BY <1>2, <1>a, <1>b, <1>c DEF Cancel, chatVars, audioVars, workerVars, StreamHearsItsAudio
<1>3. ASSUME NEW count \in 0..2, UndoTurns(count) PROVE StreamHearsItsAudio'
  BY <1>3, <1>a, <1>b, <1>c DEF UndoTurns, Edit, audioVars, jobVars, StreamHearsItsAudio
<1>4. ASSUME ClearHistory PROVE StreamHearsItsAudio'
  BY <1>4, <1>a, <1>b, <1>c DEF ClearHistory, Edit, audioVars, jobVars, StreamHearsItsAudio
<1>5. ASSUME RestoreHistory PROVE StreamHearsItsAudio'
  BY <1>5, <1>a, <1>b, <1>c DEF RestoreHistory, Edit, audioVars, jobVars,
      StreamHearsItsAudio
<1>6. ASSUME ExportHistory PROVE StreamHearsItsAudio'
  BY <1>6, <1>a, <1>b, <1>c DEF ExportHistory, audioVars, jobVars, workerVars,
      StreamHearsItsAudio
<1>7. ASSUME SetOptions PROVE StreamHearsItsAudio'
  BY <1>7, <1>a, <1>b, <1>c DEF SetOptions, audioVars, jobVars, workerVars,
      StreamHearsItsAudio
<1>8. ASSUME NEW final \in BOOLEAN, PushAudio(final) PROVE StreamHearsItsAudio'
  BY <1>8, <1>a, <1>b, <1>c DEF PushAudio, chatVars, jobVars, workerVars,
      StreamHearsItsAudio
<1>9. ASSUME NEW w \in Workers, Pop(w) PROVE StreamHearsItsAudio'
  BY <1>9, <1>a, <1>b, <1>c DEF Pop, Goto, chatVars, audioVars, StreamHearsItsAudio
<1>10. ASSUME NEW w \in Workers, Lock(w) PROVE StreamHearsItsAudio'
  BY <1>10, <1>a, <1>b, <1>c DEF Lock, Goto, chatVars, audioVars, jobVars,
      StreamHearsItsAudio
<1>11. ASSUME NEW w \in Workers, Abandon(w) PROVE StreamHearsItsAudio'
  BY <1>11, <1>a, <1>b, <1>c DEF Abandon, Leave, Goto, chatVars, audioVars,
      StreamHearsItsAudio
<1>12. ASSUME NEW w \in Workers, BuildPrompt(w) PROVE StreamHearsItsAudio'
  BY <1>12, <1>a, <1>b, <1>c DEF BuildPrompt, Goto, chatVars, audioVars, jobVars,
      StreamHearsItsAudio
<1>13. ASSUME NEW w \in Workers, GenerateEnds(w) PROVE StreamHearsItsAudio'
  <2>1. UNCHANGED <<type, requests, since, heard>>
    BY <1>13 DEF GenerateEnds, Done, Leave, audioVars, jobVars
  <2>2. \A r \in DOMAIN requests : type = "audio" => outcome'[r] = outcome[r]
    BY <1>13, <1>a, <1>b DEF LockInv, GenerateEnds, Goto
  <2> QED BY <1>a, <2>1, <2>2 DEF StreamHearsItsAudio
<1>14. ASSUME NEW w \in Workers, AppendTurn(w) PROVE StreamHearsItsAudio'
  <2>1. UNCHANGED <<type, requests, since, heard>>
    BY <1>14 DEF AppendTurn, Done, Leave, audioVars
  <2>2. \A r \in DOMAIN requests : type = "audio" => outcome'[r] = outcome[r]
    BY <1>14, <1>a, <1>b DEF LockInv, AppendTurn, Done, Leave
  <2> QED BY <1>a, <2>1, <2>2 DEF StreamHearsItsAudio
<1>15. ASSUME NEW w \in Workers, OpenStream(w) PROVE StreamHearsItsAudio'
  <2>1. /\ since' = [since EXCEPT ![at[w]] = pushed + 1] /\ pc[w] = "open"
        /\ UNCHANGED <<type, heard, requests, outcome>>
    BY <1>15 DEF OpenStream, jobVars
  <2>2. /\ at[w] \in DOMAIN requests /\ outcome[at[w]] = "none"
        /\ \A u \in Workers : at[u] = at[w] => u = w
    BY <1>a, <1>b, <2>1 DEF RequestInv
  <2>3. heard[at[w]] = <<>>
    BY <1>a, <2>1, <2>2 DEF StreamInv, Streaming
  <2>4. \A r \in DOMAIN requests : r # at[w] => since'[r] = since[r]
    BY <1>b, <2>1
  <2>5. DOMAIN heard[at[w]] = {}
    BY <2>3
  <2> QED BY <1>a, <2>1, <2>2, <2>4, <2>5 DEF StreamHearsItsAudio
<1>16. ASSUME NEW w \in Workers, TakeChunk(w) PROVE StreamHearsItsAudio'
  <2> DEFINE r == at[w]
  <2>1. /\ pc[w] = "wait" /\ audio # <<>>
        /\ heard' = [heard EXCEPT ![r] = Append(heard[r], Head(audio))]
        /\ UNCHANGED <<type, since, requests>>
        /\ \/ /\ Head(audio).final
              /\ Leave(w, "cancelled") \/ Leave(w, "ok") \/ Leave(w, "failed")
           \/ ~Head(audio).final /\ outcome' = outcome
    BY <1>16 DEF TakeChunk, Done, Leave, jobVars
  <2>2. r \in DOMAIN requests /\ outcome[r] = "none"
    BY <1>a, <1>b, <2>1 DEF RequestInv
  <2>3. Len(audio) \in Nat \ {0} /\ Head(audio) = audio[1] /\ Head(audio) \in Chunk
    BY <1>b, <2>1, Taken
  <2>4. /\ heard[r] \in Seq(Chunk) /\ heard'[r] = Append(heard[r], Head(audio))
        /\ \A q \in DOMAIN requests : q # r => heard'[q] = heard[q] /\ outcome'[q] = outcome[q]
        /\ outcome'[r] = "ok" => Head(audio).final
    BY <1>b, <2>1, <2>2 DEF Leave
  <2>5. /\ Len(heard[r]) \in Nat /\ Len(heard'[r]) = Len(heard[r]) + 1 /\ heard'[r] \in Seq(Chunk)
        /\ \A i \in 1..Len(heard[r]) : heard'[r][i] = heard[r][i]
        /\ heard'[r][Len(heard[r]) + 1] = Head(audio)
    BY <2>3, <2>4, Queued
  <2>6. /\ since[r] \in Nat /\ since[r] + Len(heard[r]) + Len(audio) = pushed + 1
        /\ \A i \in DOMAIN heard[r] : ~heard[r][i].final
    BY <1>a, <1>b, <2>1, <2>2 DEF StreamInv, Streaming
  <2>7. Head(audio).number \in Nat /\ Head(audio).number + Len(audio) = pushed + 1
    BY <1>a, <1>b, <1>c, <2>3 DEF StreamInv
  <2>8. \A i \in DOMAIN heard'[r] : /\ heard'[r][i].number = since'[r] + i - 1
                                    /\ heard'[r][i].final => i = Len(heard'[r])
    <3>1. ASSUME NEW i \in 1..Len(heard[r])
          PROVE  heard'[r][i].number = since[r] + i - 1 /\ ~heard'[r][i].final
      <4>1. i \in DOMAIN heard[r]
        BY <2>4, <2>5
      <4>2. heard[r][i].number = since[r] + i - 1 /\ ~heard[r][i].final
        BY <1>a, <2>2, <2>6, <4>1 DEF StreamHearsItsAudio
      <4> QED BY <2>5, <4>2
    <3>2. Head(audio).number = since[r] + Len(heard'[r]) - 1
      <4>1. Len(heard'[r]) = Len(heard[r]) + 1 /\ Len(heard[r]) \in Nat /\ Len(audio) \in Nat
        BY <2>3, <2>5
      <4>2. since[r] + Len(heard[r]) + Len(audio) = Head(audio).number + Len(audio)
        BY <2>6, <2>7
      <4>3. PICK a \in Nat, k \in Nat, l \in Nat, m \in Nat :
              /\ a = since[r] /\ k = Head(audio).number
              /\ l = Len(heard[r]) /\ m = Len(audio)
        BY <2>6, <2>7, <4>1
      <4>4. a + l + m = k + m
        BY <4>2, <4>3
      <4>5. k = a + (l + 1) - 1
        BY <4>4
      <4> QED BY <4>1, <4>3, <4>5
    <3>3. since'[r] = since[r] /\ DOMAIN heard'[r] = 1..Len(heard[r]) + 1
      BY <2>1, <2>5
    <3>4. \A i \in 1..Len(heard[r]) + 1 : i \in 1..Len(heard[r]) \/ i = Len(heard'[r])
      BY <2>5
    <3> HIDE DEF r
    <3> QED BY <2>5, <3>1, <3>2, <3>3, <3>4
  <2>9. outcome'[r] = "ok" => heard'[r] # <<>> /\ Last(heard'[r]).final
    BY <2>4, <2>5 DEF Last
  <2> QED BY <1>a, <2>1, <2>4, <2>8, <2>9 DEF StreamHearsItsAudio
<1>17. ASSUME NEW w \in Workers, GenerateCall(w) PROVE StreamHearsItsAudio'
  BY <1>17, <1>a, <1>b, <1>c DEF GenerateCall, audioVars, jobVars, StreamHearsItsAudio
<1>18. ASSUME NEW w \in Workers, Fail(w) PROVE StreamHearsItsAudio'
  BY <1>18, <1>a, <1>b, <1>c DEF Fail, Leave, Goto, chatVars, audioVars, StreamHearsItsAudio
<1>19. CASE UNCHANGED vars
  BY <1>19, <1>a, <1>b, <1>c DEF vars, chatVars, audioVars, jobVars, workerVars,
      StreamHearsItsAudio
<1>20. ASSUME NEW w \in Workers, Loops(w) PROVE StreamHearsItsAudio'
  BY <1>20, <1>a, LoopEffect DEF StreamHearsItsAudio
<1> QED BY <1>1, <1>2, <1>3, <1>4, <1>5, <1>6, <1>7, <1>8, <1>9, <1>10, <1>11, <1>12, <1>13,
    <1>14, <1>15, <1>16, <1>17, <1>18, <1>19, <1>20, NextCases

\* The parts hold at first.
LEMMA InitInv == ASSUME Init PROVE Inv
<1>1. history \in Seq(Message)
  <2>1. SystemPrompt \in Message
    BY SessionAssumption DEF SystemPrompt, Message, Roles
  <2> HIDE DEF SystemPrompt
  <2>2. <<>> \in Seq(Message) /\ <<SystemPrompt>> \in Seq(Message)
    BY <2>1
  <2> QED BY <2>2 DEF Init
<1>2. /\ exported = <<>> /\ audio = <<>> /\ requests = <<>> /\ outcome = <<>> /\ queue = <<>>
      /\ since = <<>> /\ heard = <<>> /\ kept = {} /\ cancelled = {} /\ edited = {}
      /\ nextCall = 0 /\ edits = 0 /\ pushed = 0 /\ requestLock = NoWorker
      /\ pc = [w \in Workers |-> "poll"] /\ at = [w \in Workers |-> 0]
      /\ prompt = [w \in Workers |-> <<>>] /\ calls = [w \in Workers |-> {}]
      /\ type \in Types /\ keepHistory \in BOOLEAN
  BY DEF Init
<1>3. TypeOK
  <2>1. /\ exported \in Seq(Message) /\ audio \in Seq(Chunk) /\ requests \in Seq(Seq(Message))
        /\ DOMAIN requests = {} /\ Len(requests) = 0 /\ queue \in Seq(DOMAIN requests)
    BY <1>2
  <2>2. /\ outcome \in [DOMAIN requests -> {"none", "ok", "failed", "cancelled"}]
        /\ since \in [DOMAIN requests -> 1..MaxChunks + 1]
        /\ heard \in [DOMAIN requests -> Seq(Chunk)]
    BY <1>2, <2>1
  <2>3. prompt \in [Workers -> Seq(Message)]
    <3>1. <<>> \in Seq(Message)
      OBVIOUS
    <3> QED BY <1>2, <3>1
  <2>4. /\ nextCall \in 0..MaxCalls /\ edits \in 0..MaxEdits /\ pushed \in 0..MaxChunks
        /\ Len(requests) <= MaxRequests
    BY <1>2, <2>1, SessionAssumption
  <2>5. /\ pc \in [Workers -> Labels] /\ at \in [Workers -> DOMAIN requests \cup {0}]
        /\ calls \in [Workers -> SUBSET (0..MaxCalls)] /\ edited \subseteq Workers
        /\ cancelled \subseteq DOMAIN requests /\ kept \subseteq DOMAIN requests
        /\ requestLock \in Workers \cup {NoWorker}
    BY <1>2 DEF Labels, Streaming
  <2> QED BY <1>1, <1>2, <2>1, <2>2, <2>3, <2>4, <2>5 DEF TypeOK
<1>4. RequestInv
  BY <1>2 DEF RequestInv
<1>5. LockInv /\ PromptInv
  BY <1>2 DEF LockInv, PromptInv, Streaming
<1>6. CallInv
  <2>1. Replies(history) = {} /\ Replies(exported) = {}
    BY <1>2 DEF Init, Replies, SystemPrompt
  <2> QED BY <1>2, <2>1 DEF CallInv, IdsApart
<1>7. StreamInv /\ StreamHearsItsAudio
  BY <1>2 DEF StreamInv, Streaming, StreamHearsItsAudio
<1> QED BY <1>3, <1>4, <1>5, <1>6, <1>7 DEF Inv

\* Every step keeps the parts.
LEMMA NextInv == ASSUME Inv, [Next]_vars PROVE Inv'
BY NextTypeOK, NextRequestInv, NextLockInv, NextPromptInv, NextCallInv, NextStreamInv,
   NextStreamHears DEF Inv

-----------------------------------------------------------------------------
(* The properties.                                                         *)

\* However requests, edits, cancellations and audio interleave: a request is at one worker, the
\* one that holds request_mutex_; its prompt is the history until an edit; ids stay apart; and
\* the queue continues where the stream that listens is.
THEOREM InvariantHolds == Spec => []Inv
<1>1. Init => Inv
  BY InitInv
<1>2. Inv /\ [Next]_vars => Inv'
  BY NextInv
<1> QED BY <1>1, <1>2, PTL DEF Spec

\* No two replies of a session, in its history or being generated, have a tool call of the
\* same id, although the history may be undone, cleared and restored.
THEOREM CallsStayUnique == Spec => []CallsAreUnique
<1>1. Inv => CallsAreUnique
  BY DEF Inv, CallInv, IdsApart, Replies, CallsAreUnique
<1> QED BY <1>1, InvariantHolds, PTL

\* A stream hears the audio pushed since it began, in order and without a gap, up to its first
\* final chunk.
THEOREM StreamsHear == Spec => []StreamHearsItsAudio
<1>1. Inv => StreamHearsItsAudio
  BY DEF Inv
<1> QED BY <1>1, InvariantHolds, PTL

\* A reply is appended to the history it was generated from, unless the application edited it.
THEOREM RepliesFit == Spec => ReplyFitsHistory
<1>1. Inv => \A w \in Workers : AppendTurn(w) /\ w \notin edited => prompt[w] = history
  BY DEF Inv, PromptInv, AppendTurn
<1>2. Inv /\ [Next]_vars
        => [\A w \in Workers : AppendTurn(w) /\ w \notin edited => prompt[w] = history]_vars
  BY <1>1
<1> QED BY <1>2, InvariantHolds, PTL DEF Spec, ReplyFitsHistory

-----------------------------------------------------------------------------
(* The history is a log of whole turns.                                    *)

\* The status of a request changes only with its outcome or when its turn is kept.
LEMMA StatusKept ==
  ASSUME UNCHANGED <<outcome, kept>>
  PROVE  Status' = Status
BY DEF Status

\* A request that is over without its turn is dropped.
LEMMA StatusDropped ==
  ASSUME Inv, NEW r \in DOMAIN requests, outcome[r] = "none", kept' = kept,
         NEW result \in {"ok", "failed", "cancelled"}, outcome' = [outcome EXCEPT ![r] = result]
  PROVE  Status[r] = "open" /\ Status' = [Status EXCEPT ![r] = "dropped"] /\ r \in 1..MaxRequests
<1>1. r \in 1..MaxRequests /\ r \notin kept /\ DOMAIN outcome = DOMAIN requests
  <2>1. /\ DOMAIN requests = 1..Len(requests) /\ Len(requests) \in Nat
        /\ Len(requests) <= MaxRequests /\ MaxRequests \in Nat
    <3>1. requests \in Seq(Seq(Message)) /\ Len(requests) <= MaxRequests
      BY DEF Inv, TypeOK
    <3> QED BY <3>1, SessionAssumption
  <2>2. r \notin kept /\ DOMAIN outcome = DOMAIN requests
    BY DEF Inv, TypeOK, RequestInv
  <2> QED BY <2>1, <2>2
<1> QED BY <1>1 DEF Status

\* A request whose turn is appended is kept.
LEMMA StatusAppended ==
  ASSUME Inv, NEW r \in DOMAIN requests, outcome[r] = "none", kept' = kept \cup {r},
         NEW result, outcome' = [outcome EXCEPT ![r] = result]
  PROVE  Status[r] = "open" /\ Status' = [Status EXCEPT ![r] = "kept"] /\ r \in 1..MaxRequests
<1>1. r \in 1..MaxRequests /\ r \notin kept /\ DOMAIN outcome = DOMAIN requests
  <2>1. /\ DOMAIN requests = 1..Len(requests) /\ Len(requests) \in Nat
        /\ Len(requests) <= MaxRequests /\ MaxRequests \in Nat
    <3>1. requests \in Seq(Seq(Message)) /\ Len(requests) <= MaxRequests
      BY DEF Inv, TypeOK
    <3> QED BY <3>1, SessionAssumption
  <2>2. r \notin kept /\ DOMAIN outcome = DOMAIN requests
    BY DEF Inv, TypeOK, RequestInv
  <2> QED BY <2>1, <2>2
<1> QED BY <1>1 DEF Status

\* The messages of a turn are those the log has more: the request's and one reply.
TurnOf(r, s, t, e, h, added) ==
  /\ s \in Seq(Message) /\ t \in Seq(Message) /\ e \in Message
  /\ h = Append(s \o t, e) /\ e.of = r /\ e.role = "assistant"
  /\ \A i \in DOMAIN t : t[i].of = r /\ t[i].role # "assistant"
  /\ added = SubSeq(h, Len(s) + 1, Len(h))

LEMMA TurnIsAdded ==
  ASSUME NEW r, NEW s, NEW t, NEW e, NEW h, NEW added, TurnOf(r, s, t, e, h, added)
  PROVE  /\ IsStrictPrefix(s, h)
         /\ \A i \in DOMAIN added : /\ added[i].of = r
                                    /\ added[i].role = "assistant" <=> i = Len(added)
<1>a. /\ s \in Seq(Message) /\ t \in Seq(Message) /\ e \in Message
      /\ h = Append(s \o t, e) /\ e.of = r /\ e.role = "assistant"
      /\ \A i \in DOMAIN t : t[i].of = r /\ t[i].role # "assistant"
      /\ added = SubSeq(h, Len(s) + 1, Len(h))
  BY DEF TurnOf
<1>1. /\ h \in Seq(Message) /\ Len(h) = Len(s) + Len(t) + 1
      /\ \A i \in 1..Len(s) : h[i] = s[i]
      /\ \A i \in 1..Len(t) : h[Len(s) + i] = t[i]
      /\ h[Len(s) + Len(t) + 1] = e
  BY <1>a, TurnElements
<1>2. Len(s) \in Nat /\ Len(t) \in Nat /\ Len(h) \in Nat /\ DOMAIN t = 1..Len(t)
  BY <1>a, <1>1
<1>3. IsStrictPrefix(s, h)
  <2>1. SubSeq(s, 1, Len(s)) = s
    BY <1>a, SubSeqFull
  <2>2. /\ SubSeq(h, 1, Len(s)) \in Seq(Message) /\ Len(SubSeq(h, 1, Len(s))) = Len(s)
        /\ \A i \in 1..Len(s) : SubSeq(h, 1, Len(s))[i] = h[i]
    BY <1>1, <1>2, PrefixElements
  <2>3. SubSeq(h, 1, Len(s)) = s
    BY <1>a, <1>1, <2>2, SeqEqual
  <2>4. Len(s) <= Len(h) /\ Len(s) # Len(h)
    BY <1>1, <1>2
  <2>5. s # h
    BY <2>4
  <2>6. SubSeq(s, 1, Len(s)) = SubSeq(h, 1, Len(s))
    BY <2>1, <2>3
  <2> QED BY <2>4, <2>5, <2>6, Zenon DEF IsStrictPrefix, IsPrefix
<1>4. added \in Seq(Message) /\ Len(added) = Len(t) + 1
      /\ \A i \in 1..Len(t) + 1 : added[i] = h[Len(s) + i]
  <2>1. PICK a \in Nat, b \in Nat : a = Len(s) /\ b = Len(t)
    <3>1. Len(s) \in Nat /\ Len(t) \in Nat
      BY <1>2
    <3> QED BY <3>1
  <2>2. Len(h) = a + b + 1 /\ added = SubSeq(h, a + 1, a + b + 1)
    BY <1>a, <1>1, <2>1
  <2>4. PICK m \in Nat \ {0}, n \in Nat : m = a + 1 /\ n = a + b + 1
    BY <2>1
  <2>5. added = SubSeq(h, m, n) /\ n = Len(h) /\ m <= n
    BY <2>1, <2>2, <2>4
  <2>6. /\ SubSeq(h, m, n) \in Seq(Message) /\ Len(SubSeq(h, m, n)) = n - m + 1
        /\ \A i \in 1..n - m + 1 : SubSeq(h, m, n)[i] = h[m + i - 1]
    <3>1. h \in Seq(Message)
      BY <1>1
    <3>2. n = Len(h) /\ m <= n
      BY <2>5
    <3> QED BY ONLY <3>1, <3>2, m \in Nat \ {0}, n \in Nat, SuffixElements
  <2>7. n - m + 1 = b + 1 /\ m <= n /\ \A i \in 1..b + 1 : m + i - 1 = a + i
    BY <2>1, <2>4
  <2>8. added \in Seq(Message) /\ Len(added) = b + 1
    BY <2>5, <2>6, <2>7
  <2>9. \A i \in 1..b + 1 : added[i] = h[a + i]
    BY <2>5, <2>6, <2>7
  <2> QED BY <2>1, <2>8, <2>9
<1>5. ASSUME NEW i \in DOMAIN added
      PROVE  added[i].of = r /\ (added[i].role = "assistant" <=> i = Len(added))
  <2>1. i \in 1..Len(t) + 1
    BY <1>4, <1>5
  <2>2. CASE i \in 1..Len(t)
    BY <1>a, <1>1, <1>2, <1>4, <2>1, <2>2
  <2>3. CASE i = Len(t) + 1
    <3>1. added[i] = e
      BY <1>1, <1>2, <1>4, <2>1, <2>3
    <3> QED BY <1>a, <1>4, <2>3, <3>1
  <2>4. i \in 1..Len(t) \/ i = Len(t) + 1
    BY <1>2, <2>1
  <2> QED BY <2>2, <2>3, <2>4
<1> QED BY <1>3, <1>5

\* Dropping the turn of a request that is over is one step of the log.
LEMMA DropStep ==
  ASSUME Inv, NEW r \in DOMAIN requests, outcome[r] = "none",
         NEW result \in {"ok", "failed", "cancelled"}, outcome' = [outcome EXCEPT ![r] = result],
         UNCHANGED <<history, kept, exported>>
  PROVE  Log!Next
<1>1. Status[r] = "open" /\ Status' = [Status EXCEPT ![r] = "dropped"] /\ r \in 1..MaxRequests
  BY StatusDropped
<1>2. Log!Drop(r)
  BY <1>1 DEF Log!Drop
<1> QED BY <1>1, <1>2 DEF Log!Next

\* Leaving a body without the turn is one step of the log.
LEMMA LeaveStep ==
  ASSUME Inv, NEW w \in Workers, pc[w] # "poll", NEW result \in {"ok", "failed", "cancelled"},
         Leave(w, result), UNCHANGED <<history, kept, exported>>
  PROVE  Log!Next
<1>1. at[w] \in DOMAIN requests /\ outcome[at[w]] = "none"
  BY DEF Inv, TypeOK, RequestInv
<1>2. outcome' = [outcome EXCEPT ![at[w]] = result]
  BY DEF Leave
<1> QED BY <1>1, <1>2, DropStep

\* Every step is one of the log, or leaves it as it was.
LEMMA LogStep == ASSUME Inv, [Next]_vars PROVE [Log!Next]_(Log!vars)
<1>1. ASSUME UNCHANGED <<history, exported, kept, outcome>> PROVE UNCHANGED Log!vars
  BY <1>1, StatusKept DEF Log!vars
<1>2. ASSUME Submit PROVE UNCHANGED Log!vars
  <2>1. UNCHANGED <<history, exported, kept>>
    BY <1>2 DEF Submit, chatVars
  <2>2. NewRequest(Len(requests) + 1)
    BY <1>2, SubmitEffect
  <2>3. /\ DOMAIN outcome = DOMAIN requests /\ DOMAIN outcome' = DOMAIN requests'
        /\ kept \subseteq DOMAIN requests
    BY NextTypeOK DEF Inv, TypeOK
  <2>4. Status' = Status
    BY <2>2, <2>3 DEF NewRequest, Status
  <2> QED BY <2>1, <2>4 DEF Log!vars
<1>3. ASSUME NEW r \in DOMAIN requests, Cancel(r) PROVE [Log!Next]_(Log!vars)
  <2>1. UNCHANGED <<history, exported, kept>> /\ outcome[r] = "none"
        /\ (outcome' = outcome \/ outcome' = [outcome EXCEPT ![r] = "cancelled"])
    BY <1>3 DEF Cancel, chatVars
  <2>2. CASE outcome' = outcome
    BY <1>1, <2>1, <2>2
  <2>3. CASE outcome' = [outcome EXCEPT ![r] = "cancelled"]
    BY <2>1, <2>3, DropStep
  <2> QED BY <2>1, <2>2, <2>3
<1>4. ASSUME NEW n \in 0..Len(history), history' = SubSeq(history, 1, n),
             UNCHANGED <<exported, kept, outcome>>
      PROVE  Log!Next
  <2>1. history \in Seq(Message)
    BY DEF Inv, TypeOK
  <2>2. Log!IsPrefix(history', history)
    <3>1. /\ history' \in Seq(Message) /\ Len(history') = n /\ Len(history) \in Nat
      BY <1>4, <2>1, PrefixElements
    <3>2. SubSeq(history', 1, Len(history')) = history'
      BY <3>1, SubSeqFull
    <3>3. Len(history') <= Len(history)
      BY <3>1
    <3>4. SubSeq(history', 1, Len(history')) = SubSeq(history, 1, Len(history'))
      BY <1>4, <3>1, <3>2
    <3> QED BY <3>3, <3>4, Zenon DEF Log!IsPrefix
  <2>3. Status' = Status
    BY <1>4, StatusKept
  <2>4. Log!Undo
    BY <1>4, <2>2, <2>3, Zenon DEF Log!Undo
  <2> QED BY <2>4 DEF Log!Next
<1>5. ASSUME NEW count \in 0..2, UndoTurns(count) PROVE Log!Next
  <2>1. history' = Undone(history, count) /\ UNCHANGED <<exported, kept, outcome>> /\ count \in Nat
    BY <1>5 DEF UndoTurns, Edit, jobVars
  <2>2. history \in Seq(Message)
    BY DEF Inv, TypeOK
  <2>3. \E n \in 0..Len(history) : Undone(history, count) = SubSeq(history, 1, n)
    BY <2>1, <2>2, UndoneIsPrefix
  <2> QED BY <1>4, <2>1, <2>3
<1>6. ASSUME ClearHistory PROVE Log!Next
  <2>1. history' = <<>> /\ UNCHANGED <<exported, kept, outcome>>
    BY <1>6 DEF ClearHistory, Edit, jobVars
  <2>2. 0 \in 0..Len(history) /\ SubSeq(history, 1, 0) = <<>>
    <3>1. history \in Seq(Message)
      BY DEF Inv, TypeOK
    <3> QED BY <3>1, SubSeqEmpty
  <2> QED BY <1>4, <2>1, <2>2
<1>7. ASSUME RestoreHistory PROVE Log!Next
  <2>1. /\ Users(history) = {} /\ history' \in {exported} \cup Documents
        /\ UNCHANGED <<exported, kept, outcome>>
    BY <1>7 DEF RestoreHistory, Edit, jobVars
  <2>2. Log!TurnFree(history)
    BY <2>1 DEF Log!TurnFree, Users
  <2>3. Status' = Status
    BY <2>1, StatusKept
  <2> QED BY <2>1, <2>2, <2>3 DEF Log!Next, Log!Restore
<1>8. ASSUME ExportHistory PROVE Log!Next
  <2>1. exported' = history /\ UNCHANGED <<history, kept, outcome>>
    BY <1>8 DEF ExportHistory, jobVars
  <2>2. Status' = Status
    BY <2>1, StatusKept
  <2> QED BY <2>1, <2>2 DEF Log!Next, Log!Export
<1>9. ASSUME SetOptions \/ (\E final \in BOOLEAN : PushAudio(final)) PROVE UNCHANGED Log!vars
  <2>1. UNCHANGED <<history, exported, kept, outcome>>
    BY <1>9 DEF SetOptions, PushAudio, chatVars, jobVars
  <2> QED BY <1>1, <2>1
<1>10. ASSUME NEW w \in Workers, \/ Pop(w) \/ Lock(w) \/ BuildPrompt(w) \/ OpenStream(w)
                                 \/ Loops(w) \/ GenerateCall(w)
       PROVE  UNCHANGED Log!vars
  <2>1. UNCHANGED <<history, exported, kept, outcome>>
    BY <1>10, LoopEffect DEF Pop, Lock, BuildPrompt, OpenStream, GenerateCall, chatVars, jobVars
  <2> QED BY <1>1, <2>1
<1>11. ASSUME NEW w \in Workers, Abandon(w) \/ Fail(w) PROVE Log!Next
  <2>1. UNCHANGED <<history, exported, kept>> /\ pc[w] # "poll"
        /\ (Leave(w, "failed") \/ Leave(w, "cancelled"))
    BY <1>11 DEF Abandon, Fail, chatVars
  <2> QED BY <2>1, LeaveStep
<1>12. ASSUME NEW w \in Workers, GenerateEnds(w) \/ TakeChunk(w) PROVE [Log!Next]_(Log!vars)
  <2>1. UNCHANGED <<history, exported, kept>> /\ pc[w] # "poll"
        /\ (outcome' = outcome \/ Leave(w, "ok") \/ Leave(w, "cancelled") \/ Leave(w, "failed"))
    BY <1>12 DEF GenerateEnds, TakeChunk, Done, chatVars, jobVars
  <2>2. CASE outcome' = outcome
    BY <1>1, <2>1, <2>2
  <2>3. CASE Leave(w, "ok") \/ Leave(w, "cancelled") \/ Leave(w, "failed")
    BY <2>1, <2>3, LeaveStep
  <2> QED BY <2>1, <2>2, <2>3
<1>13. ASSUME NEW w \in Workers, AppendTurn(w) PROVE Log!Next
  <2>1. /\ pc[w] = "append" /\ history' = Append(history \o requests[at[w]], Reply(w))
        /\ kept' = kept \cup {at[w]} /\ exported' = exported
    BY <1>13 DEF AppendTurn
  <2>2. PICK result \in {"ok", "cancelled"} : outcome' = [outcome EXCEPT ![at[w]] = result]
    BY <1>13 DEF AppendTurn, Done, Leave
  <2>3. at[w] # 0 /\ outcome[at[w]] = "none" /\ history \in Seq(Message)
    BY <2>1 DEF Inv, TypeOK, RequestInv
  <2>4. at[w] \in DOMAIN requests /\ requests[at[w]] \in Seq(Message) /\ Reply(w) \in Message
    BY <2>3, ReplyType DEF Inv
  <2>5. /\ Status[at[w]] = "open" /\ Status' = [Status EXCEPT ![at[w]] = "kept"]
        /\ at[w] \in 1..MaxRequests
    BY <2>1, <2>2, <2>3, <2>4, StatusAppended
  <2>6. \A i \in DOMAIN requests[at[w]] :
          requests[at[w]][i].of = at[w] /\ requests[at[w]][i].role # "assistant"
    BY <2>4 DEF Inv, RequestInv
  <2>7. Reply(w).of = at[w] /\ Reply(w).role = "assistant"
    BY DEF Reply
  <2>8. /\ Log!IsStrictPrefix(history, history')
        /\ \A i \in DOMAIN Log!Added : /\ Log!Added[i].of = at[w]
                                       /\ Log!Added[i].role = "assistant" <=> i = Len(Log!Added)
    <3>1. Log!Added = SubSeq(history', Len(history) + 1, Len(history'))
      BY DEF Log!Added
    <3>2. history' = Append(history \o requests[at[w]], Reply(w)) /\ history \in Seq(Message)
      BY <2>1, <2>3
    <3>3. PICK s, t, e, r, h, added :
            /\ s = history /\ t = requests[at[w]] /\ e = Reply(w) /\ r = at[w]
            /\ h = history' /\ added = Log!Added
      OBVIOUS
    <3>4. TurnOf(r, s, t, e, h, added)
      BY <2>4, <2>6, <2>7, <3>1, <3>2, <3>3 DEF TurnOf
    <3>5. /\ IsStrictPrefix(s, h)
          /\ \A i \in DOMAIN added : /\ added[i].of = r
                                     /\ added[i].role = "assistant" <=> i = Len(added)
      BY ONLY <3>4, TurnIsAdded
    <3>6. Log!IsStrictPrefix(s, h)
      BY <3>5, Zenon DEF IsStrictPrefix, IsPrefix, Log!IsStrictPrefix, Log!IsPrefix
    <3> QED BY <3>3, <3>5, <3>6, Zenon
  <2>9. Log!Keep(at[w])
    BY <2>1, <2>5, <2>8, Zenon DEF Log!Keep
  <2> QED BY <2>5, <2>9 DEF Log!Next
<1>14. CASE UNCHANGED vars
  BY <1>1, <1>14 DEF vars, chatVars, jobVars
<1> QED BY <1>2, <1>3, <1>5, <1>6, <1>7, <1>8, <1>9, <1>10, <1>11, <1>12, <1>13, <1>14, NextCases

\* However requests, cancellations and edits interleave, the history grows by whole turns
\* (TurnLog): each request adds its messages and one reply in one step and at most once.
THEOREM LogOfTurns == Spec => KeepsTurns
<1>1. Init => Log!Init
  <2>1. ASSUME Init PROVE Log!TurnFree(history) /\ exported = <<>>
    BY <2>1 DEF Init, Log!TurnFree, SystemPrompt
  <2>2. ASSUME Init PROVE Status = [r \in 1..MaxRequests |-> "open"]
    <3>1. kept = {} /\ DOMAIN outcome = {}
      BY <2>2 DEF Init
    <3> QED BY <3>1 DEF Status
  <2> QED BY <2>1, <2>2 DEF Log!Init
<1>2. Inv /\ [Next]_vars => [Log!Next]_(Log!vars)
  BY LogStep
<1> QED BY <1>1, <1>2, InvariantHolds, PTL DEF Spec, KeepsTurns, Log!Spec

-----------------------------------------------------------------------------
(* The job of a request.                                                   *)

\* What a step may do to the job of one request.
Moves(r) ==
  \/ JobPhase' = JobPhase
  \/ JobPhase[r] = "PENDING" /\ JobPhase' = [JobPhase EXCEPT ![r] = "RUNNING"]
  \/ JobPhase[r] = "PENDING" /\ JobPhase' = [JobPhase EXCEPT ![r] = "CANCELLED"]
  \/ JobPhase[r] = "RUNNING" /\ \E o \in Job!Outcomes : JobPhase' = [JobPhase EXCEPT ![r] = o]

\* Requests are numbered up to their bound, and each has an outcome.
LEMMA RequestsNumbered ==
  ASSUME TypeOK
  PROVE  /\ DOMAIN requests = 1..Len(requests) /\ Len(requests) \in Nat
         /\ DOMAIN requests \subseteq 1..MaxRequests /\ 0 \notin DOMAIN requests
         /\ outcome \in [DOMAIN requests -> {"none", "ok", "failed", "cancelled"}]
         /\ at \in [Workers -> DOMAIN requests \cup {0}]
<1>1. requests \in Seq(Seq(Message)) /\ Len(requests) <= MaxRequests
  BY DEF TypeOK
<1>2. DOMAIN requests = 1..Len(requests) /\ Len(requests) \in Nat
  BY <1>1
<1>3. DOMAIN requests \subseteq 1..MaxRequests /\ 0 \notin DOMAIN requests
  BY <1>1, <1>2, SessionAssumption
<1> QED BY <1>2, <1>3 DEF TypeOK

\* The phase looks at nothing but these three.
LEMMA PhaseKept ==
  ASSUME UNCHANGED <<requests, outcome, at>>
  PROVE  JobPhase' = JobPhase
BY DEF JobPhase

\* There is a phase for every request, now and after a step.
LEMMA PhaseIsFunction ==
  /\ JobPhase = [r \in 1..MaxRequests |-> JobPhase[r]]
  /\ JobPhase' = [r \in 1..MaxRequests |-> JobPhase'[r]]
BY DEF JobPhase

\* A request that ends has a job that does, and no other.
LEMMA PhaseEnds ==
  ASSUME Inv, NEW r \in DOMAIN requests, NEW result \in {"ok", "failed", "cancelled"},
         outcome[r] = "none", outcome' = [outcome EXCEPT ![r] = result], requests' = requests,
         \A u \in Workers : at'[u] = at[u] \/ (at[u] = r /\ at'[u] = 0)
  PROVE  /\ r \in 1..MaxRequests /\ JobPhase' = [JobPhase EXCEPT ![r] = Ended[result]]
         /\ Ended[result] \in Job!Outcomes
<1>1. /\ r \in 1..MaxRequests /\ DOMAIN outcome = DOMAIN requests /\ r # 0
      /\ 0 \notin DOMAIN requests
  BY RequestsNumbered DEF Inv
<1>2. outcome'[r] = result /\ \A q \in DOMAIN requests : q # r => outcome'[q] = outcome[q]
  BY <1>1
<1>3. \A q \in DOMAIN requests : q # r =>
        ((\E w \in Workers : at'[w] = q) <=> (\E w \in Workers : at[w] = q))
  BY <1>1
<1>4. \A q \in 1..MaxRequests :
        JobPhase'[q] = IF q = r THEN Ended[result] ELSE JobPhase[q]
  <2> SUFFICES ASSUME NEW q \in 1..MaxRequests
               PROVE  JobPhase'[q] = IF q = r THEN Ended[result] ELSE JobPhase[q]
    OBVIOUS
  <2>1. CASE q = r
    BY <1>2, <2>1 DEF JobPhase
  <2>2. CASE q # r /\ q \in DOMAIN requests
    BY <1>2, <1>3, <2>2 DEF JobPhase
  <2>3. CASE q \notin DOMAIN requests
    BY <2>3 DEF JobPhase
  <2> QED BY <2>1, <2>2, <2>3
<1>5. JobPhase' = [JobPhase EXCEPT ![r] = Ended[result]]
  BY <1>1, <1>4, PhaseIsFunction
<1>6. Ended[result] \in Job!Outcomes
  BY DEF Ended, Job!Outcomes
<1> QED BY <1>1, <1>5, <1>6

\* A worker that leaves its body ends the job it runs.
LEMMA LeaveMoves ==
  ASSUME Inv, NEW w \in Workers, pc[w] # "poll", NEW result \in {"ok", "failed", "cancelled"},
         Leave(w, result)
  PROVE  \E r \in 1..MaxRequests : Moves(r)
<1>1. at[w] \in DOMAIN requests /\ outcome[at[w]] = "none"
  BY DEF Inv, TypeOK, RequestInv
<1>2. at' = [at EXCEPT ![w] = 0] /\ at \in [Workers -> DOMAIN requests \cup {0}]
  BY RequestsNumbered DEF Inv, Leave
<1>3. outcome' = [outcome EXCEPT ![at[w]] = result] /\ requests' = requests
  BY DEF Leave
<1>4. \A u \in Workers : at'[u] = at[u] \/ (at[u] = at[w] /\ at'[u] = 0)
  BY <1>2
<1>5. PICK r \in DOMAIN requests : r = at[w]
  BY <1>1
<1>6. /\ r \in 1..MaxRequests /\ JobPhase' = [JobPhase EXCEPT ![r] = Ended[result]]
      /\ Ended[result] \in Job!Outcomes
  BY <1>1, <1>3, <1>4, <1>5, PhaseEnds
<1>7. JobPhase[r] = "RUNNING"
  BY <1>1, <1>5, <1>6 DEF JobPhase
<1> QED BY <1>6, <1>7 DEF Moves

\* Every step moves the job of one request, or none.
LEMMA RequestMoves ==
  ASSUME Inv, [Next]_vars
  PROVE  JobPhase' = JobPhase \/ \E r \in 1..MaxRequests : Moves(r)
<1> DEFINE Goal == JobPhase' = JobPhase \/ \E r \in 1..MaxRequests : Moves(r)
<1> SUFFICES Goal
  OBVIOUS
<1>a. /\ DOMAIN requests \subseteq 1..MaxRequests /\ 0 \notin DOMAIN requests
      /\ outcome \in [DOMAIN requests -> {"none", "ok", "failed", "cancelled"}]
      /\ at \in [Workers -> DOMAIN requests \cup {0}]
  BY RequestsNumbered DEF Inv
<1>1. ASSUME Submit PROVE Goal
  <2> DEFINE n == Len(requests) + 1
  <2>1. NewRequest(n)
    BY <1>1, SubmitEffect
  <2>2. /\ DOMAIN requests' = DOMAIN requests \cup {n} /\ n \notin DOMAIN requests
        /\ \A r \in DOMAIN requests : outcome'[r] = outcome[r]
        /\ outcome'[n] = "none" /\ at' = at
    BY <2>1 DEF NewRequest
  <2>3. \A w \in Workers : at[w] # n
    <3>1. n # 0
      BY RequestsNumbered DEF Inv
    <3> QED BY <1>a, <2>2, <3>1
  <2> HIDE DEF n
  <2>4. \A r \in 1..MaxRequests : JobPhase'[r] = JobPhase[r]
    <3> SUFFICES ASSUME NEW r \in 1..MaxRequests PROVE JobPhase'[r] = JobPhase[r]
      OBVIOUS
    <3>1. CASE r = n
      BY <2>2, <2>3, <3>1 DEF JobPhase
    <3>2. CASE r # n
      BY <2>2, <3>2 DEF JobPhase
    <3> QED BY <3>1, <3>2
  <2> QED BY <2>4 DEF JobPhase
<1>2. ASSUME NEW r \in DOMAIN requests, Cancel(r) PROVE Goal
  <2>1. /\ outcome[r] = "none" /\ requests' = requests /\ at' = at
        /\ outcome' = IF \A w \in Workers : at[w] # r THEN [outcome EXCEPT ![r] = "cancelled"]
                                                      ELSE outcome
    BY <1>2 DEF Cancel, workerVars
  <2>2. CASE \A w \in Workers : at[w] # r
    <3>1. /\ r \in 1..MaxRequests /\ JobPhase' = [JobPhase EXCEPT ![r] = Ended["cancelled"]]
      <4>1. outcome' = [outcome EXCEPT ![r] = "cancelled"] /\ \A u \in Workers : at'[u] = at[u]
        BY <2>1, <2>2
      <4>2. "cancelled" \in {"ok", "failed", "cancelled"}
        OBVIOUS
      <4> QED BY ONLY <2>1, <4>1, <4>2, Inv, r \in DOMAIN requests, PhaseEnds
    <3>2. JobPhase[r] = "PENDING" /\ Ended["cancelled"] = "CANCELLED"
      BY <2>1, <2>2, <3>1 DEF JobPhase, Ended
    <3> QED BY <3>1, <3>2 DEF Moves
  <2>3. CASE outcome' = outcome
    BY <2>1, <2>3, PhaseKept
  <2> QED BY <2>1, <2>2, <2>3
<1>3. ASSUME NEW w \in Workers, Pop(w) PROVE Goal
  <2>1. requests' = requests /\ outcome' = outcome
    BY <1>3 DEF Pop
  <2>2. CASE at' = at
    BY <2>1, <2>2, PhaseKept
  <2>3. CASE outcome[Head(queue)] = "none"
    <3>1. PICK r \in DOMAIN requests : r = Head(queue) /\ r = queue[1] /\ 1 \in DOMAIN queue
      <4>1. queue \in Seq(DOMAIN requests) /\ queue # <<>>
        BY <1>3 DEF Pop, Inv, TypeOK
      <4>2. Head(queue) = queue[1] /\ 1 \in DOMAIN queue /\ queue[1] \in DOMAIN requests
        BY <4>1
      <4> QED BY <4>2
    <3>2. /\ r \in 1..MaxRequests /\ r # 0 /\ at[w] = 0 /\ at' = [at EXCEPT ![w] = r]
          /\ outcome[r] = "none" /\ \A u \in Workers : at[u] # r
      BY <1>3, <1>a, <2>3, <3>1 DEF Pop, Inv, RequestInv
    <3>3. JobPhase[r] = "PENDING"
      BY <3>2 DEF JobPhase
    <3>4. \A q \in 1..MaxRequests : JobPhase'[q] = IF q = r THEN "RUNNING" ELSE JobPhase[q]
      <4> SUFFICES ASSUME NEW q \in 1..MaxRequests
                   PROVE  JobPhase'[q] = IF q = r THEN "RUNNING" ELSE JobPhase[q]
        OBVIOUS
      <4>1. at'[w] = r /\ \A u \in Workers : u # w => at'[u] = at[u]
        BY <1>a, <3>2
      <4>2. CASE q = r
        BY <2>1, <3>1, <3>2, <4>1, <4>2 DEF JobPhase
      <4>3. CASE q # r
        <5>1. (\E u \in Workers : at'[u] = q) <=> (\E u \in Workers : at[u] = q)
          <6>1. q # 0
            OBVIOUS
          <6> QED BY <3>2, <4>1, <4>3, <6>1
        <5> QED BY <2>1, <4>3, <5>1 DEF JobPhase
      <4> QED BY <4>2, <4>3
    <3>5. JobPhase' = [JobPhase EXCEPT ![r] = "RUNNING"]
      BY <3>2, <3>4, PhaseIsFunction
    <3> QED BY <3>2, <3>3, <3>5 DEF Moves
  <2> QED BY <1>3, <2>2, <2>3 DEF Pop
<1>4. ASSUME NEW w \in Workers,
             \/ Abandon(w) \/ Fail(w) \/ GenerateEnds(w) \/ AppendTurn(w) \/ TakeChunk(w)
      PROVE  Goal
  <2>1. /\ pc[w] # "poll"
        /\ \/ Leave(w, "ok") \/ Leave(w, "failed") \/ Leave(w, "cancelled")
           \/ UNCHANGED <<requests, outcome, at>>
    BY <1>4 DEF Abandon, Fail, GenerateEnds, AppendTurn, TakeChunk, Done, jobVars
  <2>2. CASE UNCHANGED <<requests, outcome, at>>
    BY <2>2, PhaseKept
  <2>3. CASE Leave(w, "ok") \/ Leave(w, "failed") \/ Leave(w, "cancelled")
    BY <2>1, <2>3, LeaveMoves
  <2> QED BY <2>1, <2>2, <2>3
<1>5. ASSUME NEW w \in Workers,
             Lock(w) \/ BuildPrompt(w) \/ OpenStream(w) \/ Loops(w) \/ GenerateCall(w)
      PROVE  Goal
  <2>1. UNCHANGED <<requests, outcome, at>>
    BY <1>5, LoopEffect DEF Lock, BuildPrompt, OpenStream, GenerateCall, jobVars
  <2> QED BY <2>1, PhaseKept
<1>6. ASSUME \/ \E count \in 0..2 : UndoTurns(count)
             \/ ClearHistory \/ RestoreHistory \/ ExportHistory \/ SetOptions
             \/ \E final \in BOOLEAN : PushAudio(final)
             \/ UNCHANGED vars
      PROVE  Goal
  <2>1. UNCHANGED <<requests, outcome, at>>
    BY <1>6 DEF UndoTurns, ClearHistory, RestoreHistory, Edit, ExportHistory, SetOptions,
       PushAudio, vars, jobVars, workerVars
  <2> QED BY <2>1, PhaseKept
<1> QED BY <1>1, <1>2, <1>3, <1>4, <1>5, <1>6, NextCases

\* What a session assumes of the pool is what JobPool implements: every request runs at most
\* once, ends once and for good, and one that never ran ends cancelled or not at all.
THEOREM RequestsAreJobs == Spec => KeepsJobs
<1>1. Init => Job!Init
  <2>1. ASSUME Init PROVE JobPhase = [r \in 1..MaxRequests |-> "PENDING"]
    <3>1. DOMAIN requests = {}
      BY <2>1 DEF Init
    <3> QED BY <3>1 DEF JobPhase
  <2> QED BY <2>1 DEF Job!Init
<1>2. Inv /\ [Next]_vars => [Job!Next]_(Job!vars)
  <2> SUFFICES ASSUME Inv, [Next]_vars PROVE [Job!Next]_(Job!vars)
    OBVIOUS
  <2>1. CASE JobPhase' = JobPhase
    BY <2>1 DEF Job!vars
  <2>2. ASSUME NEW r \in 1..MaxRequests, Moves(r) PROVE [Job!Next]_(Job!vars)
    <3>1. CASE JobPhase[r] = "PENDING" /\ JobPhase' = [JobPhase EXCEPT ![r] = "RUNNING"]
      <4>1. Job!Start(r)
        BY <3>1 DEF Job!Start
      <4> QED BY <4>1 DEF Job!Next
    <3>2. CASE JobPhase[r] = "PENDING" /\ JobPhase' = [JobPhase EXCEPT ![r] = "CANCELLED"]
      <4>1. Job!Settle(r, "CANCELLED") /\ "CANCELLED" \in Job!Outcomes
        BY <3>2 DEF Job!Settle, Job!Outcomes
      <4> QED BY <4>1 DEF Job!Next
    <3>3. CASE /\ JobPhase[r] = "RUNNING"
               /\ \E o \in Job!Outcomes : JobPhase' = [JobPhase EXCEPT ![r] = o]
      <4>1. PICK o \in Job!Outcomes : Job!Settle(r, o)
        BY <3>3 DEF Job!Settle
      <4> QED BY <4>1 DEF Job!Next
    <3> QED BY <2>1, <2>2, <3>1, <3>2, <3>3 DEF Moves
  <2> QED BY <2>1, <2>2, RequestMoves
<1> QED BY <1>1, <1>2, InvariantHolds, PTL DEF Spec, KeepsJobs, Job!Spec
=============================================================================
