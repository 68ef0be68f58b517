-------------------------- MODULE CoreAlgorithmsProofs --------------------------
(***************************************************************************)
(* Proofs about the sequential parts of the core: the admission of a       *)
(* model, when the token loop stops, what becomes of its tokens, the       *)
(* embedding of a batch, and the two conversions.                          *)
(***************************************************************************)
EXTENDS CoreOperatorProofs

-----------------------------------------------------------------------------
(* The admission.                                                          *)

\* A quarter of a memory, and the budget made of an amount of it, are amounts.
LEMMA Amounts ==
  ASSUME ProfileAssumption
  PROVE  /\ TotalMemory \div 4 \in Nat
         /\ \A bytes \in Nat : MaxModelBytes(bytes) \in Nat
BY DEF ProfileAssumption, MaxModelBytes

\* What is available after a query is what Load could know, never less than nothing.
LEMMA Query ==
  ASSUME ProfileAssumption, ProfileInv, LoadQueries
  PROVE  /\ available' = IF Known' > 0 THEN Known' ELSE 0
         /\ available' \in Nat
         /\ system = "desktop" => available' = lastTold'
<1> USE DEF LoadQueries, ProfileInv, ProfileTypeOK, ProfileAssumption, Informed
<1>1. system \in {"android", "apple", "desktop"}
  OBVIOUS
<1>2. readAt'.readable = readable /\ readAt'.memory = memory /\ system' = system
  OBVIOUS
<1>3. CASE system = "android"
  BY <1>2, <1>3 DEF Known, FillDynamicInfo, AndroidAvailable
<1>4. CASE system = "apple"
  BY <1>2, <1>4, Amounts DEF Known, FillDynamicInfo, AppleAvailable
<1>5. CASE system = "desktop"
  BY <1>2, <1>5 DEF Known, FillDynamicInfo, DesktopAvailable
<1>6. QED
  BY <1>1, <1>3, <1>4, <1>5

\* Every step of the admission keeps its invariant.
LEMMA AdmissionStep ==
  ASSUME ProfileAssumption, ProfileInv, DeviceNext
  PROVE  ProfileInv'
<1> USE DEF ProfileInv
<1>1. CASE MemoryChanges
  <2>1. ProfileTypeOK'
    BY <1>1 DEF MemoryChanges, ProfileTypeOK, Readings, ProfileAssumption
  <2>2. Informed'
    BY <1>1 DEF MemoryChanges, Informed, Known, MaxModelBytes
  <2>3. QED
    BY <2>1, <2>2
<1>2. CASE LoadQueries
  <2>1. /\ available' = IF Known' > 0 THEN Known' ELSE 0
        /\ available' \in Nat
        /\ system = "desktop" => available' = lastTold'
    BY <1>2, Query
  <2>2. budget' = MaxModelBytes(available') /\ budget' \in Nat
    BY <1>2, <2>1, Amounts DEF LoadQueries
  <2>3. providers' \in [{"accelerator", "cpu"} -> 0..1]
    BY <1>2 DEF LoadQueries, FillExecutionProviders, ProfileTypeOK
  <2>4. ProfileTypeOK'
    BY <1>2, <2>1, <2>2, <2>3 DEF LoadQueries, ProfileTypeOK
  <2>5. Informed'
    BY <1>2, <2>1, <2>2 DEF LoadQueries, Informed, MaxModelBytes
  <2>6. QED
    BY <2>4, <2>5
<1>3. CASE RefreshDeviceProfile
  BY <1>3 DEF RefreshDeviceProfile, ProfileTypeOK, Informed, Known, MaxModelBytes
<1>4. CASE LoadAdmits
  <2>1. ProfileTypeOK'
    BY <1>4 DEF LoadAdmits, ProfileTypeOK
  <2>2. loading' = "admitted" => ~(modelBytes > 0 /\ budget > 0 /\ modelBytes > budget)
    BY <1>4 DEF LoadAdmits, Exceeds
  <2>3. Informed'
    BY <1>4, <2>2 DEF LoadAdmits, Informed, Known, MaxModelBytes
  <2>4. QED
    BY <2>1, <2>3
<1>5. QED
  BY <1>1, <1>2, <1>3, <1>4 DEF DeviceNext

\* The admission begins in its invariant.
LEMMA AdmissionInit ==
  ASSUME ProfileAssumption, DeviceInit
  PROVE  ProfileInv
<1>1. ProfileTypeOK
  BY DEF DeviceInit, ProfileTypeOK, ProfileAssumption, Readings
<1>2. Informed
  BY DEF DeviceInit, Informed
<1>3. QED
  BY <1>1, <1>2 DEF ProfileInv

\* A model that is admitted under the invariant fits.
LEMMA AdmittedFits ==
  ASSUME ProfileAssumption, ProfileInv
  PROVE  AdmissionFits
<1> USE DEF ProfileInv, ProfileTypeOK
<1>1. Listed
  BY DEF Listed
<1>2. SUFFICES ASSUME loading = "admitted", modelBytes > 0
               PROVE  \/ modelBytes * 100 <= Known * 45
                      \/ Known <= 0 /\ modelBytes <= Unknown
                      \/ Known \in 1..2
  BY <1>1 DEF AdmissionFits
<1>3. Known \in Int
  <2>1. readAt.memory \in Int /\ lastTold \in Int /\ TotalMemory \div 4 \in Int
    BY Amounts
  <2>2. system \in {"android", "apple", "desktop"}
    BY DEF ProfileAssumption
  <2>3. QED
    BY <2>1, <2>2 DEF Known
<1>4. /\ available = IF Known > 0 THEN Known ELSE 0
      /\ budget = MaxModelBytes(available)
      /\ modelBytes <= budget \/ budget <= 0
  BY <1>2 DEF Informed
<1>5. CASE Known <= 0
  BY <1>3, <1>4, <1>5 DEF MaxModelBytes, ProfileAssumption
<1>6. CASE Known > 0
  <2>1. PICK known \in Nat : known = Known /\ known > 0
    BY <1>3, <1>6
  <2>2. budget = (known * 45) \div 100
    BY <1>4, <2>1 DEF MaxModelBytes
  <2>3. PICK m \in Nat : m = modelBytes
    OBVIOUS
  <2>4. CASE m <= (known * 45) \div 100
    BY <2>1, <2>3, <2>4
  <2>5. CASE (known * 45) \div 100 <= 0
    BY <2>1, <2>5
  <2>6. QED
    BY <1>4, <2>2, <2>3, <2>4, <2>5
<1>7. QED
  BY <1>3, <1>5, <1>6

\* The inductive invariant of the admission: what Load compares is made of what it could
\* know of the memory when it asked (model.cc, device_profile.cc).
THEOREM AdmissionInformed == Spec => []ProfileInv
<1>1. Init => ProfileInv
  BY AdmissionInit, ProfileAssumption DEF Init
<1>2. ASSUME ProfileInv, [Next]_vars
      PROVE  ProfileInv'
  <2>1. CASE DeviceNext
    BY <1>2, <2>1, AdmissionStep, ProfileAssumption
  <2>2. CASE UNCHANGED profileVars
    BY <1>2, <2>2 DEF profileVars, ProfileInv, ProfileTypeOK, Informed, Known, MaxModelBytes
  <2>3. QED
    BY <1>2, <2>1, <2>2 DEF Next, vars
<1>3. QED
  BY <1>1, <1>2, PTL DEF Spec

\* A model that is admitted fits into 45% of the memory that Load could know of, with the
\* two exceptions that the property names, on every system, whatever the amounts of memory
\* and however they change (Model::Load, MaxModelBytes, FillDynamicInfo).
THEOREM AdmittedModelsFit == Spec => []AdmissionFits
<1>1. ProfileInv => AdmissionFits
  BY AdmittedFits, ProfileAssumption
<1>2. QED
  BY <1>1, AdmissionInformed, PTL

-----------------------------------------------------------------------------
(* The token loop.                                                         *)

Kinds == {"text", "reasoning", "tool", "completed"}
Deltas == Seq([kind : Kinds, of : Seq(Nat)])

\* What the callback was called with before stays; one more call comes after it.
LEMMA Emitted ==
  ASSUME GenerationTypeOK, NEW kind \in Kinds, NEW of \in Seq(Nat), NEW stop \in BOOLEAN,
         EmitDelta(kind, of, stop)
  PROVE  /\ deltas' \in Deltas
         /\ Len(deltas') = Len(deltas) + 1 /\ Len(deltas) \in Nat
         /\ \A i \in 1..Len(deltas) : deltas'[i].kind = deltas[i].kind
         /\ deltas'[Len(deltas')].kind = kind
         /\ asked' = (asked \/ stop)
         /\ stoppedAt' = IF stop /\ stoppedAt = 0 THEN Len(deltas') ELSE stoppedAt
<1>1. deltas \in Deltas /\ [kind |-> kind, of |-> of] \in [kind : Kinds, of : Seq(Nat)]
  BY DEF GenerationTypeOK, Deltas, Kinds
<1>2. deltas' = Append(deltas, [kind |-> kind, of |-> of])
  BY DEF EmitDelta
<1>3. PICK D : D = [kind : Kinds, of : Seq(Nat)]
  OBVIOUS
<1>4. /\ deltas' \in Seq(D)
      /\ Len(deltas') = Len(deltas) + 1 /\ Len(deltas) \in Nat
      /\ \A i \in 1..Len(deltas) : deltas'[i] = deltas[i]
      /\ deltas'[Len(deltas) + 1] = [kind |-> kind, of |-> of]
  BY <1>1, <1>2, <1>3 DEF Deltas
<1>5. QED
  BY <1>3, <1>4 DEF Deltas, EmitDelta

\* Nothing stands after the last, and one more comes after all others.
LEMMA NoneAfter ==
  ASSUME NEW n \in Nat
  PROVE  /\ \A i \in (n + 1)..n : FALSE
         /\ \A k \in 1..n : \A i \in (k + 1)..(n + 1) :
              i = n + 1 \/ (i \in (k + 1)..n /\ i \in 1..n)
OBVIOUS

\* The parts of the invariant that a step with one more delta must show, one by one.
LEMMA OneMore ==
  ASSUME GenerationInv, ~Over, NEW kind \in Kinds, NEW of \in Seq(Nat), NEW stop \in BOOLEAN,
         EmitDelta(kind, of, stop),
         step' # "returned" \/ kind = "completed",
         kind = "completed" => Over',
         kind = "tool" => toolCalls' # <<>>,
         toolCalls' = <<>> => toolCalls = <<>>
  PROVE  /\ deltas' \in Deltas /\ stoppedAt' \in Nat /\ asked' \in BOOLEAN
         /\ toolCalls' = <<>> => \A i \in 1..Len(deltas') : deltas'[i].kind # "tool"
         /\ CompletedLast'
         /\ stoppedAt' > 0 /\ stoppedAt = 0 =>
              asked' /\ stoppedAt' = Len(deltas') /\ deltas'[stoppedAt'].kind = kind
         /\ stoppedAt > 0 =>
              /\ asked' /\ stoppedAt' = stoppedAt /\ stoppedAt' <= Len(deltas')
              /\ deltas'[stoppedAt].kind = deltas[stoppedAt].kind
              /\ \A i \in (stoppedAt + 1)..Len(deltas') :
                   \/ deltas'[i].kind = kind
                   \/ deltas'[i].kind = "tool" /\ deltas[stoppedAt].kind = "tool"
<1>1. /\ deltas' \in Deltas
      /\ Len(deltas') = Len(deltas) + 1 /\ Len(deltas) \in Nat
      /\ \A i \in 1..Len(deltas) : deltas'[i].kind = deltas[i].kind
      /\ deltas'[Len(deltas')].kind = kind
      /\ asked' = (asked \/ stop)
      /\ stoppedAt' = IF stop /\ stoppedAt = 0 THEN Len(deltas') ELSE stoppedAt
  BY Emitted DEF GenerationInv
<1>2. /\ stoppedAt \in Nat /\ asked \in BOOLEAN /\ (stoppedAt > 0 => asked)
      /\ \A i \in 1..Len(deltas) : deltas[i].kind # "completed"
      /\ toolCalls = <<>> => \A i \in 1..Len(deltas) : deltas[i].kind # "tool"
  BY DEF GenerationInv, GenerationTypeOK, Stopped, CompletedLast, ToolsAccounted, Kind
<1>3. toolCalls' = <<>> => \A i \in 1..Len(deltas') : deltas'[i].kind # "tool"
  BY <1>1, <1>2
<1>4. CompletedLast'
  BY <1>1, <1>2 DEF CompletedLast, Kind
<1>5. ASSUME stoppedAt > 0
      PROVE  /\ asked' /\ stoppedAt' = stoppedAt /\ stoppedAt' <= Len(deltas')
             /\ deltas'[stoppedAt].kind = deltas[stoppedAt].kind
             /\ \A i \in (stoppedAt + 1)..Len(deltas') :
                  \/ deltas'[i].kind = kind
                  \/ deltas'[i].kind = "tool" /\ deltas[stoppedAt].kind = "tool"
  <2>1. /\ stoppedAt \in 1..Len(deltas)
        /\ \A i \in (stoppedAt + 1)..Len(deltas) :
             deltas[i].kind = "tool" /\ deltas[stoppedAt].kind = "tool"
    <3>1. stoppedAt \in 1..Len(deltas)
      BY <1>1, <1>2, <1>5 DEF GenerationInv, Stopped
    <3>2. \A i \in (stoppedAt + 1)..Len(deltas) : i \in 1..Len(deltas)
      BY <1>1, <3>1
    <3>3. QED
      BY <1>2, <1>5, <3>1, <3>2 DEF GenerationInv, Stopped, Kind
  <2>2. PICK n \in Nat : n = Len(deltas) /\ n + 1 = Len(deltas') /\ stoppedAt \in 1..n
    BY <1>1, <2>1
  <2>3. ASSUME NEW i \in (stoppedAt + 1)..(n + 1)
        PROVE  i = n + 1 \/ (i \in (stoppedAt + 1)..n /\ i \in 1..n)
    BY <2>2, NoneAfter
  <2>4. asked' /\ stoppedAt' = stoppedAt /\ stoppedAt' <= Len(deltas')
    <3>1. asked'
      BY <1>1, <1>2, <1>5, Zenon
    <3>2. stoppedAt' = stoppedAt
      BY <1>1, <1>5
    <3>3. stoppedAt <= n + 1
      BY ONLY <2>2
    <3>4. QED
      BY <2>2, <3>1, <3>2, <3>3
  <2>5. deltas'[stoppedAt].kind = deltas[stoppedAt].kind
    BY <1>1, <2>1
  <2>6. ASSUME NEW i \in (stoppedAt + 1)..Len(deltas')
        PROVE  \/ deltas'[i].kind = kind
               \/ deltas'[i].kind = "tool" /\ deltas[stoppedAt].kind = "tool"
    <3>1. CASE i = n + 1
      BY <1>1, <2>2, <3>1
    <3>2. CASE i \in (stoppedAt + 1)..n /\ i \in 1..n
      BY <1>1, <2>1, <2>2, <3>2
    <3>3. QED
      BY <2>2, <2>3, <2>6, <3>1, <3>2
  <2>7. QED
    BY <2>4, <2>5, <2>6
<1>6. QED
  BY <1>1, <1>2, <1>3, <1>4, <1>5

\* A step that emits nothing keeps the invariant: the head of the loop and what surrounds it.
LEMMA SilentStep ==
  ASSUME GenerationAssumption, GenerationInv,
         \/ CancelGeneration \/ SpeechSetup \/ SpeechText
         \/ LoopEnds \/ LoopCancelled \/ SessionTerminated \/ LoopGoesOn \/ GenerationFails
         \/ MarkerDecoded
  PROVE  GenerationInv'
<1> USE DEF GenerationInv, GenerationAssumption, streamVars
<1>1. /\ UNCHANGED <<hasTools, maxOutput, maxLength, stoppedAt, state, preTool, toolBuffer,
                     toolCalls, produced, deltas>>
      /\ ~Over
      /\ asked' \in BOOLEAN /\ (asked => asked')
      /\ cancelled' \in BOOLEAN /\ (cancelled => cancelled')
      /\ step' \in {"setup", "head", "token", "array", "marker", "flush", "complete", "threw"}
  BY DEF CancelGeneration, SpeechSetup, SpeechText, LoopEnds, LoopCancelled,
         SessionTerminated, LoopGoesOn, GenerationFails, MarkerDecoded, GenerationTypeOK, Over
<1>2. /\ finish' \in {"none", "cancelled"}
      /\ finish' = "cancelled" => cancelled'
      /\ finish = "cancelled" => finish' = "cancelled"
  BY DEF CancelGeneration, SpeechSetup, SpeechText, LoopEnds, LoopCancelled,
         SessionTerminated, LoopGoesOn, GenerationFails, MarkerDecoded, Stopped, Over
<1>3. /\ step' = "token" => step = "token" \/ (~LimitReached /\ ~asked /\ step = "head")
      /\ step' = "setup" => step = "setup"
      /\ step' \in {"head", "marker", "flush"} =>
           step \in {"head", "marker", "flush"} \/ stoppedAt = 0
      /\ step' = "threw" => step \in {"setup", "token", "marker"}
      /\ step = "complete" => step' = "complete"
      /\ step' = "array" => step = "array"
      /\ step' \in {"setup", "head", "token", "array"} => ~cancelled'
  <2>1. CASE CancelGeneration \/ SpeechSetup \/ SpeechText
    BY <2>1 DEF CancelGeneration, SpeechSetup, SpeechText, Stopped, GenerationTypeOK
  <2>2. CASE LoopEnds \/ LoopCancelled \/ SessionTerminated
    BY <2>2 DEF LoopEnds, LoopCancelled, SessionTerminated, Stopped, GenerationTypeOK
  <2>3. CASE LoopGoesOn
    BY <2>3 DEF LoopGoesOn, Stopped, GenerationTypeOK
  <2>4. CASE MarkerDecoded
    BY <2>4 DEF MarkerDecoded, Stopped, GenerationTypeOK
  <2>5. CASE GenerationFails
    BY <2>5 DEF GenerationFails
  <2>6. QED
    BY <2>1, <2>2, <2>3, <2>4, <2>5
<1>4. GenerationTypeOK'
  BY <1>1, <1>2 DEF GenerationTypeOK
<1>5. WithinLimit'
  BY <1>1, <1>2, <1>3 DEF WithinLimit, LimitReached, LimitKnown, GenerationTypeOK
<1>6. ToolsAccounted'
  BY <1>1, <1>2, <1>3 DEF ToolsAccounted, Kind
<1>7. CompletedLast'
  BY <1>1 DEF CompletedLast, Kind, Over
<1>8. Stopped'
  BY <1>1, <1>2, <1>3 DEF Stopped, Kind, Over, GenerationTypeOK
<1>9. QED
  BY <1>4, <1>5, <1>6, <1>7, <1>8

\* A token that emits nothing keeps the invariant.
LEMMA SilentToken ==
  ASSUME GenerationAssumption, GenerationInv,
         ReasoningBegins \/ ReasoningEnds \/ ToolCallBegins \/ EmptyToken \/ ToolToken
  PROVE  GenerationInv'
<1> USE DEF GenerationInv, GenerationAssumption
<1>1. /\ UNCHANGED <<hasTools, maxOutput, maxLength, asked, stoppedAt, toolCalls, deltas,
                     cancelled, finish>>
      /\ step = "token" /\ step' = "head" /\ produced' = produced + 1
  BY DEF ReasoningBegins, ReasoningEnds, ToolCallBegins, EmptyToken, ToolToken, Quiet, Decoded
<1>0. /\ state' \in {"text", "reasoning", "toolCall", "speech"}
      /\ (state' = "speech") = (state = "speech")
      /\ preTool' \in {"text", "reasoning"}
  <2>1. CASE ToolCallBegins
    <3>1. hasTools /\ state # "toolCall" /\ state' = "toolCall" /\ preTool' = state
      BY <2>1 DEF ToolCallBegins
    <3>2. QED
      BY <3>1 DEF GenerationTypeOK, ToolsAccounted
  <2>2. CASE ~ToolCallBegins
    <3>1. preTool' = preTool /\ ((state' \in {"text", "reasoning"} /\ state # "speech") \/ state' = state)
      BY <2>2 DEF ReasoningBegins, ReasoningEnds, EmptyToken, ToolToken, Decoded
    <3>2. QED
      BY <3>1 DEF GenerationTypeOK
  <2>3. QED
    BY <2>1, <2>2
<1>2. toolBuffer' \in Seq(Nat)
  <2>1. toolBuffer \in Seq(Nat) /\ produced + 1 \in Nat
    BY DEF GenerationTypeOK
  <2>2. <<>> \in Seq(Nat) /\ Append(toolBuffer, produced + 1) \in Seq(Nat)
    BY <2>1
  <2>3. toolBuffer' \in {toolBuffer, <<>>, Append(toolBuffer, produced + 1)}
    BY DEF ReasoningBegins, ReasoningEnds, ToolCallBegins, EmptyToken, ToolToken
  <2>4. QED
    BY <2>1, <2>2, <2>3
<1>3. GenerationTypeOK'
  BY <1>0, <1>1, <1>2 DEF GenerationTypeOK
<1>4. WithinLimit'
  BY <1>0, <1>1 DEF WithinLimit, LimitKnown, GenerationTypeOK
<1>5. ToolsAccounted'
  BY <1>0, <1>1 DEF ToolsAccounted, Kind
<1>6. CompletedLast'
  BY <1>0, <1>1 DEF CompletedLast, Kind, Over
<1>7. Stopped'
  BY <1>0, <1>1 DEF Stopped, Over, GenerationTypeOK
<1>8. QED
  BY <1>3, <1>4, <1>5, <1>6, <1>7

\* A token that goes to the callback: the loop goes on only if the callback does not stop it.
LEMMA SpokenToken ==
  ASSUME GenerationAssumption, GenerationInv,
         TextToken \/ ReasoningToken \/ SpeechToken \/ ToolCallMalformed
  PROVE  GenerationInv'
<1> USE DEF GenerationInv, GenerationAssumption
<1>1. /\ UNCHANGED <<hasTools, maxOutput, maxLength, preTool, toolCalls>>
      /\ step = "token" /\ produced' = produced + 1
      /\ state' = state \/ (state = "toolCall" /\ state' = preTool)
      /\ step' \in {"head", "marker", "flush"} /\ (step' = "head" => ~cancelled')
      /\ cancelled' = asked'
      /\ finish' = (IF asked' THEN "cancelled" ELSE finish) \/ (finish' = finish /\ state = "speech")
  BY DEF TextToken, ReasoningToken, SpeechToken, ToolCallMalformed, Decoded, Closes, HeedStop,
         Onward
<1>2. toolBuffer' \in Seq(Nat)
  <2>1. toolBuffer' = toolBuffer \/ toolBuffer' = <<>>
    BY DEF TextToken, ReasoningToken, SpeechToken, ToolCallMalformed
  <2>2. toolBuffer \in Seq(Nat)
    BY DEF GenerationTypeOK
  <2>3. <<>> \in Seq(Nat)
    OBVIOUS
  <2>4. QED
    BY <2>1, <2>2, <2>3
<1>3. PICK kind \in Kinds, of \in Seq(Nat), stop \in BOOLEAN :
           EmitDelta(kind, of, stop) /\ kind \in {"text", "reasoning"}
  <2>1. <<produced + 1>> \in Seq(Nat) /\ toolBuffer \in Seq(Nat)
    BY DEF GenerationTypeOK
  <2>2. "text" \in Kinds /\ "reasoning" \in Kinds
    BY DEF Kinds
  <2>3. \/ \E stop \in BOOLEAN : EmitDelta("text", <<produced + 1>>, stop)
        \/ \E stop \in BOOLEAN : EmitDelta("reasoning", <<produced + 1>>, stop)
        \/ \E stop \in BOOLEAN : EmitDelta("text", toolBuffer, stop)
    BY DEF TextToken, ReasoningToken, SpeechToken, ToolCallMalformed
  <2>4. QED
    BY <2>1, <2>2, <2>3, Zenon
<1>4. /\ ~Over /\ ~Over' /\ stoppedAt = 0 /\ finish \in {"none", "cancelled"}
  BY <1>1 DEF Stopped, Over, GenerationTypeOK
<1>5. /\ deltas' \in Deltas /\ stoppedAt' \in Nat /\ asked' \in BOOLEAN
      /\ toolCalls' = <<>> => \A i \in 1..Len(deltas') : deltas'[i].kind # "tool"
      /\ CompletedLast'
      /\ stoppedAt' > 0 => asked' /\ stoppedAt' = Len(deltas')
  BY <1>1, <1>3, <1>4, OneMore DEF Over
<1>6. GenerationTypeOK'
  BY <1>1, <1>2, <1>4, <1>5 DEF GenerationTypeOK, Deltas, Kinds
<1>7. WithinLimit'
  BY <1>1, <1>4 DEF WithinLimit, LimitKnown, GenerationTypeOK
<1>8. ToolsAccounted'
  <2>1. state' = "speech" => state = "speech"
    BY <1>1 DEF GenerationTypeOK
  <2>2. QED
    BY <1>1, <1>4, <1>5, <2>1 DEF ToolsAccounted, Kind
<1>9. Stopped'
  <2>1. finish' \in {"none", "cancelled"} /\ (finish' = "cancelled" => cancelled')
    BY <1>1, <1>3, <1>4 DEF Stopped, EmitDelta
  <2>2. stoppedAt' > 0 => finish' = "cancelled" \/ (state' = "speech" /\ cancelled')
    BY <1>1, <1>5 DEF GenerationTypeOK
  <2>3. QED
    <3>1. stoppedAt' > 0 => cancelled'
      BY <1>1, <1>5
    <3>2. stoppedAt' > 0 => finish' = "cancelled" \/ (finish' = "none" /\ state' = "speech" /\ cancelled')
      BY <2>1, <2>2
    <3>3. stoppedAt' > 0 => step' \notin {"setup", "token"} /\ stoppedAt' <= Len(deltas')
      BY <1>1, <1>5
    <3>4. stoppedAt' > 0 => \A i \in (stoppedAt' + 1)..Len(deltas') : FALSE
      BY <1>5, NoneAfter DEF Deltas
    <3>5. QED
      BY <1>1, <1>4, <1>5, <2>1, <3>1, <3>2, <3>3, <3>4 DEF Stopped
<1>10. QED
  BY <1>5, <1>6, <1>7, <1>8, <1>9

\* What a call of the buffer adds, and what it leaves there.
LEMMA CallEmitted ==
  ASSUME GenerationTypeOK, EmitCall
  PROVE  \E n \in 1..Len(toolBuffer), stop \in BOOLEAN :
           /\ EmitDelta("tool", SubSeq(toolBuffer, 1, n), stop)
           /\ SubSeq(toolBuffer, 1, n) \in Seq(Nat)
           /\ toolBuffer' = SubSeq(toolBuffer, n + 1, Len(toolBuffer)) /\ toolBuffer' \in Seq(Nat)
           /\ toolCalls' \in Seq(Seq(Nat)) /\ toolCalls' # <<>>
<1>1. toolBuffer \in Seq(Nat) /\ DOMAIN toolBuffer = 1..Len(toolBuffer)
  BY DEF GenerationTypeOK
<1>2. PICK n \in 1..Len(toolBuffer), stop \in BOOLEAN :
        /\ EmitDelta("tool", SubSeq(toolBuffer, 1, n), stop)
        /\ toolCalls' = Append(toolCalls, SubSeq(toolBuffer, 1, n))
        /\ toolBuffer' = SubSeq(toolBuffer, n + 1, Len(toolBuffer))
  BY <1>1 DEF EmitCall
<1>3. /\ SubSeq(toolBuffer, 1, n) \in Seq(Nat)
      /\ SubSeq(toolBuffer, n + 1, Len(toolBuffer)) \in Seq(Nat)
  BY <1>1, BeginningAndRest
<1>4. toolCalls' \in Seq(Seq(Nat)) /\ toolCalls' # <<>>
  <2>1. PICK S : S = Seq(Nat)
    OBVIOUS
  <2>2. PICK first : first = SubSeq(toolBuffer, 1, n)
    OBVIOUS
  <2>3. toolCalls \in Seq(S) /\ first \in S
    BY <1>3, <2>1, <2>2 DEF GenerationTypeOK
  <2>4. Append(toolCalls, first) \in Seq(S) /\ Append(toolCalls, first) # <<>>
    BY <2>3, AppendProperties
  <2>5. QED
    BY <1>2, <2>1, <2>2, <2>4
<1>5. QED
  BY <1>2, <1>3, <1>4

\* A tool call goes to the callback, whose answer is not looked at: not even to the calls
\* that the same array still holds.
LEMMA ParsedStep ==
  ASSUME GenerationAssumption, GenerationInv,
         \/ ToolCallParsed
         \/ NextItem /\ EmitCall
  PROVE  GenerationInv'
<1> USE DEF GenerationInv, GenerationAssumption
<1>1. /\ UNCHANGED <<hasTools, maxOutput, maxLength, state, preTool, cancelled, finish>>
      /\ step \in {"token", "array"} /\ step' = "array" /\ state = "toolCall"
      /\ produced' = produced \/ (step = "token" /\ produced' = produced + 1)
      /\ EmitCall
  BY DEF ToolCallParsed, NextItem, Closes, ToolsAccounted
<1>2. PICK of \in Seq(Nat), stop \in BOOLEAN : EmitDelta("tool", of, stop)
  BY <1>1, CallEmitted
<1>3. toolBuffer' \in Seq(Nat) /\ toolCalls' \in Seq(Seq(Nat)) /\ toolCalls' # <<>>
  BY <1>1, CallEmitted
<1>4. /\ ~Over /\ ~Over' /\ ~cancelled /\ finish = "none" /\ "tool" \in Kinds
      /\ stoppedAt \in Nat /\ (stoppedAt > 0 => deltas[stoppedAt].kind = "tool")
  BY <1>1 DEF Stopped, Over, Kinds, Kind, GenerationTypeOK
<1>5. /\ deltas' \in Deltas /\ stoppedAt' \in Nat /\ asked' \in BOOLEAN
      /\ CompletedLast'
      /\ stoppedAt' > 0 /\ stoppedAt = 0 =>
           asked' /\ stoppedAt' = Len(deltas') /\ deltas'[stoppedAt'].kind = "tool"
      /\ stoppedAt > 0 =>
           /\ asked' /\ stoppedAt' = stoppedAt /\ stoppedAt' <= Len(deltas')
           /\ deltas'[stoppedAt].kind = "tool"
           /\ \A i \in (stoppedAt + 1)..Len(deltas') : deltas'[i].kind = "tool"
  BY <1>1, <1>2, <1>3, <1>4, OneMore
<1>6. GenerationTypeOK'
  BY <1>1, <1>3, <1>5 DEF GenerationTypeOK, Deltas, Kinds
<1>7. WithinLimit'
  BY <1>1, <1>4 DEF WithinLimit, LimitKnown, GenerationTypeOK
<1>8. ToolsAccounted'
  BY <1>1, <1>3, <1>4 DEF ToolsAccounted
<1>9. Stopped'
  <2>1. Len(deltas') \in Nat
    BY <1>5 DEF Deltas
  <2>2. stoppedAt' > 0 => /\ asked' /\ stoppedAt' <= Len(deltas') /\ deltas'[stoppedAt'].kind = "tool"
                          /\ \A i \in (stoppedAt' + 1)..Len(deltas') : deltas'[i].kind = "tool"
    <3>1. CASE stoppedAt = 0
      BY <1>5, <2>1, <3>1
    <3>2. CASE stoppedAt > 0
      BY <1>5, <3>2
    <3>3. QED
      BY <1>4, <3>1, <3>2
  <2>3. QED
    BY <1>1, <1>4, <2>2 DEF Stopped, Kind
<1>10. QED
  BY <1>5, <1>6, <1>7, <1>8, <1>9

\* An item without a name is passed over, the array ends, or the JSON library throws.
LEMMA ArrayStep ==
  ASSUME GenerationAssumption, GenerationInv,
         (NextItem /\ ~EmitCall) \/ ArrayEnds \/ ToolCallThrows
  PROVE  GenerationInv'
<1> USE DEF GenerationInv, GenerationAssumption
<1>1. /\ UNCHANGED <<hasTools, maxOutput, maxLength, asked, stoppedAt, preTool, toolCalls,
                     deltas, cancelled, finish>>
      /\ \/ step = "array" /\ produced' = produced
            /\ \/ step' \in {"array", "threw"} /\ state' = state
               \/ step' = "marker" /\ state' = preTool
         \/ /\ step = "token" /\ step' = "threw" /\ produced' = produced + 1 /\ state' = state
  BY DEF NextItem, ArrayEnds, ToolCallThrows, Closes
<1>2. toolBuffer' \in Seq(Nat)
  <2>1. toolBuffer \in Seq(Nat) /\ DOMAIN toolBuffer = 1..Len(toolBuffer)
    BY DEF GenerationTypeOK
  <2>2. \A n \in 1..Len(toolBuffer) : SubSeq(toolBuffer, n + 1, Len(toolBuffer)) \in Seq(Nat)
    BY <2>1
  <2>3. \/ toolBuffer' = toolBuffer
        \/ \E n \in 1..Len(toolBuffer) : toolBuffer' = SubSeq(toolBuffer, n + 1, Len(toolBuffer))
    BY <2>1 DEF NextItem, ArrayEnds, ToolCallThrows
  <2>4. QED
    BY <2>1, <2>2, <2>3
<1>3. ~Over /\ ~cancelled /\ finish = "none" /\ (step = "array" => state = "toolCall")
  BY <1>1 DEF Stopped, Over, ToolsAccounted
<1>4. GenerationTypeOK'
  BY <1>1, <1>2, <1>3 DEF GenerationTypeOK
<1>5. WithinLimit'
  BY <1>1, <1>3 DEF WithinLimit, LimitKnown, GenerationTypeOK
<1>6. ToolsAccounted'
  BY <1>1, <1>3 DEF ToolsAccounted, Kind, GenerationTypeOK
<1>7. CompletedLast'
  BY <1>1, <1>3 DEF CompletedLast, Kind, Over
<1>8. Stopped'
  <2>1. stoppedAt > 0 => Kind(stoppedAt) = "tool"
    BY <1>1 DEF Stopped
  <2>2. step' = "marker" => state' # "toolCall"
    BY <1>1 DEF GenerationTypeOK
  <2>3. QED
    BY <1>1, <1>3, <2>1, <2>2 DEF Stopped, Kind
<1>9. QED
  BY <1>4, <1>5, <1>6, <1>7, <1>8

\* The COMPLETED delta ends the loop.
LEMMA CompletedStep ==
  ASSUME GenerationAssumption, GenerationInv, Complete \/ SpeechComplete
  PROVE  GenerationInv'
<1> USE DEF GenerationInv, GenerationAssumption
<1>1. /\ UNCHANGED <<hasTools, maxOutput, maxLength, state, preTool, toolBuffer, toolCalls,
                     produced, cancelled>>
      /\ step = "complete" /\ Over'
      /\ step' \in {"returned", "threw"}
  BY DEF Complete, SpeechComplete, streamVars, Over
<1>2. PICK stop \in BOOLEAN : EmitDelta("completed", <<>>, stop)
  BY DEF Complete, SpeechComplete
<1>3. /\ finish' \in {"cancelled", "tool_calls", "length", "stop"}
      /\ finish = "cancelled" => finish' = "cancelled"
      /\ finish' = "length" => LimitReached
      /\ finish' \in {"length", "stop"} => toolCalls = <<>>
      /\ state = "speech" /\ cancelled => finish' = "cancelled"
  <2>1. CASE Complete
    <3>1. finish' = FinishReason /\ state # "speech"
      BY <2>1 DEF Complete
    <3>2. finish \in {"none", "cancelled"}
      BY <1>1 DEF Stopped, Over
    <3>3. QED
      BY <3>1, <3>2 DEF FinishReason
  <2>2. CASE SpeechComplete
    <3>1. state = "speech" /\ finish' = (IF cancelled THEN "cancelled" ELSE "stop")
      BY <2>2 DEF SpeechComplete
    <3>2. finish = "cancelled" => cancelled
      BY <1>1 DEF Stopped, Over
    <3>3. QED
      BY <3>1, <3>2 DEF ToolsAccounted
  <2>3. QED
    BY <2>1, <2>2
<1>4. ~Over /\ stoppedAt \in Nat
  BY <1>1 DEF Stopped, Over, GenerationTypeOK
<1>5. <<>> \in Seq(Nat) /\ "completed" \in Kinds
  BY DEF Kinds
<1>6. /\ deltas' \in Deltas /\ stoppedAt' \in Nat /\ asked' \in BOOLEAN
      /\ toolCalls' = <<>> => \A i \in 1..Len(deltas') : deltas'[i].kind # "tool"
      /\ CompletedLast'
      /\ stoppedAt' > 0 /\ stoppedAt = 0 =>
           asked' /\ stoppedAt' = Len(deltas') /\ deltas'[stoppedAt'].kind = "completed"
      /\ stoppedAt > 0 =>
           /\ asked' /\ stoppedAt' = stoppedAt /\ stoppedAt' <= Len(deltas')
           /\ deltas'[stoppedAt].kind = deltas[stoppedAt].kind
           /\ \A i \in (stoppedAt + 1)..Len(deltas') :
                \/ deltas'[i].kind = "completed"
                \/ deltas'[i].kind = "tool" /\ deltas'[stoppedAt].kind = "tool"
  BY <1>1, <1>2, <1>4, <1>5, OneMore
<1>7. GenerationTypeOK'
  BY <1>1, <1>3, <1>6 DEF GenerationTypeOK, Deltas, Kinds
<1>8. WithinLimit'
  BY <1>1, <1>3 DEF WithinLimit, LimitReached, LimitKnown, GenerationTypeOK
<1>9. ToolsAccounted'
  BY <1>1, <1>3, <1>6 DEF ToolsAccounted, Kind
<1>10. Stopped'
  <2>1. stoppedAt > 0 => \/ finish' = "cancelled"
                         \/ deltas[stoppedAt].kind \in {"tool", "completed"}
                         \/ state' = "toolCall"
    BY <1>1, <1>3 DEF Stopped, Kind
  <2>2. Len(deltas') \in Nat
    BY <1>6 DEF Deltas
  <2>3. stoppedAt' > 0 =>
          /\ asked' /\ stoppedAt' <= Len(deltas')
          /\ \A i \in (stoppedAt' + 1)..Len(deltas') :
               \/ deltas'[i].kind = "completed"
               \/ deltas'[i].kind = "tool" /\ deltas'[stoppedAt'].kind = "tool"
          /\ \/ finish' = "cancelled" \/ deltas'[stoppedAt'].kind \in {"tool", "completed"}
             \/ state' = "toolCall"
    <3>1. CASE stoppedAt = 0
      BY <1>6, <2>2, <3>1
    <3>2. CASE stoppedAt > 0
      BY <1>6, <2>1, <3>2
    <3>3. QED
      BY <3>1, <3>2, <1>4
  <2>4. QED
    BY <1>1, <2>3 DEF Stopped, Over, Kind
<1>11. QED
  BY <1>6, <1>7, <1>8, <1>9, <1>10

\* The flush of an unterminated tool call, whose answer is not looked at either.
LEMMA FlushStep ==
  ASSUME GenerationAssumption, GenerationInv, Flush
  PROVE  GenerationInv'
<1> USE DEF GenerationInv, GenerationAssumption
<1>1. /\ UNCHANGED <<hasTools, maxOutput, maxLength, state, preTool, toolCalls, produced,
                     cancelled, finish>>
      /\ step = "flush" /\ step' = "complete" /\ state # "speech"
  BY DEF Flush
<1>2. /\ ~Over /\ ~Over' /\ finish \in {"none", "cancelled"}
      /\ finish = "cancelled" => cancelled
  BY <1>1 DEF Stopped, Over
<1>3. WithinLimit'
  BY <1>1, <1>2 DEF WithinLimit, LimitKnown
<1>4. CASE ~cancelled /\ state = "toolCall" /\ toolBuffer # <<>>
  <2>1. toolBuffer' = <<>> /\ \E stop \in BOOLEAN : EmitDelta("text", toolBuffer, stop)
    BY <1>4 DEF Flush
  <2>2. PICK stop \in BOOLEAN : EmitDelta("text", toolBuffer, stop)
    BY <2>1
  <2>3. toolBuffer \in Seq(Nat) /\ <<>> \in Seq(Nat) /\ "text" \in Kinds
    BY DEF GenerationTypeOK, Kinds
  <2>4. stoppedAt = 0 /\ asked \in BOOLEAN
    BY <1>1, <1>4 DEF Stopped, GenerationTypeOK
  <2>5. /\ deltas' \in Deltas /\ stoppedAt' \in Nat /\ asked' \in BOOLEAN
        /\ toolCalls' = <<>> => \A i \in 1..Len(deltas') : deltas'[i].kind # "tool"
        /\ CompletedLast'
        /\ stoppedAt' > 0 => asked' /\ stoppedAt' = Len(deltas')
    BY <1>1, <1>2, <2>2, <2>3, <2>4, OneMore
  <2>6. stoppedAt' > 0 => \A i \in (stoppedAt' + 1)..Len(deltas') : FALSE
    BY <2>5, NoneAfter DEF Deltas
  <2>7. GenerationTypeOK'
    BY <1>1, <1>4, <2>1, <2>3, <2>5 DEF GenerationTypeOK, Deltas, Kinds
  <2>8. ToolsAccounted'
    BY <1>1, <1>2, <2>5 DEF ToolsAccounted, Kind
  <2>9. Stopped'
    <3>1. step' = "complete" /\ state' = "toolCall" /\ ~cancelled' /\ finish' \in {"none", "cancelled"}
          /\ ~(finish' = "cancelled")
      BY <1>1, <1>2, <1>4
    <3>2. stoppedAt' > 0 => asked' /\ stoppedAt' = Len(deltas') /\ stoppedAt' <= Len(deltas')
      BY <2>5
    <3>3. QED
      BY <3>1, <3>2, <2>6 DEF Stopped
  <2>10. QED
    BY <1>3, <2>5, <2>7, <2>8, <2>9
<1>5. CASE ~(~cancelled /\ state = "toolCall" /\ toolBuffer # <<>>)
  <2>1. UNCHANGED <<toolBuffer, asked, stoppedAt, deltas>>
    BY <1>5 DEF Flush
  <2>2. GenerationTypeOK'
    BY <1>1, <2>1 DEF GenerationTypeOK
  <2>3. ToolsAccounted'
    BY <1>1, <2>1 DEF ToolsAccounted, Kind
  <2>4. CompletedLast'
    BY <1>1, <1>2, <2>1 DEF CompletedLast, Kind
  <2>5. Stopped'
    BY <1>1, <1>2, <2>1 DEF Stopped, Kind, Over
  <2>6. QED
    BY <1>3, <2>2, <2>3, <2>4, <2>5
<1>6. QED
  BY <1>4, <1>5

\* Every step of the loop keeps the invariant.
LEMMA GenerationStep ==
  ASSUME GenerationAssumption, GenerationInv, GenerationNext
  PROVE  GenerationInv'
BY SilentStep, SilentToken, SpokenToken, ParsedStep, ArrayStep, CompletedStep, FlushStep
   DEF GenerationNext

\* The loop begins in its invariant.
LEMMA GenerationBegins ==
  ASSUME GenerationAssumption, GenerationInit
  PROVE  GenerationInv
<1> USE DEF GenerationInit, GenerationAssumption
<1>1. GenerationTypeOK
  <2>1. <<>> \in Seq(Nat) /\ <<>> \in Seq(Seq(Nat))
        /\ <<>> \in Seq([kind : {"text", "reasoning", "tool", "completed"}, of : Seq(Nat)])
    OBVIOUS
  <2>2. maxOutput \in Nat /\ maxLength \in Nat
    <3>1. CASE maxOutput = 0
      BY <3>1
    <3>2. CASE maxOutput \in 1..MaxTokens
      BY <3>2
    <3>3. QED
      BY <3>1, <3>2
  <2>3. QED
    BY <2>1, <2>2 DEF GenerationTypeOK
<1>2. Len(deltas) = 0
  OBVIOUS
<1>3. WithinLimit /\ ToolsAccounted /\ CompletedLast /\ Stopped
  BY <1>2 DEF WithinLimit, ToolsAccounted, CompletedLast, Stopped, Over
<1>4. QED
  BY <1>1, <1>3 DEF GenerationInv

\* Under the invariant the generation ends as the property says.
LEMMA InvariantHeeds ==
  ASSUME GenerationInv
  PROVE  StopIsHeeded
<1> USE DEF GenerationInv
<1>1. PICK last \in Nat : last = Len(deltas)
  BY DEF GenerationTypeOK
<1>2. step = "returned" => last > 0 /\ Kind(last) = "completed"
  BY <1>1 DEF CompletedLast
<1>3. \A i \in 1..(last - 1) : Kind(i) # "completed"
  BY <1>1 DEF CompletedLast
<1>4. stoppedAt > 0 =>
        /\ step # "token"
        /\ \A i \in (stoppedAt + 1)..last :
             Kind(i) = "completed" \/ (Kind(i) = "tool" /\ Kind(stoppedAt) = "tool")
  BY <1>1 DEF Stopped
<1>5. stoppedAt > 0 => \/ finish \in {"none", "cancelled"}
                       \/ Kind(stoppedAt) \in {"tool", "completed"} \/ state = "toolCall"
  BY DEF Stopped
<1>6. finish = "length" /\ LimitKnown => produced = maxOutput
  BY DEF WithinLimit, LimitKnown
<1>7. finish \in {"length", "stop"} => \A i \in 1..last : Kind(i) # "tool"
  BY <1>1 DEF ToolsAccounted
<1>8. QED
  BY <1>1, <1>2, <1>3, <1>4, <1>5, <1>6, <1>7 DEF StopIsHeeded

\* The inductive invariant of the token loop: what the callback was told, what it answered
\* and whether the loop has looked at the answer (Session::Generate).
THEOREM LoopInvariance == Spec => []GenerationInv
<1>1. Init => GenerationInv
  BY GenerationBegins, GenerationAssumption DEF Init
<1>2. ASSUME GenerationInv, [Next]_vars
      PROVE  GenerationInv'
  <2>1. CASE GenerationNext
    BY <1>2, <2>1, GenerationStep, GenerationAssumption
  <2>2. CASE UNCHANGED generationVars
    BY <1>2, <2>2 DEF generationVars, streamVars, GenerationInv, GenerationTypeOK, WithinLimit,
        LimitKnown,
       ToolsAccounted, CompletedLast, Stopped, Kind, Over
  <2>3. QED
    BY <1>2, <2>1, <2>2 DEF Next, vars
<1>3. QED
  BY <1>1, <1>2, PTL DEF Spec

\* After a callback stops a generation no token is asked of the model any more, and it hears
\* nothing but COMPLETED and the rest of the array of tool calls at which it stopped; the
\* reason says so unless its answer was not looked at, and "length" is said only at the
\* limit and without tool calls: for every limit and every sequence of tokens
\* (Session::Generate, ParseAndEmitToolCalls, Session::TranscribeBatch).
THEOREM StopsAreHeeded == Spec => []StopIsHeeded
<1>1. GenerationInv => StopIsHeeded
  BY InvariantHeeds
<1>2. QED
  BY <1>1, LoopInvariance, PTL

-----------------------------------------------------------------------------
(* The steps of the loop, for the tokens.                                  *)

\* What is said of each kind is a sequence of tokens, and what a delta adds to it.
LEMMA DeltaSent ==
  ASSUME GenerationTypeOK
  PROVE  /\ deltas \in Seq(Delta)
         /\ Of("text") \in Seq(Nat) /\ Of("reasoning") \in Seq(Nat) /\ Of("tool") \in Seq(Nat)
         /\ \A d \in Delta : deltas' = Append(deltas, d) =>
              /\ Of("text")' = IF d.kind = "text" THEN Of("text") \o d.of ELSE Of("text")
              /\ Of("reasoning")' = IF d.kind = "reasoning" THEN Of("reasoning") \o d.of
                                    ELSE Of("reasoning")
              /\ Of("tool")' = IF d.kind = "tool" THEN Of("tool") \o d.of ELSE Of("tool")
         /\ deltas' = deltas => /\ Of("text")' = Of("text") /\ Of("reasoning")' = Of("reasoning")
                                /\ Of("tool")' = Of("tool")
<1>1. deltas \in Seq(Delta)
  BY DEF GenerationTypeOK, Delta
<1>2. PICK d0 \in Delta : TRUE
  <2>1. <<>> \in Seq(Nat)
    OBVIOUS
  <2>2. [kind |-> "text", of |-> <<>>] \in Delta
    BY <2>1 DEF Delta
  <2>3. QED
    BY <2>2
<1>3. Said(deltas, "text") \in Seq(Nat) /\ Said(deltas, "reasoning") \in Seq(Nat)
      /\ Said(deltas, "tool") \in Seq(Nat)
  BY <1>1, <1>2, SaidMore
<1>4. ASSUME NEW d \in Delta, deltas' = Append(deltas, d)
      PROVE  /\ Said(deltas', "text") = IF d.kind = "text" THEN Said(deltas, "text") \o d.of
                                        ELSE Said(deltas, "text")
             /\ Said(deltas', "reasoning") = IF d.kind = "reasoning"
                                             THEN Said(deltas, "reasoning") \o d.of
                                             ELSE Said(deltas, "reasoning")
             /\ Said(deltas', "tool") = IF d.kind = "tool" THEN Said(deltas, "tool") \o d.of
                                        ELSE Said(deltas, "tool")
  BY <1>1, <1>4, SaidMore
<1>5. \A kind : Of(kind) = Said(deltas, kind) /\ Of(kind)' = Said(deltas', kind)
  BY DEF Of, Said
<1>6. QED
  BY <1>1, <1>3, <1>4, <1>5, Zenon

\* A step that sends nothing of a token, and takes none.
LEMMA TokensKept ==
  ASSUME GenerationTypeOK, OutputInv,
         Of("text")' = Of("text"), Of("reasoning")' = Of("reasoning"), Of("tool")' = Of("tool"),
         UNCHANGED <<fullText, visible, dropped, toolBuffer>>,
         produced' = produced \/ produced' = produced + 1,
         TextSent(Of("text"))', Buffered'
  PROVE  OutputInv'
<1>1. InOrder(Of("text"), Of("reasoning"), Of("tool"), toolBuffer, produced')
  <2>1. /\ Of("text") \in Seq(Nat) /\ Of("reasoning") \in Seq(Nat) /\ Of("tool") \in Seq(Nat)
        /\ toolBuffer \in Seq(Nat) /\ produced \in Nat
    BY DeltaSent DEF GenerationTypeOK
  <2>2. InOrder(Of("text"), Of("reasoning"), Of("tool"), toolBuffer, produced)
    BY DEF OutputInv
  <2>3. InOrder(Of("text"), Of("reasoning"), Of("tool"), toolBuffer, produced + 1)
    BY <2>1, <2>2, OrderToken
  <2>4. QED
    BY <2>2, <2>3, Zenon
<1>2. InOrder(Of("text"), Of("reasoning"), Of("tool"), toolBuffer, produced)'
  BY <1>1 DEF InOrder
<1>3. AllSomewhere(Of("text"), Of("reasoning"), Of("tool"), dropped, toolBuffer, visible)'
  BY DEF OutputInv, AllSomewhere
<1>4. QED
  BY <1>2, <1>3 DEF OutputInv

\* Most steps send no delta and take no token.
QuietStep ==
  \/ CancelGeneration \/ SpeechSetup \/ LoopEnds \/ LoopCancelled \/ SessionTerminated
  \/ LoopGoesOn \/ GenerationFails \/ ReasoningBegins \/ ReasoningEnds \/ ToolCallBegins
  \/ EmptyToken \/ ToolCallThrows \/ ArrayEnds \/ MarkerDecoded

\* They keep what was said of every token.
LEMMA QuietKeepsTokens ==
  ASSUME GenerationTypeOK, OutputInv, QuietStep
  PROVE  OutputInv'
<1> DEFINE Early == {"setup", "head", "token", "array", "marker"}
<1>1. toolBuffer # <<>> => state = "toolCall"
  BY DEF OutputInv, Buffered
<1>2. /\ UNCHANGED <<deltas, fullText, visible, dropped, toolBuffer>>
      /\ produced' = produced \/ produced' = produced + 1
      /\ toolBuffer # <<>> => state' = state
      /\ \/ step' = step /\ cancelled' = cancelled /\ state' = state
         \/ step \in Early /\ step' \notin {"complete", "returned"}
  <2>1. CASE \/ CancelGeneration \/ SpeechSetup \/ LoopEnds \/ LoopCancelled
             \/ SessionTerminated \/ LoopGoesOn
    BY <2>1 DEF CancelGeneration, SpeechSetup, LoopEnds, LoopCancelled, SessionTerminated,
                LoopGoesOn, streamVars
  <2>2. CASE GenerationFails \/ ToolCallThrows \/ ArrayEnds \/ MarkerDecoded
    BY <2>2 DEF GenerationFails, ToolCallThrows, ArrayEnds, Closes, MarkerDecoded, streamVars
  <2>3. CASE ReasoningBegins \/ ReasoningEnds \/ EmptyToken
    BY <1>1, <2>3 DEF ReasoningBegins, ReasoningEnds, EmptyToken, Quiet
  <2>4. CASE ToolCallBegins
    BY <1>1, <2>4 DEF ToolCallBegins, Quiet
  <2>5. QED
    BY <2>1, <2>2, <2>3, <2>4 DEF QuietStep
<1>3. /\ Of("text")' = Of("text") /\ Of("reasoning")' = Of("reasoning")
      /\ Of("tool")' = Of("tool")
  BY <1>2, DeltaSent
<1>4. TextSent(Of("text"))'
  <2>1. TextSent(Of("text"))
    BY DEF OutputInv
  <2>2. QED
    BY <1>2, <1>3, <2>1 DEF TextSent
<1>5. Buffered'
  BY <1>1, <1>2 DEF OutputInv, Buffered
<1>6. QED
  BY <1>2, <1>3, <1>4, <1>5, TokensKept

\* The end of a generation says nothing of a token.
LEMMA EndKeepsTokens ==
  ASSUME GenerationTypeOK, OutputInv, Complete \/ SpeechComplete
  PROVE  OutputInv'
<1>1. <<>> \in Seq(Nat)
  OBVIOUS
<1>2. PICK d \in Delta : d = [kind |-> "completed", of |-> <<>>]
  BY <1>1 DEF Delta
<1>3. /\ deltas' = Append(deltas, d)
      /\ UNCHANGED <<fullText, visible, dropped, toolBuffer, produced, state, cancelled>>
      /\ step = "complete" /\ step' \in {"threw", "returned"}
  BY <1>2 DEF Complete, SpeechComplete, EmitDelta, streamVars
<1>4. /\ Of("text")' = Of("text") /\ Of("reasoning")' = Of("reasoning")
      /\ Of("tool")' = Of("tool")
  <2>1. d.kind = "completed"
    BY <1>2
  <2>2. d.kind # "text" /\ d.kind # "reasoning" /\ d.kind # "tool"
    BY <2>1
  <2>3. QED
    BY <1>3, <2>2, DeltaSent, Zenon
<1>5. TextSent(Of("text"))'
  BY <1>3, <1>4 DEF OutputInv, TextSent
<1>6. Buffered'
  BY <1>3 DEF OutputInv, Buffered
<1>7. QED
  BY <1>3, <1>4, <1>5, <1>6, TokensKept

\* The text that is decoded from a whole transcription.
LEMMA WholeTextKeepsTokens ==
  ASSUME GenerationTypeOK, OutputInv, SpeechText
  PROVE  OutputInv'
<1>1. /\ UNCHANGED <<deltas, visible, dropped, toolBuffer, produced, state, cancelled>>
      /\ step = "flush" /\ step' = "complete" /\ state = "speech"
      /\ fullText' # fullText => fullText = <<>> /\ fullText' = Whole
  BY DEF SpeechText
<1>2. toolBuffer = <<>>
  BY <1>1 DEF OutputInv, Buffered
<1>3. /\ Of("text")' = Of("text") /\ Of("reasoning")' = Of("reasoning")
      /\ Of("tool")' = Of("tool")
  BY <1>1, DeltaSent
<1>4. Of("text") = fullText
  BY <1>1 DEF OutputInv, TextSent
<1>5. TextSent(Of("text"))'
  BY <1>1, <1>3, <1>4 DEF TextSent
<1>6. Buffered'
  BY <1>1, <1>2 DEF Buffered
<1>7. fullText' \in Seq(Nat)
  <2>1. Whole \in Seq(Nat)
    BY DEF Whole
  <2>2. fullText \in Seq(Nat)
    BY DEF OutputInv
  <2>3. QED
    BY <1>1, <2>1, <2>2, Zenon
<1>8. InOrder(Of("text"), Of("reasoning"), Of("tool"), toolBuffer, produced)'
  BY <1>1, <1>3 DEF OutputInv, InOrder
<1>9. AllSomewhere(Of("text"), Of("reasoning"), Of("tool"), dropped, toolBuffer, visible)'
  BY <1>1, <1>3 DEF OutputInv, AllSomewhere
<1>10. QED
  BY <1>1, <1>5, <1>6, <1>7, <1>8, <1>9 DEF OutputInv

\* Facts that every step needs of the tokens so far.
LEMMA TokensNow ==
  ASSUME GenerationTypeOK, OutputInv
  PROVE  /\ Of("text") \in Seq(Nat) /\ Of("reasoning") \in Seq(Nat) /\ Of("tool") \in Seq(Nat)
         /\ toolBuffer \in Seq(Nat) /\ visible \in Seq(Nat) /\ dropped \in Seq(Nat)
         /\ fullText \in Seq(Nat) /\ produced \in Nat /\ <<produced + 1>> \in Seq(Nat)
         /\ InOrder(Of("text"), Of("reasoning"), Of("tool"), toolBuffer, produced)
         /\ AllSomewhere(Of("text"), Of("reasoning"), Of("tool"), dropped, toolBuffer, visible)
         /\ toolBuffer # <<>> => state = "toolCall"
<1>1. produced \in Nat
  BY DEF GenerationTypeOK
<1>2. <<produced + 1>> \in Seq(Nat)
  BY <1>1
<1>3. QED
  BY <1>1, <1>2, DeltaSent DEF GenerationTypeOK, OutputInv, Buffered

\* A token that is text, or spoken.
LEMMA TextKeepsTokens ==
  ASSUME GenerationTypeOK, OutputInv, TextToken \/ SpeechToken
  PROVE  OutputInv'
<1>1. PICK one \in Seq(Nat) : one = <<produced + 1>> /\ produced + 1 \in Nat
  <2>1. produced \in Nat
    BY DEF GenerationTypeOK
  <2>2. produced + 1 \in Nat
    BY <2>1
  <2>3. <<produced + 1>> \in Seq(Nat)
    BY <2>2
  <2>4. QED
    BY <2>2, <2>3, Zenon
<1>2. PICK d : /\ d = [kind |-> "text", of |-> one] /\ d \in Delta
               /\ d.kind = "text" /\ d.of = one
  <2>1. [kind |-> "text", of |-> one] \in Delta
    BY DEF Delta
  <2>2. QED
    BY <2>1
<1>3. /\ deltas' = Append(deltas, d) /\ produced' = produced + 1
      /\ visible' = Append(visible, produced + 1) /\ fullText' = Append(fullText, produced + 1)
      /\ UNCHANGED <<dropped, toolBuffer, state>>
      /\ state # "toolCall" /\ step = "token" /\ step' \in {"flush", "head"}
  BY <1>1, <1>2 DEF TextToken, SpeechToken, Decoded, EmitDelta, Onward
<1>4. visible' = visible \o one /\ fullText' = fullText \o one
  BY <1>1, <1>3, TokensNow, AppendIsConcat
<1>5. /\ Of("text")' = Of("text") \o one
      /\ Of("reasoning")' = Of("reasoning") /\ Of("tool")' = Of("tool")
  BY <1>2, <1>3, DeltaSent
<1>6. toolBuffer = <<>>
  BY <1>3, TokensNow
<1>7. InOrder(Of("text") \o one, Of("reasoning"), Of("tool"), toolBuffer, produced + 1)
  BY <1>1, <1>6, TokensNow, OrderToken
<1>8. AllSomewhere(Of("text") \o one, Of("reasoning"), Of("tool"), dropped, toolBuffer,
                   visible \o one)
  BY <1>1, TokensNow, TokenSomewhere
<1>9. TextSent(Of("text"))'
  <2>1. Of("text") = fullText
    BY <1>3 DEF OutputInv, TextSent
  <2>2. QED
    BY <1>4, <1>5, <2>1 DEF TextSent
<1>10. Buffered'
  BY <1>3, <1>6 DEF Buffered
<1>11. visible' \in Seq(Nat) /\ fullText' \in Seq(Nat) /\ dropped' \in Seq(Nat)
  BY <1>3, <1>4, TokensNow, ConcatProperties
<1>12. InOrder(Of("text"), Of("reasoning"), Of("tool"), toolBuffer, produced)'
  BY <1>3, <1>5, <1>7 DEF InOrder
<1>13. AllSomewhere(Of("text"), Of("reasoning"), Of("tool"), dropped, toolBuffer, visible)'
  BY <1>3, <1>4, <1>5, <1>8 DEF AllSomewhere
<1>14. QED
  BY <1>9, <1>10, <1>11, <1>12, <1>13 DEF OutputInv

\* A token that is reasoning, or buffered.
LEMMA OtherTokensKept ==
  ASSUME GenerationTypeOK, OutputInv, ReasoningToken \/ ToolToken
  PROVE  OutputInv'
<1>1. PICK one \in Seq(Nat) : one = <<produced + 1>> /\ produced + 1 \in Nat
  <2>1. produced \in Nat
    BY DEF GenerationTypeOK
  <2>2. produced + 1 \in Nat
    BY <2>1
  <2>3. <<produced + 1>> \in Seq(Nat)
    BY <2>2
  <2>4. QED
    BY <2>2, <2>3, Zenon
<1>2. /\ produced' = produced + 1 /\ visible' = Append(visible, produced + 1)
      /\ UNCHANGED <<dropped, fullText, state>>
      /\ step = "token" /\ step' \in {"flush", "head"}
  BY DEF ReasoningToken, ToolToken, Decoded, Onward
<1>3. visible' = visible \o one
  BY <1>1, <1>2, TokensNow, AppendIsConcat
<1>4. TextSent(Of("text"))' <=> Of("text")' = fullText
  BY <1>2 DEF TextSent
<1>5. Of("text") = fullText
  BY <1>2 DEF OutputInv, TextSent
<1>6. visible' \in Seq(Nat) /\ fullText' \in Seq(Nat) /\ dropped' \in Seq(Nat)
  BY <1>2, <1>3, TokensNow, ConcatProperties
<1>7. CASE ReasoningToken
  <2>1. PICK d : /\ d = [kind |-> "reasoning", of |-> one] /\ d \in Delta
                 /\ d.kind = "reasoning" /\ d.of = one
    <3>1. [kind |-> "reasoning", of |-> one] \in Delta
      BY DEF Delta
    <3>2. QED
      BY <3>1
  <2>2. deltas' = Append(deltas, d) /\ toolBuffer' = toolBuffer /\ state = "reasoning"
    BY <1>1, <1>7, <2>1 DEF ReasoningToken, EmitDelta
  <2>3. /\ Of("reasoning")' = Of("reasoning") \o one
        /\ Of("text")' = Of("text") /\ Of("tool")' = Of("tool")
    BY <2>1, <2>2, DeltaSent
  <2>4. InOrder(Of("text"), Of("reasoning") \o one, Of("tool"), toolBuffer, produced + 1)
    BY <1>1, TokensNow, OrderToken
  <2>5. AllSomewhere(Of("text"), Of("reasoning") \o one, Of("tool"), dropped, toolBuffer,
                     visible \o one)
    BY <1>1, TokensNow, TokenSomewhere
  <2>6. InOrder(Of("text"), Of("reasoning"), Of("tool"), toolBuffer, produced)'
    BY <1>2, <2>2, <2>3, <2>4 DEF InOrder
  <2>7. AllSomewhere(Of("text"), Of("reasoning"), Of("tool"), dropped, toolBuffer, visible)'
    BY <1>2, <1>3, <2>2, <2>3, <2>5 DEF AllSomewhere
  <2>8. Buffered'
    BY <1>2, <2>2 DEF OutputInv, Buffered
  <2>9. QED
    BY <1>4, <1>5, <1>6, <2>3, <2>6, <2>7, <2>8 DEF OutputInv
<1>8. CASE ToolToken
  <2>1. /\ deltas' = deltas /\ toolBuffer' = Append(toolBuffer, produced + 1)
        /\ state = "toolCall"
    BY <1>8 DEF ToolToken
  <2>2. toolBuffer' = toolBuffer \o one
    BY <1>1, <2>1, TokensNow, AppendIsConcat
  <2>3. /\ Of("text")' = Of("text") /\ Of("reasoning")' = Of("reasoning")
        /\ Of("tool")' = Of("tool")
    BY <2>1, DeltaSent
  <2>4. InOrder(Of("text"), Of("reasoning"), Of("tool"), toolBuffer \o one, produced + 1)
    BY <1>1, TokensNow, OrderToken
  <2>5. AllSomewhere(Of("text"), Of("reasoning"), Of("tool"), dropped, toolBuffer \o one,
                     visible \o one)
    BY <1>1, TokensNow, TokenSomewhere
  <2>6. InOrder(Of("text"), Of("reasoning"), Of("tool"), toolBuffer, produced)'
    BY <1>2, <2>2, <2>3, <2>4 DEF InOrder
  <2>7. AllSomewhere(Of("text"), Of("reasoning"), Of("tool"), dropped, toolBuffer, visible)'
    BY <1>2, <1>3, <2>2, <2>3, <2>5 DEF AllSomewhere
  <2>8. Buffered'
    BY <1>2, <2>1 DEF Buffered
  <2>9. QED
    BY <1>4, <1>5, <1>6, <2>3, <2>6, <2>7, <2>8 DEF OutputInv
<1>9. QED
  BY <1>7, <1>8

\* A buffer that is text after all: of a malformed call, or of one that did not end.
LEMMA BufferToText ==
  ASSUME GenerationTypeOK, OutputInv,
         deltas' = Append(deltas, [kind |-> "text", of |-> toolBuffer]),
         fullText' = fullText \o toolBuffer, toolBuffer' = <<>>,
         UNCHANGED <<visible, dropped>>,
         produced' = produced \/ produced' = produced + 1,
         step \in {"token", "flush"}
  PROVE  OutputInv'
<1>1. PICK open \in Seq(Nat) : open = toolBuffer
  BY TokensNow
<1>2. PICK d : /\ d = [kind |-> "text", of |-> open] /\ d \in Delta
               /\ d.kind = "text" /\ d.of = open
  <2>1. [kind |-> "text", of |-> open] \in Delta
    BY DEF Delta
  <2>2. QED
    BY <2>1
<1>3. /\ Of("text")' = Of("text") \o open
      /\ Of("reasoning")' = Of("reasoning") /\ Of("tool")' = Of("tool")
  BY <1>1, <1>2, DeltaSent
<1>4. <<>> \in Seq(Nat) /\ open = open \o <<>>
  BY ConcatEmptySeq
<1>5. AllSomewhere(Of("text") \o open, Of("reasoning"), Of("tool"), dropped, <<>>, visible)
  <2>1. AllSomewhere(Of("text"), Of("reasoning"), Of("tool"), dropped, open \o <<>>, visible)
    BY <1>1, <1>4, TokensNow
  <2>2. AllSomewhere(Of("text") \o (open \o <<>>), Of("reasoning"), Of("tool"), dropped, <<>>,
                     visible)
    BY <1>4, <2>1, TokensNow, BufferSomewhere
  <2>3. QED
    BY <1>4, <2>2
<1>6. InOrder(Of("text") \o open, Of("reasoning"), Of("tool"), <<>>, produced')
  <2>1. InOrder(Of("text") \o open, Of("reasoning"), Of("tool"), <<>>, produced)
    BY <1>1, TokensNow, OrderFlushed
  <2>2. Of("text") \o open \in Seq(Nat)
    BY TokensNow, ConcatProperties
  <2>3. InOrder(Of("text") \o open, Of("reasoning"), Of("tool"), <<>>, produced + 1)
    BY <1>4, <2>1, <2>2, TokensNow, OrderToken
  <2>4. QED
    BY <2>1, <2>3, Zenon
<1>7. Of("text") = fullText
  BY DEF OutputInv, TextSent
<1>8. TextSent(Of("text"))'
  BY <1>1, <1>3, <1>7 DEF TextSent
<1>9. InOrder(Of("text"), Of("reasoning"), Of("tool"), toolBuffer, produced)'
  BY <1>3, <1>6 DEF InOrder
<1>10. AllSomewhere(Of("text"), Of("reasoning"), Of("tool"), dropped, toolBuffer, visible)'
  BY <1>3, <1>5 DEF AllSomewhere
<1>11. Buffered'
  BY DEF Buffered
<1>12. visible' \in Seq(Nat) /\ dropped' \in Seq(Nat) /\ fullText' \in Seq(Nat)
  BY <1>1, TokensNow, ConcatProperties
<1>13. QED
  BY <1>8, <1>9, <1>10, <1>11, <1>12 DEF OutputInv

\* The malformed call, and the end of the loop.
LEMMA FlushKeepsTokens ==
  ASSUME GenerationTypeOK, OutputInv, ToolCallMalformed \/ Flush
  PROVE  OutputInv'
<1>1. CASE ToolCallMalformed
  BY <1>1, BufferToText DEF ToolCallMalformed, Closes, EmitDelta
<1>2. CASE Flush
  <2>1. /\ UNCHANGED <<visible, dropped, produced, state, cancelled>>
        /\ step = "flush" /\ step' = "complete"
    BY <1>2 DEF Flush
  <2>2. CASE ~cancelled /\ state = "toolCall" /\ toolBuffer # <<>>
    BY <1>2, <2>1, <2>2, BufferToText DEF Flush, EmitDelta
  <2>3. CASE ~(~cancelled /\ state = "toolCall" /\ toolBuffer # <<>>)
    <3>1. UNCHANGED <<fullText, toolBuffer, deltas>>
      BY <1>2, <2>3 DEF Flush
    <3>2. /\ Of("text")' = Of("text") /\ Of("reasoning")' = Of("reasoning")
          /\ Of("tool")' = Of("tool")
      BY <3>1, DeltaSent
    <3>3. TextSent(Of("text"))'
      BY <2>1, <3>1, <3>2 DEF OutputInv, TextSent
    <3>4. Buffered'
      BY <2>1, <2>3, <3>1 DEF OutputInv, Buffered
    <3>5. QED
      BY <2>1, <3>1, <3>2, <3>3, <3>4, TokensKept
  <2>4. QED
    BY <2>2, <2>3
<1>3. QED
  BY <1>1, <1>2

\* A call of what was buffered, or something beside the calls that is dropped.
LEMMA ItemKeepsTokens ==
  ASSUME GenerationTypeOK, OutputInv, ToolsAccounted, ToolCallParsed \/ NextItem
  PROVE  OutputInv'
<1>1. /\ UNCHANGED <<visible, fullText, state>> /\ step \in {"token", "array"} /\ step' = "array"
      /\ produced' = produced \/ produced' = produced + 1
      /\ state = "toolCall"
  BY DEF ToolCallParsed, NextItem, Closes, ToolsAccounted
<1>2. PICK n \in 1..Len(toolBuffer) :
        /\ toolBuffer' = SubSeq(toolBuffer, n + 1, Len(toolBuffer))
        /\ \/ /\ dropped' = dropped
              /\ \E stop \in BOOLEAN : EmitDelta("tool", SubSeq(toolBuffer, 1, n), stop)
           \/ dropped' = dropped \o SubSeq(toolBuffer, 1, n) /\ deltas' = deltas
  <2>1. DOMAIN toolBuffer = 1..Len(toolBuffer)
    BY DEF GenerationTypeOK
  <2>2. QED
    BY <2>1 DEF ToolCallParsed, NextItem, EmitCall
<1>3. PICK first, rest :
        first = SubSeq(toolBuffer, 1, n) /\ rest = SubSeq(toolBuffer, n + 1, Len(toolBuffer))
  OBVIOUS
<1>4. first \in Seq(Nat) /\ rest \in Seq(Nat) /\ first \o rest = toolBuffer
  <2>1. toolBuffer \in Seq(Nat)
    BY TokensNow
  <2>2. QED
    BY <1>3, <2>1, BeginningAndRest
<1>5. PICK lost \in Seq(Nat), called \in Seq(Nat) :
        /\ dropped' = lost /\ Of("tool")' = called
        /\ Of("text")' = Of("text") /\ Of("reasoning")' = Of("reasoning")
        /\ \/ lost = dropped /\ called = Of("tool") \o first
           \/ lost = dropped \o first /\ called = Of("tool")
  <2>1. Of("tool") \o first \in Seq(Nat) /\ dropped \o first \in Seq(Nat)
    BY <1>4, TokensNow, ConcatProperties
  <2>2. CASE dropped' = dropped /\ \E stop \in BOOLEAN : EmitDelta("tool", first, stop)
    <3>1. PICK d : d = [kind |-> "tool", of |-> first]
      OBVIOUS
    <3>2. d \in Delta /\ d.kind = "tool" /\ d.of = first
      BY ONLY <3>1, <1>4 DEF Delta
    <3>3. deltas' = Append(deltas, d)
      BY <2>2, <3>1 DEF EmitDelta
    <3>4. /\ Of("tool")' = Of("tool") \o first
          /\ Of("text")' = Of("text") /\ Of("reasoning")' = Of("reasoning")
      BY <3>2, <3>3, DeltaSent
    <3>5. QED
      BY <2>1, <2>2, <3>4, TokensNow
  <2>3. CASE dropped' = dropped \o first /\ deltas' = deltas
    BY <2>1, <2>3, DeltaSent, TokensNow
  <2>4. QED
    BY <1>2, <1>3, <2>2, <2>3
<1>6. /\ Of("text") \in Seq(Nat) /\ Of("reasoning") \in Seq(Nat) /\ Of("tool") \in Seq(Nat)
      /\ toolBuffer \in Seq(Nat) /\ dropped \in Seq(Nat) /\ visible \in Seq(Nat)
      /\ produced \in Nat
  BY TokensNow
<1>7. InOrder(Of("text"), Of("reasoning"), called, rest, produced')
  <2>1. InOrder(Of("text"), Of("reasoning"), Of("tool"), toolBuffer, produced)
    BY TokensNow
  <2>2. /\ InOrder(Of("text"), Of("reasoning"), Of("tool") \o first, rest, produced)
        /\ InOrder(Of("text"), Of("reasoning"), Of("tool"), rest, produced)
    BY ONLY <1>2, <1>3, <1>6, <2>1, OrderCalled
  <2>3. InOrder(Of("text"), Of("reasoning"), called, rest, produced)
    BY <1>5, <2>2, Zenon
  <2>4. InOrder(Of("text"), Of("reasoning"), called, rest, produced + 1)
    BY ONLY <1>4, <1>5, <1>6, <2>3, OrderToken
  <2>5. QED
    BY <1>1, <2>3, <2>4, Zenon
<1>8. AllSomewhere(Of("text"), Of("reasoning"), called, lost, rest, visible)
  <2>1. AllSomewhere(Of("text"), Of("reasoning"), Of("tool"), dropped, first \o rest, visible)
    BY <1>4, TokensNow
  <2>2. /\ AllSomewhere(Of("text"), Of("reasoning"), Of("tool") \o first, dropped, rest, visible)
        /\ AllSomewhere(Of("text"), Of("reasoning"), Of("tool"), dropped \o first, rest, visible)
    BY ONLY <1>4, <1>6, <2>1, BufferSomewhere
  <2>3. QED
    BY <1>5, <2>2, Zenon
<1>9. TextSent(Of("text"))'
  BY <1>1, <1>5 DEF OutputInv, TextSent
<1>10. Buffered'
  BY <1>1 DEF Buffered
<1>11. InOrder(Of("text"), Of("reasoning"), Of("tool"), toolBuffer, produced)'
  BY <1>2, <1>3, <1>5, <1>7 DEF InOrder
<1>12. AllSomewhere(Of("text"), Of("reasoning"), Of("tool"), dropped, toolBuffer, visible)'
  BY <1>1, <1>2, <1>3, <1>5, <1>8 DEF AllSomewhere
<1>13. visible' \in Seq(Nat) /\ dropped' \in Seq(Nat) /\ fullText' \in Seq(Nat)
  BY <1>1, <1>5, TokensNow
<1>14. QED
  BY <1>9, <1>10, <1>11, <1>12, <1>13 DEF OutputInv

\* Every step of the loop keeps the tokens.
LEMMA TokensStep ==
  ASSUME GenerationTypeOK, ToolsAccounted, OutputInv, GenerationNext
  PROVE  OutputInv'
BY QuietKeepsTokens, EndKeepsTokens, WholeTextKeepsTokens, TextKeepsTokens, OtherTokensKept,
   FlushKeepsTokens, ItemKeepsTokens DEF GenerationNext, QuietStep

\* The loop begins without any.
LEMMA TokensBegin ==
  ASSUME GenerationInit
  PROVE  OutputInv
<1>1. /\ deltas = <<>> /\ fullText = <<>> /\ visible = <<>> /\ dropped = <<>>
      /\ toolBuffer = <<>> /\ produced = 0 /\ step \notin {"complete", "returned"}
  BY DEF GenerationInit
<1>2. Of("text") = <<>> /\ Of("reasoning") = <<>> /\ Of("tool") = <<>>
  <2>1. Len(deltas) = 0
    BY <1>1
  <2>2. QED
    BY <2>1, JoinedOfNone DEF Of
<1>3. InOrder(<<>>, <<>>, <<>>, <<>>, 0)
  BY NoToken, OrderParts DEF Below, AllBefore
<1>4. AllSomewhere(<<>>, <<>>, <<>>, <<>>, <<>>, <<>>)
  BY NoToken, SomewhereParts
<1>5. <<>> \in Seq(Nat)
  OBVIOUS
<1>6. TextSent(Of("text")) /\ Buffered
  BY <1>1, <1>2 DEF TextSent, Buffered
<1>7. QED
  BY <1>1, <1>2, <1>3, <1>4, <1>5, <1>6 DEF OutputInv

\* The inductive invariant of what becomes of the tokens: what was said of each kind is in
\* order, and every token is in what was said, dropped, or still buffered
\* (Session::Generate, Session::TranscribeBatch).
THEOREM TokensInvariance == Spec => []OutputInv
<1>1. Init => OutputInv
  BY TokensBegin DEF Init
<1>2. ASSUME GenerationInv, OutputInv, [Next]_vars
      PROVE  OutputInv'
  <2>1. GenerationTypeOK /\ ToolsAccounted
    BY <1>2 DEF GenerationInv
  <2>2. CASE GenerationNext
    BY <1>2, <2>1, <2>2, TokensStep
  <2>3. CASE UNCHANGED generationVars
    <3>1. UNCHANGED <<deltas, fullText, visible, dropped, toolBuffer, produced, state, step,
                      cancelled>>
      BY <2>3 DEF generationVars, streamVars
    <3>2. /\ Of("text")' = Of("text") /\ Of("reasoning")' = Of("reasoning")
          /\ Of("tool")' = Of("tool")
      BY <2>1, <3>1, DeltaSent
    <3>3. TextSent(Of("text"))' /\ Buffered'
      BY <1>2, <3>1, <3>2 DEF OutputInv, TextSent, Buffered
    <3>4. QED
      BY <1>2, <2>1, <3>1, <3>2, <3>3, TokensKept
  <2>4. QED
    BY <1>2, <2>2, <2>3 DEF Next, vars
<1>3. QED
  BY <1>1, <1>2, LoopInvariance, PTL DEF Spec

\* Nothing the model said is lost, doubled or reordered on its way into the deltas and the
\* aggregate: for every limit and every sequence of tokens, however reasoning and tool calls
\* are nested, malformed or cut off (Session::Generate, ParseAndEmitToolCalls).
THEOREM OutputIsPreserved == Spec => []OutputPreserved
<1>1. OutputInv => OutputPreserved
  <2> SUFFICES ASSUME OutputInv, step = "returned", ~cancelled
               PROVE  OutputPreserved
    BY DEF OutputPreserved
  <2>1. toolBuffer = <<>>
    BY DEF OutputInv, Buffered
  <2>2. \/ Of("text") = fullText
        \/ state = "speech" /\ Of("text") = <<>> /\ fullText = Whole
    BY DEF OutputInv, TextSent
  <2>3. Ascending(Of("text")) /\ Ascending(Of("reasoning")) /\ Ascending(Of("tool"))
    BY DEF OutputInv, InOrder
  <2>4. /\ Len(Of("text")) + Len(Of("reasoning")) + Len(Of("tool")) + Len(dropped) + Len(<<>>)
             = Len(visible)
        /\ \A i \in DOMAIN visible :
             Somewhere(visible[i], Of("text"), Of("reasoning"), Of("tool"), dropped, <<>>)
    BY <2>1, SomewhereParts DEF OutputInv
  <2>5. Len(Of("text")) + Len(Of("reasoning")) + Len(Of("tool")) + Len(dropped) = Len(visible)
    <3>1. OutputInv /\ dropped \in Seq(Nat)
      BY DEF OutputInv
    <3>2. Len(<<>>) = 0
      OBVIOUS
    <3>3. QED
      BY <2>4, <3>1, <3>2
  <2>6. \A i \in DOMAIN visible :
          \E s \in {Of("text"), Of("reasoning"), Of("tool"), dropped} : Occurs(visible[i], s)
    BY <2>4, NoToken, Zenon DEF Somewhere
  <2>7. QED
    BY <2>2, <2>3, <2>5, <2>6 DEF OutputPreserved
<1>2. QED
  BY <1>1, TokensInvariance, PTL

-----------------------------------------------------------------------------
(* The embedding of a batch.                                               *)

\* The batch begins in its invariant.
LEMMA EmbeddingBegins ==
  ASSUME EmbeddingAssumption, EmbeddingInit
  PROVE  EmbeddingInv
<1>1. shapes \in Seq(Seq(Int)) /\ shapes # <<>>
  <2>1. ASSUME NEW S, NEW n \in Nat, NEW s \in BoundedSeq(S, n) PROVE s \in Seq(S)
    BY <2>1, SeqDef DEF BoundedSeq, SeqOf
  <2>2. BoundedSeq(Dimensions, MaxRank) \subseteq Seq(Int)
    <3>1. BoundedSeq(Dimensions, MaxRank) \subseteq Seq(Dimensions)
      BY <2>1 DEF EmbeddingAssumption
    <3>2. Seq(Dimensions) \subseteq Seq(Int)
      BY SeqMonotonic DEF EmbeddingAssumption
    <3>3. QED
      BY <3>1, <3>2
  <2>3. shapes \in Seq(BoundedSeq(Dimensions, MaxRank)) /\ shapes # <<>>
    BY <2>1 DEF EmbeddingInit, EmbeddingAssumption
  <2>4. Seq(BoundedSeq(Dimensions, MaxRank)) \subseteq Seq(Seq(Int))
    BY <2>2, SeqMonotonic
  <2>5. QED
    BY <2>3, <2>4
<1>2. Len(shapes) \in Nat /\ Len(shapes) > 0
  BY <1>1
<1>3. EmbeddingTypeOK
  BY <1>1, <1>2 DEF EmbeddingInit, EmbeddingTypeOK, EmbeddingAssumption
<1>4. ShapeRead /\ VectorsTaken
  BY <1>2 DEF EmbeddingInit, ShapeRead, VectorsTaken
<1>5. QED
  BY <1>3, <1>4 DEF EmbeddingInv

\* Cancelling, and the model's part of an input, leave the vectors alone.
LEMMA InputStep ==
  ASSUME EmbeddingAssumption, EmbeddingInv, CancelEmbedding \/ RunModel
  PROVE  EmbeddingInv'
<1> USE DEF EmbeddingInv
<1>1. CASE CancelEmbedding
  BY <1>1 DEF CancelEmbedding, EmbeddingTypeOK, ShapeRead, VectorsTaken, Shape
<1>2. CASE RunModel
  <2>1. /\ embed = "input" /\ axis' = 0 /\ elements' = 1
        /\ embed' # "threw" => embed' = "shape" /\ Shape # <<>>
        /\ UNCHANGED <<shapes, index, embeddings, expected>>
    BY <1>2 DEF RunModel
  <2>2. EmbeddingTypeOK'
    BY <2>1 DEF EmbeddingTypeOK, EmbeddingAssumption
  <2>3. ShapeRead'
    <3>1. index <= Len(shapes) /\ shapes \in Seq(Seq(Int)) /\ index \in 1..(Len(shapes) + 1)
      BY <2>1 DEF ShapeRead, EmbeddingTypeOK
    <3>2. PICK s \in Seq(Int) : s = Shape /\ s = Shape'
      BY <2>1, <3>1 DEF Shape
    <3>3. Len(s) \in Nat /\ Product(s, 0) = 1
      BY ProductOfNone
    <3>4. QED
      BY <2>1, <3>1, <3>2, <3>3 DEF ShapeRead
  <2>4. VectorsTaken'
    BY <2>1 DEF VectorsTaken
  <2>5. QED
    BY <2>2, <2>3, <2>4
<1>3. QED
  BY <1>1, <1>2

\* An iteration of the loop over the shape keeps the count exact.
LEMMA DimensionStep ==
  ASSUME EmbeddingAssumption, EmbeddingInv, ReadDimension
  PROVE  EmbeddingInv'
<1> USE DEF EmbeddingInv
<1>1. /\ embed = "shape" /\ axis < Len(Shape)
      /\ UNCHANGED <<shapes, index, embeddings, expected>>
  BY DEF ReadDimension
<1>2. /\ index \in 1..Len(shapes) /\ shapes \in Seq(Seq(Int)) /\ axis \in Nat
      /\ elements = Product(Shape, axis) /\ \A k \in 1..axis : Shape[k] > 0
      /\ Shape # <<>>
  BY <1>1 DEF ShapeRead, EmbeddingTypeOK
<1>3. PICK s \in Seq(Int) : s = Shape /\ s = Shape'
  BY <1>1, <1>2 DEF Shape
<1>4. axis + 1 \in 1..Len(s) /\ s[axis + 1] \in Int
  BY <1>1, <1>2, <1>3
<1>5. VectorsTaken'
  BY <1>1 DEF VectorsTaken, ReadDimension
<1>6. CASE ~Multiply(Shape[axis + 1]).valid
  <2>1. embed' = "threw" /\ axis' = axis /\ elements' = elements
    BY <1>6 DEF ReadDimension
  <2>2. EmbeddingTypeOK' /\ ShapeRead'
    BY <1>1, <1>2, <2>1 DEF EmbeddingTypeOK, ShapeRead
  <2>3. QED
    BY <1>5, <2>2
<1>7. CASE Multiply(Shape[axis + 1]).valid
  <2>1. embed' = embed /\ axis' = axis + 1 /\ elements' = elements * s[axis + 1]
    BY <1>3, <1>7 DEF ReadDimension, Multiply
  <2>2. s[axis + 1] > 0 /\ s[axis + 1] <= SizeMax \div elements
    BY <1>3, <1>7 DEF Multiply
  <2>3. elements' \in 1..SizeMax
    <3>1. SizeMax \in Nat /\ elements \in 1..SizeMax
      BY DEF EmbeddingAssumption, EmbeddingTypeOK
    <3>2. elements * s[axis + 1] \in 1..SizeMax
      BY <1>4, <2>2, <3>1, ProductFits
    <3>3. QED
      BY <2>1, <3>2
  <2>4. elements' = Product(s, axis + 1)
    <3>1. \A i \in 1..(axis + 1) : s[i] \in Int
      <4>1. \A i \in 1..(axis + 1) : i \in 1..Len(s)
        BY <1>2, <1>4
      <4>2. \A i \in 1..Len(s) : s[i] \in Int
        OBVIOUS
      <4>3. QED
        BY <4>1, <4>2
    <3>2. Product(s, axis + 1) = Product(s, axis) * s[axis + 1]
      BY <1>2, <3>1, ProductOfMore
    <3>3. QED
      BY <1>2, <1>3, <2>1, <3>2
  <2>5. EmbeddingTypeOK'
    BY <1>1, <1>2, <2>1, <2>3 DEF EmbeddingTypeOK
  <2>6. \A k \in 1..(axis + 1) : s[k] > 0
    <3>1. \A k \in 1..(axis + 1) : k = axis + 1 \/ k \in 1..axis
      BY <1>2
    <3>2. QED
      BY <1>2, <1>3, <2>2, <3>1
  <2>7. ShapeRead'
    <3>1. axis' <= Len(s) /\ axis' \in Nat
      BY <1>2, <1>4, <2>1
    <3>2. embed' = "shape" /\ index' <= Len(shapes') /\ s # <<>>
      BY <1>1, <1>2, <1>3, <2>1
    <3>3. \A k \in 1..axis' : s[k] > 0
      BY <2>1, <2>6
    <3>4. elements' = Product(s, axis')
      BY <2>1, <2>4
    <3>5. QED
      BY <1>3, <3>1, <3>2, <3>3, <3>4 DEF ShapeRead
  <2>8. QED
    BY <1>5, <2>5, <2>7
<1>8. QED
  BY <1>6, <1>7

\* Finding the vector.
LEMMA FindStep ==
  ASSUME EmbeddingAssumption, EmbeddingInv, FindVector
  PROVE  EmbeddingInv'
<1> USE DEF EmbeddingInv
<1>1. /\ embed = "shape" /\ axis = Len(Shape)
      /\ embed' # "threw" => embed' = "vector" /\ elements >= Last(Shape)
      /\ UNCHANGED <<shapes, index, axis, elements, embeddings, expected>>
  BY DEF FindVector
<1>2. Shape' = Shape
  BY <1>1 DEF Shape
<1>3. EmbeddingTypeOK'
  BY <1>1 DEF EmbeddingTypeOK
<1>4. ShapeRead'
  BY <1>1, <1>2 DEF ShapeRead
<1>5. VectorsTaken'
  BY <1>1 DEF VectorsTaken
<1>6. QED
  BY <1>3, <1>4, <1>5

\* Taking it: the last row of a tensor of exactly that many elements.
LEMMA TakeStep ==
  ASSUME EmbeddingAssumption, EmbeddingInv, TakeVector
  PROVE  EmbeddingInv'
<1> USE DEF EmbeddingInv
<1>1. /\ embed = "vector" /\ UNCHANGED <<shapes, axis, elements>>
      /\ expected' = IF expected = 0 THEN Last(Shape) ELSE expected
  BY DEF TakeVector
<1>2. /\ index \in 1..Len(shapes) /\ shapes \in Seq(Seq(Int))
      /\ axis = Len(Shape) /\ elements = Product(Shape, axis)
      /\ \A k \in 1..axis : Shape[k] > 0
      /\ Shape # <<>> /\ elements >= Last(Shape)
  BY <1>1 DEF ShapeRead, EmbeddingTypeOK
<1>3. PICK s \in Seq(Int) : s = Shape /\ s = shapes[index]
  BY <1>2 DEF Shape
<1>4. PICK last \in Int : last = Last(Shape) /\ last > 0
  <2>1. Len(s) \in 1..axis /\ s[Len(s)] \in Int
    BY <1>2, <1>3
  <2>2. QED
    BY <1>2, <1>3, <2>1 DEF Last
<1>5. expected \in Nat /\ elements \in 1..SizeMax /\ SizeMax \in Nat
  BY DEF EmbeddingTypeOK, EmbeddingAssumption
<1>6. CASE expected' # last
  <2>1. embed' = "threw" /\ UNCHANGED <<index, embeddings>>
    BY <1>4, <1>6 DEF TakeVector
  <2>2. expected' = expected
    BY <1>1, <1>4, <1>6
  <2>3. EmbeddingTypeOK'
    BY <1>1, <2>1, <2>2 DEF EmbeddingTypeOK
  <2>4. ShapeRead'
    BY <1>1, <1>2, <2>1 DEF ShapeRead
  <2>5. VectorsTaken'
    BY <1>1, <2>1, <2>2 DEF VectorsTaken
  <2>6. QED
    BY <2>3, <2>4, <2>5
<1>7. CASE expected' = last
  <2> DEFINE e == [of |-> index, from |-> elements - last, size |-> last]
  <2>1. /\ embeddings' = Append(embeddings, e) /\ index' = index + 1
        /\ embed' = IF index = Len(shapes) THEN "returned" ELSE "input"
    BY <1>4, <1>7 DEF TakeVector, Offset
  <2>2. e \in [of : Nat, from : Int, size : Int]
    BY <1>2, <1>4, <1>5
  <2>3. EmbeddingTypeOK'
    <3>1. embeddings' \in Seq([of : Nat, from : Int, size : Int])
      BY <2>1, <2>2 DEF EmbeddingTypeOK
    <3>2. index' \in 1..(Len(shapes) + 1) /\ embed' \in {"returned", "input"}
      BY <1>2, <2>1
    <3>3. expected' \in Nat
      BY <1>4, <1>7
    <3>4. QED
      BY <1>1, <3>1, <3>2, <3>3 DEF EmbeddingTypeOK
  <2>4. ShapeRead'
    BY <1>1, <1>2, <2>1 DEF ShapeRead
  <2>5. /\ Len(embeddings) = index - 1
        /\ expected = IF embeddings = <<>> THEN 0 ELSE embeddings[1].size
        /\ embeddings \in Seq([of : Nat, from : Int, size : Int])
    BY DEF VectorsTaken, EmbeddingTypeOK
  <2> DEFINE Good(i, x, size) ==
        LET shape == shapes[i] IN
        /\ x.of = i /\ x.size = Last(shape) /\ x.size = size /\ x.size > 0
        /\ x.from >= 0 /\ x.from + x.size = Volume(shape) /\ Volume(shape) <= SizeMax
  <2>6. \A i \in 1..Len(embeddings) : Good(i, embeddings[i], expected)
    BY DEF VectorsTaken
  <2>7. Good(index, e, last)
    <3>1. Volume(s) = elements
      BY <1>2, <1>3 DEF Volume
    <3>2. Last(s) = last /\ elements >= last
      BY <1>2, <1>3, <1>4
    <3>3. e.of = index /\ e.size = last /\ e.from = elements - last
      OBVIOUS
    <3>4. QED
      BY <1>3, <1>4, <1>5, <3>1, <3>2, <3>3
  <2>8. /\ Len(embeddings') = index /\ embeddings'[index] = e
        /\ \A i \in 1..(index - 1) : embeddings'[i] = embeddings[i]
    <3> HIDE DEF e
    <3>1. /\ Len(embeddings') = Len(embeddings) + 1 /\ embeddings'[Len(embeddings) + 1] = e
          /\ \A i \in 1..Len(embeddings) : embeddings'[i] = embeddings[i]
      BY ONLY <2>1, <2>2, <2>5, AppendProperties
    <3>2. Len(embeddings) + 1 = index
      BY <1>2, <2>5
    <3>3. QED
      BY <2>5, <3>1, <3>2
  <2>9. \A i \in 1..(index - 1) : expected = last
    <3> HIDE DEF e, Good
    <3>1. ASSUME index > 1 PROVE expected # 0
      <4>1. 1 \in 1..Len(embeddings) /\ embeddings # <<>>
        BY <1>2, <2>5, <3>1
      <4>2. embeddings[1].size > 0
        BY <2>6, <4>1 DEF Good
      <4>3. QED
        BY <2>5, <4>1, <4>2
    <3>2. QED
      BY <1>1, <1>2, <1>7, <3>1
  <2>10. \A i \in 1..index : Good(i, embeddings'[i], last)
    <3> HIDE DEF e, Good
    <3>1. \A i \in 1..index : i = index \/ i \in 1..(index - 1)
      BY <1>2
    <3>2. QED
      BY <2>5, <2>6, <2>7, <2>8, <2>9, <3>1
  <2>11. embeddings' # <<>> /\ embeddings'[1].size = last
    <3>1. 1 \in 1..index
      BY <1>2
    <3>2. embeddings'[1].size = last
      BY <2>10, <3>1
    <3>3. QED
      BY <1>2, <2>8, <3>2
  <2>12. embed' = "returned" => index' = Len(shapes) + 1
    BY <1>2, <2>1
  <2>13. VectorsTaken'
    <3>1. \A i \in 1..Len(embeddings') : Good(i, embeddings'[i], expected')
      BY <1>7, <2>8, <2>10
    <3>2. Len(embeddings') = index' - 1
      BY <1>2, <2>1, <2>8
    <3>3. expected' = embeddings'[1].size
      BY <1>7, <2>11
    <3>4. QED
      BY <1>1, <2>11, <2>12, <3>1, <3>2, <3>3 DEF VectorsTaken
  <2>14. QED
    BY <2>3, <2>4, <2>13
<1>8. QED
  BY <1>6, <1>7

\* The inductive invariant of a batch: the element count of a shape is its exact product,
\* and there is a vector for every input so far (Session::Embed).
THEOREM BatchInvariance == Spec => []EmbeddingInv
<1>1. Init => EmbeddingInv
  BY EmbeddingBegins, EmbeddingAssumption DEF Init
<1>2. ASSUME EmbeddingInv, [Next]_vars
      PROVE  EmbeddingInv'
  <2>1. CASE EmbeddingNext
    BY <1>2, <2>1, InputStep, DimensionStep, FindStep, TakeStep, EmbeddingAssumption
       DEF EmbeddingNext
  <2>2. CASE UNCHANGED embeddingVars
    BY <1>2, <2>2 DEF embeddingVars, EmbeddingInv, EmbeddingTypeOK, ShapeRead, VectorsTaken, Shape
  <2>3. QED
    BY <1>2, <2>1, <2>2 DEF Next, vars
<1>3. QED
  BY <1>1, <1>2, PTL DEF Spec

\* Whatever shapes a model reports and whatever the width of a size_t, a vector lies inside
\* its tensor and is its last row, and a result has one for every input, in order and all of
\* one length (Session::Embed).
THEOREM EmbeddingsAreAligned == Spec => []EmbeddingsAligned
<1>1. EmbeddingInv => EmbeddingsAligned
  <2> SUFFICES ASSUME EmbeddingInv PROVE EmbeddingsAligned
    OBVIOUS
  <2>1. DOMAIN embeddings = 1..Len(embeddings) /\ Len(embeddings) \in Nat
        /\ Len(shapes) \in Nat /\ index \in Nat
    BY DEF EmbeddingInv, EmbeddingTypeOK
  <2>2. \A i \in 1..Len(embeddings) : embeddings # <<>>
    BY <2>1
  <2>3. embed = "returned" => Len(embeddings) = Len(shapes)
    BY <2>1 DEF EmbeddingInv, VectorsTaken
  <2>4. embed = "vector" => elements = Volume(Shape)
    BY DEF EmbeddingInv, ShapeRead, Volume
  <2>5. QED
    BY <2>1, <2>2, <2>3, <2>4 DEF EmbeddingInv, VectorsTaken, EmbeddingsAligned
<1>2. QED
  BY <1>1, BatchInvariance, PTL

-----------------------------------------------------------------------------
(* Base64.                                                                 *)

\* The loop's next character, which is not padding, takes it one step further.
LEMMA DecodedMore ==
  ASSUME payload \in Seq(Nat), \A k \in DOMAIN payload : payload[k] < 256, buffer \in Nat,
         NEW m \in Nat, m < Characters(payload), Decoded64(m),
         buffer' = Shifted(Sextet(m)), bits' = (bits + 6) % 8,
         out' = IF bits + 6 >= 8 THEN Append(out, (buffer' \div (2 ^ bits')) % 256) ELSE out
  PROVE  /\ buffer' \in Nat /\ bits' \in {0, 2, 4, 6}
         /\ bits' = (6 * (m + 1)) % 8
         /\ out' = SubSeq(payload, 1, (3 * (m + 1)) \div 4)
         /\ (m + 1) % 4 # 0 => buffer' % (2 ^ bits') = Sextet(m) % (2 ^ bits')
<1>1. PICK b : b = buffer'
  OBVIOUS
<1>2. PICK d : d = bits'
  OBVIOUS
<1>3. PICK o : o = out'
  OBVIOUS
<1>4. b = Shifted(Sextet(m))
  BY <1>1
<1>5. d = (bits + 6) % 8
  BY <1>2
<1>6. o = IF bits + 6 >= 8 THEN Append(out, (b \div (2 ^ d)) % 256) ELSE out
  BY <1>1, <1>2, <1>3
<1>7. PICK g \in Nat, p \in 0..3 : m = 4 * g + p
  BY GroupOf
<1>8. 3 * g + 1 \in Nat \ {0} /\ 3 * g + 2 \in Nat \ {0} /\ 3 * g + 3 \in Nat \ {0}
  OBVIOUS
<1>9. PICK x \in Nat, y \in Nat, z \in Nat :
        /\ x < 256 /\ y < 256 /\ z < 256
        /\ Byte(3 * g + 1) = x /\ Byte(3 * g + 2) = y /\ Byte(3 * g + 3) = z
  BY <1>8, BytesOf
<1>10.
      /\ Sextet(4 * g) = x \div 4
      /\ Sextet(4 * g + 1) = (x % 4) * 16 + y \div 16
      /\ Sextet(4 * g + 2) = (y % 16) * 4 + z \div 64
      /\ Sextet(4 * g + 3) = z % 64
  BY ONLY <1>9, SextetOf, g \in Nat
<1>11. PICK c \in Nat : c = Sextet(m) /\ c < 64
  BY SextetType
<1>12. PICK s \in Nat : s = buffer * 64 + c
  OBVIOUS
<1>13. b = s % 16777216
  BY ONLY <1>11, <1>12, <1>4, SMT DEF Shifted
<1>14. b \in Nat /\ b % 64 = c % 64 /\ b % 16 = c % 16 /\ b % 4 = c % 4
  BY ONLY <1>11, <1>12, <1>13, BufferEnd, buffer \in Nat, SMT
<1>15.
      /\ bits = (6 * m) % 8 /\ out = SubSeq(payload, 1, (3 * m) \div 4)
      /\ m % 4 # 0 => buffer % (2 ^ bits) = Sextet(m - 1) % (2 ^ bits)
  BY DEF Decoded64
<1>16. PICK n \in Nat : n = Len(payload)
  OBVIOUS
<1>17. 3 * g + p <= n
  <2>1. m < n + ((n + 2) \div 3)
    BY ONLY <1>16, m < Characters(payload) DEF Characters
  <2>2. 4 * g + p < 4 * ((n + 2) \div 3)
    BY ONLY <1>7, <2>1, n + ((n + 2) \div 3) <= 4 * ((n + 2) \div 3), CharacterPlace, n \in Nat,
        g \in Nat, p \in 0..3
  <2>3. QED
    BY ONLY <1>7, <2>1, <2>2, CharacterPlace, n \in Nat, g \in Nat, p \in 0..3
<1>18. 2 ^ 0 = 1 /\ 2 ^ 2 = 4 /\ 2 ^ 4 = 16 /\ 2 ^ 6 = 64
  OBVIOUS
<1>19. SUFFICES
               /\ b \in Nat /\ d \in {0, 2, 4, 6} /\ d = (6 * (m + 1)) % 8
               /\ o = SubSeq(payload, 1, (3 * (m + 1)) \div 4)
               /\ (m + 1) % 4 # 0 => b % (2 ^ d) = Sextet(m) % (2 ^ d)
  BY <1>1, <1>2, <1>3, Zenon
<1>20. CASE p = 0
  <2>1. m = 4 * g
    BY <1>7, <1>20
  <2>2. bits = 0 /\ d = 6 /\ (6 * (m + 1)) % 8 = 6
    <3>1. (6 * m) % 8 = 0 /\ (6 * (m + 1)) % 8 = 6
      BY ONLY <2>1, g \in Nat
    <3>2. QED
      BY ONLY <1>15, <3>1, <1>5
  <2>3. (3 * (m + 1)) \div 4 = (3 * m) \div 4
    BY ONLY <2>1, g \in Nat
  <2>4. o = out
    BY ONLY <2>2, <1>6
  <2>5. b % (2 ^ d) = Sextet(m) % (2 ^ d)
    BY ONLY <1>11, <1>14, <1>18, <2>2
  <2>6. QED
    BY ONLY <1>14, <1>15, <2>2, <2>3, <2>4, <2>5
<1>21. CASE p = 1
  <2>1. m = 4 * g + 1 /\ m - 1 = 4 * g /\ m % 4 # 0
    BY <1>7, <1>21
  <2>2. bits = 6 /\ d = 4 /\ (6 * (m + 1)) % 8 = 4
    <3>1. (6 * m) % 8 = 6 /\ (6 * (m + 1)) % 8 = 4
      BY ONLY <2>1, g \in Nat
    <3>2. QED
      BY ONLY <1>15, <3>1, <1>5
  <2>3. (3 * (m + 1)) \div 4 = 3 * g + 1 /\ (3 * m) \div 4 = 3 * g + 0
    BY ONLY <2>1, g \in Nat
  <2>4. buffer % 64 = Sextet(m - 1) % 64
    <3>1. 2 ^ bits = 64
      BY ONLY <1>18, <2>2
    <3>2. buffer % (2 ^ bits) = Sextet(m - 1) % (2 ^ bits)
      BY ONLY <1>15, <2>1
    <3>3. QED
      BY ONLY <3>1, <3>2
  <2>5. (b \div (2 ^ d)) % 256 = x
    <3>1. (b \div 16) % 256 = x
      <4>1. (Shifted(Sextet(4 * g + 1)) \div 16) % 256 = Byte(3 * g + 1)
        BY <2>1, <2>4, SecondCharacter
      <4>2. QED
        BY ONLY <1>9, <2>1, <4>1, <1>4
    <3>2. QED
      BY ONLY <1>18, <2>2, <3>1
  <2>6. o = Append(out, x)
    BY ONLY <2>2, <2>5, <1>6
  <2>7. o = SubSeq(payload, 1, 3 * g + 1)
    <3>1. PICK k \in Nat : k = 3 * g + 0 /\ k + 1 = 3 * g + 1 /\ k < Len(payload)
      BY <1>16, <1>17, <1>21
    <3>2. payload[k + 1] = x
      <4>1. k + 1 \in Nat /\ k + 1 <= Len(payload)
        BY <1>16, <3>1
      <4>2. Byte(k + 1) = payload[k + 1]
        BY ONLY <4>1, ByteIn
      <4>3. Byte(k + 1) = x
        BY ONLY <1>9, <3>1
      <4>4. QED
        BY ONLY <4>2, <4>3
    <3>3. out = SubSeq(payload, 1, k)
      BY ONLY <1>15, <2>3, <3>1
    <3>4. Append(SubSeq(payload, 1, k), payload[k + 1]) = SubSeq(payload, 1, k + 1)
      BY ONLY <3>1, LongerBeginning, k \in Nat, payload \in Seq(Nat)
    <3>5. QED
      BY ONLY <2>6, <3>1, <3>2, <3>3, <3>4
  <2>8. (m + 1) % 4 # 0 => b % (2 ^ d) = Sextet(m) % (2 ^ d)
    BY ONLY <1>11, <1>14, <1>18, <2>2
  <2>9. QED
    BY ONLY <1>14, <2>2, <2>3, <2>7, <2>8
<1>22. CASE p = 2
  <2>1. m = 4 * g + 2 /\ m - 1 = 4 * g + 1 /\ m % 4 # 0
    BY <1>7, <1>22
  <2>2. bits = 4 /\ d = 2 /\ (6 * (m + 1)) % 8 = 2
    <3>1. (6 * m) % 8 = 4 /\ (6 * (m + 1)) % 8 = 2
      BY ONLY <2>1, g \in Nat
    <3>2. QED
      BY ONLY <1>15, <3>1, <1>5
  <2>3. (3 * (m + 1)) \div 4 = 3 * g + 2 /\ (3 * m) \div 4 = 3 * g + 1
    BY ONLY <2>1, g \in Nat
  <2>4. buffer % 16 = Sextet(m - 1) % 16
    <3>1. 2 ^ bits = 16
      BY ONLY <1>18, <2>2
    <3>2. buffer % (2 ^ bits) = Sextet(m - 1) % (2 ^ bits)
      BY ONLY <1>15, <2>1
    <3>3. QED
      BY ONLY <3>1, <3>2
  <2>5. (b \div (2 ^ d)) % 256 = y
    <3>1. (b \div 4) % 256 = y
      <4>1. (Shifted(Sextet(4 * g + 2)) \div 4) % 256 = Byte(3 * g + 2)
        BY <2>1, <2>4, ThirdCharacter
      <4>2. QED
        BY ONLY <1>9, <2>1, <4>1, <1>4
    <3>2. QED
      BY ONLY <1>18, <2>2, <3>1
  <2>6. o = Append(out, y)
    BY ONLY <2>2, <2>5, <1>6
  <2>7. o = SubSeq(payload, 1, 3 * g + 2)
    <3>1. PICK k \in Nat : k = 3 * g + 1 /\ k + 1 = 3 * g + 2 /\ k < Len(payload)
      BY <1>16, <1>17, <1>22
    <3>2. payload[k + 1] = y
      <4>1. k + 1 \in Nat /\ k + 1 <= Len(payload)
        BY <1>16, <3>1
      <4>2. Byte(k + 1) = payload[k + 1]
        BY ONLY <4>1, ByteIn
      <4>3. Byte(k + 1) = y
        BY ONLY <1>9, <3>1
      <4>4. QED
        BY ONLY <4>2, <4>3
    <3>3. out = SubSeq(payload, 1, k)
      BY ONLY <1>15, <2>3, <3>1
    <3>4. Append(SubSeq(payload, 1, k), payload[k + 1]) = SubSeq(payload, 1, k + 1)
      BY ONLY <3>1, LongerBeginning, k \in Nat, payload \in Seq(Nat)
    <3>5. QED
      BY ONLY <2>6, <3>1, <3>2, <3>3, <3>4
  <2>8. (m + 1) % 4 # 0 => b % (2 ^ d) = Sextet(m) % (2 ^ d)
    BY ONLY <1>11, <1>14, <1>18, <2>2
  <2>9. QED
    BY ONLY <1>14, <2>2, <2>3, <2>7, <2>8
<1>23. CASE p = 3
  <2>1. m = 4 * g + 3 /\ m - 1 = 4 * g + 2 /\ m % 4 # 0
    BY <1>7, <1>23
  <2>2. bits = 2 /\ d = 0 /\ (6 * (m + 1)) % 8 = 0
    <3>1. (6 * m) % 8 = 2 /\ (6 * (m + 1)) % 8 = 0
      BY ONLY <2>1, g \in Nat
    <3>2. QED
      BY ONLY <1>15, <3>1, <1>5
  <2>3. (3 * (m + 1)) \div 4 = 3 * g + 3 /\ (3 * m) \div 4 = 3 * g + 2
    BY ONLY <2>1, g \in Nat
  <2>4. buffer % 4 = Sextet(m - 1) % 4
    <3>1. 2 ^ bits = 4
      BY ONLY <1>18, <2>2
    <3>2. buffer % (2 ^ bits) = Sextet(m - 1) % (2 ^ bits)
      BY ONLY <1>15, <2>1
    <3>3. QED
      BY ONLY <3>1, <3>2
  <2>5. (b \div (2 ^ d)) % 256 = z
    <3>1. (b \div 1) % 256 = z
      <4>1. Shifted(Sextet(4 * g + 3)) % 256 = Byte(3 * g + 3)
        BY <2>1, <2>4, FourthCharacter
      <4>2. b \div 1 = b
        BY <1>14
      <4>3. QED
        BY ONLY <1>9, <2>1, <4>1, <4>2, <1>4
    <3>2. QED
      BY ONLY <1>18, <2>2, <3>1
  <2>6. o = Append(out, z)
    BY ONLY <2>2, <2>5, <1>6
  <2>7. o = SubSeq(payload, 1, 3 * g + 3)
    <3>1. PICK k \in Nat : k = 3 * g + 2 /\ k + 1 = 3 * g + 3 /\ k < Len(payload)
      BY <1>16, <1>17, <1>23
    <3>2. payload[k + 1] = z
      <4>1. k + 1 \in Nat /\ k + 1 <= Len(payload)
        BY <1>16, <3>1
      <4>2. Byte(k + 1) = payload[k + 1]
        BY ONLY <4>1, ByteIn
      <4>3. Byte(k + 1) = z
        BY ONLY <1>9, <3>1
      <4>4. QED
        BY ONLY <4>2, <4>3
    <3>3. out = SubSeq(payload, 1, k)
      BY ONLY <1>15, <2>3, <3>1
    <3>4. Append(SubSeq(payload, 1, k), payload[k + 1]) = SubSeq(payload, 1, k + 1)
      BY ONLY <3>1, LongerBeginning, k \in Nat, payload \in Seq(Nat)
    <3>5. QED
      BY ONLY <2>6, <3>1, <3>2, <3>3, <3>4
  <2>8. (m + 1) % 4 # 0 => b % (2 ^ d) = Sextet(m) % (2 ^ d)
    BY ONLY <2>1, g \in Nat
  <2>9. QED
    BY ONLY <1>14, <2>2, <2>3, <2>7, <2>8
<1>24. QED
  <2>1. p = 0 \/ p = 1 \/ p = 2 \/ p = 3
    OBVIOUS
  <2>2. QED
    BY <1>20, <1>21, <1>22, <1>23, <2>1, Zenon

\* What is said of the payload and the input stays true of them.
LEMMA PayloadKept ==
  ASSUME payload' = payload, NEW m
  PROVE  /\ Sextet(m)' = Sextet(m)
         /\ Decoded64(m)' <=>
              /\ bits' = (6 * m) % 8 /\ out' = SubSeq(payload, 1, (3 * m) \div 4)
              /\ m % 4 # 0 => buffer' % (2 ^ bits') = Sextet(m - 1) % (2 ^ bits')
BY DEF Decoded64, Sextet, Byte

LEMMA InputKept ==
  ASSUME payload' = payload, input' = input, NEW i
  PROVE  ForeignAt(i)' <=> ForeignAt(i)
BY DEF ForeignAt, Foreign, Sextet, Byte

LEMMA CharactersType ==
  ASSUME payload \in Seq(Nat)
  PROVE  Characters(payload) \in Nat
<1>1. PICK n \in Nat : n = Len(payload)
  OBVIOUS
<1>2. n + ((n + 2) \div 3) \in Nat
  OBVIOUS
<1>3. QED
  BY ONLY <1>1, <1>2 DEF Characters

\* How far the loop is where it is, and after the next character.
LEMMA TakenNext ==
  ASSUME payload \in Seq(Nat), NEW k \in Nat \ {0}, NEW i \in Nat \ {0}
  PROVE  /\ Before(k, i) \in Nat
         /\ Taken(k, i) \in 0..Characters(payload) /\ Taken(k, i) \in Nat
         /\ k # i => Before(k + 1, i) = Before(k, i) + 1
         /\ k = i => Before(k + 1, i) = Before(k, i)
         /\ Before(k, i) >= Characters(payload) =>
              Taken(k, i) = Characters(payload) /\ Taken(k + 1, i) = Taken(k, i)
         /\ Before(k, i) < Characters(payload) /\ k # i =>
              Taken(k, i) = Before(k, i) /\ Taken(k + 1, i) = Before(k, i) + 1
         /\ k = i => Taken(k + 1, i) = Taken(k, i)
<1>1. PICK chars \in Nat : chars = Characters(payload)
  BY CharactersType
<1>2. Before(k, i) \in Nat
  BY DEF Before
<1>3. /\ k # i => Before(k + 1, i) = Before(k, i) + 1
      /\ k = i => Before(k + 1, i) = Before(k, i)
  BY DEF Before
<1>4. PICK b \in Nat, a \in Nat : b = Before(k, i) /\ a = Before(k + 1, i)
  BY <1>2, <1>3
<1>5. /\ Taken(k, i) = IF b < chars THEN b ELSE chars
      /\ Taken(k + 1, i) = IF a < chars THEN a ELSE chars
  BY <1>1, <1>4 DEF Taken
<1>6. QED
  BY <1>1, <1>3, <1>4, <1>5

\* One input after the other.
LEMMA CodecBegins ==
  ASSUME CodecAssumption, CodecInit
  PROVE  CodecInv
<1>0. Bytes \subseteq Nat /\ (\A byte \in Bytes : byte < 256) /\ MaxBytes \in Nat
  BY SMT DEF CodecAssumption
<1>1. /\ position = 1 /\ buffer = 0 /\ bits = 0 /\ out = <<>>
      /\ mantissa = half % 1024 /\ unbiased = -14 /\ single = 0
  BY DEF CodecInit, SubnormalExponent
<1>2. payload \in Seq(Nat) /\ \A k \in DOMAIN payload : payload[k] < 256
  <2>1. CASE payload \in BoundedSeq(Bytes, MaxBytes)
    <3>1. payload \in Seq(Bytes)
      BY ONLY <1>0, <2>1, SeqDef DEF BoundedSeq, SeqOf
    <3>2. Seq(Bytes) \subseteq Seq(Nat)
      BY ONLY <1>0, SeqMonotonic
    <3>3. \A k \in DOMAIN payload : payload[k] \in Bytes
      BY <3>1
    <3>4. QED
      BY ONLY <1>0, <3>1, <3>2, <3>3
  <2>2. CASE payload = <<>>
    BY <2>2
  <2>3. QED
    BY <2>1, <2>2 DEF CodecInit
<1>3. /\ doing \in {"text", "half"} /\ half \in Nat /\ half < 65536
      /\ doing = "text" => half = 0
      /\ doing = "half" => input = <<>> /\ payload = <<>>
  <2>1. /\ doing \in {"text", "half"} /\ (doing = "text" => half = 0)
        /\ doing = "half" => half \in Halves /\ input = <<>> /\ payload = <<>>
    BY DEF CodecInit
  <2>2. \A number \in Halves : number \in Nat /\ number < 65536
    BY SMT DEF CodecAssumption
  <2>3. QED
    BY ONLY <2>1, <2>2, SMT
<1>4. doing = "text" => \E text \in Variants(payload) : input \in {text, <<DataUrl>> \o text}
  BY DEF CodecInit
<1>5. half % 1024 \in Nat /\ half % 1024 < 1024
  BY <1>3
<1>6. CodecTypeOK
  <2>1. CASE doing = "text"
    <3>1. PICK text \in Variants(payload) : input \in {text, <<DataUrl>> \o text}
      BY <1>4, <2>1
    <3>2. text \in Seq(Nat) /\ <<DataUrl>> \o text \in Seq(Nat)
      BY <1>2, VariantsOf DEF DataUrl
    <3>3. input \in Seq(Nat)
      BY ONLY <3>1, <3>2
    <3>4. position \in 1..(Len(input) + 1)
      BY ONLY <1>1, <3>3
    <3>5. /\ buffer \in Nat /\ bits \in {0, 2, 4, 6} /\ mantissa \in Nat /\ unbiased \in Int
          /\ single \in Nat /\ doing \in {"text", "base64", "refused", "half", "done"}
      BY ONLY <1>1, <1>5, <2>1, SMT
    <3>6. half \in Nat /\ half < 65536
      BY ONLY <1>3
    <3>7. QED
      BY ONLY <1>2, <3>3, <3>4, <3>5, <3>6, SMT DEF CodecTypeOK
  <2>2. CASE doing = "half"
    BY <1>1, <1>2, <1>3, <1>5, <2>2 DEF CodecTypeOK
  <2>3. QED
    BY <1>3, <2>1, <2>2
<1>7. InputRead
  <2>1. ASSUME doing = "half"
        PROVE  \E i \in 1..(Len(input) + 1), m \in 0..Characters(payload) :
                 ForeignAt(i) /\ m = Taken(position, i) /\ Decoded64(m)
    <3>1. /\ Characters(payload) = 0 /\ Len(input) = 0 /\ input = <<>>
          /\ 1 \in 1..(Len(input) + 1) /\ 0 \in 0..Characters(payload)
      BY <1>3, <2>1 DEF Characters
    <3>2. ForeignAt(1)
      BY <3>1 DEF ForeignAt, Foreign, Before
    <3>3. Taken(position, 1) = 0
      BY <1>1, <3>1 DEF Taken, Before
    <3>4. Decoded64(0)
      BY <1>1 DEF Decoded64
    <3>5. QED
      BY <3>1, <3>2, <3>3, <3>4
  <2>2. QED
    BY <1>1, <1>3, <1>4, <2>1 DEF InputRead
<1>8. HalfRead
  <2>1. 2 ^ 0 = 1
    OBVIOUS
  <2>2. -14 - unbiased = 0
    BY <1>1
  <2>3. mantissa = (half % 1024) * 2 ^ (-14 - unbiased) /\ mantissa < 2048
    BY <1>1, <1>5, <2>1, <2>2
  <2>4. QED
    BY <1>1, <1>3, <2>3 DEF HalfRead
<1>9. QED
  BY <1>6, <1>7, <1>8 DEF CodecInv

\* Without the header of a data URL, what the loop reads is a variant of the encoded payload.
LEMMA HeaderStep ==
  ASSUME CodecInv, StripHeader
  PROVE  CodecInv'
<1>1. /\ doing = "text" /\ doing' = "base64"
      /\ UNCHANGED <<payload, position, buffer, bits, out, half, mantissa, unbiased, single>>
  BY DEF StripHeader, halfVars
<1>2. /\ payload \in Seq(Nat) /\ (\A k \in DOMAIN payload : payload[k] < 256)
      /\ position = 1 /\ bits = 0 /\ out = <<>> /\ half = 0 /\ single = 0
  BY <1>1 DEF CodecInv, CodecTypeOK, InputRead
<1>3. PICK text \in Variants(payload) : input \in {text, <<DataUrl>> \o text}
  BY <1>1 DEF CodecInv, InputRead
<1>4. PICK i \in 1..(Len(text) + 1) : Foreign(text, i)
  BY <1>2, VariantsOf
<1>5. text \in Seq(Nat)
  BY <1>2, VariantsOf
<1>6. text # <<>> => text[1] # DataUrl
  <2>1. SUFFICES ASSUME text # <<>> PROVE text[1] # DataUrl
    OBVIOUS
  <2>2. 1 \in 1..Len(text) /\ Len(text) \in Nat
    BY <1>5, <2>1
  <2>3. Before(1, i) \in Nat \/ i = 1
    BY <1>4 DEF Before
  <2>4. CASE i = 1
    BY <1>4, <2>2, <2>4 DEF Foreign, Skip, Refused, DataUrl
  <2>5. CASE i # 1
    <3>1. PICK before \in Nat : before = Before(1, i)
      BY <2>3, <2>5
    <3>2. Sextet(before) \in Nat /\ Sextet(before) < 64
      BY <1>2, SextetType
    <3>3. text[1] = Sextet(before) \/ text[1] = Skip
      BY <1>4, <2>2, <2>5, <3>1 DEF Foreign
    <3>4. QED
      BY <3>2, <3>3 DEF Skip, DataUrl
  <2>6. QED
    BY <2>4, <2>5
<1>7. input' = text
  <2>1. CASE input = text
    BY <1>5, <1>6, <2>1 DEF StripHeader
  <2>2. CASE input = <<DataUrl>> \o text
    <3>1. PICK header : header = DataUrl
      OBVIOUS
    <3>2. /\ <<header>> \o text # <<>> /\ Head(<<header>> \o text) = header
          /\ Tail(<<header>> \o text) = text
      <4>1. header \in Nat
        BY <3>1 DEF DataUrl
      <4>2. QED
        BY ONLY <1>5, <4>1
    <3>3. QED
      BY <2>2, <3>1, <3>2 DEF StripHeader
  <2>3. QED
    BY <1>3, <2>1, <2>2
<1>8. CodecTypeOK'
  BY <1>1, <1>2, <1>5, <1>7 DEF CodecInv, CodecTypeOK
<1>9. InputRead'
  <2>1. ForeignAt(i)' <=> Foreign(text, i)
    BY <1>1, <1>7 DEF ForeignAt, Foreign, Sextet, Byte
  <2>2. 0 = Taken(position, i)' /\ 0 \in 0..Characters(payload')
    BY <1>1, <1>2, <1>4, CharactersType DEF Taken, Before
  <2>3. Decoded64(0)'
    BY <1>1, <1>2 DEF Decoded64
  <2>4. \E j \in 1..(Len(input') + 1), m \in 0..Characters(payload') :
          ForeignAt(j)' /\ m = Taken(position, j)' /\ Decoded64(m)'
    BY <1>4, <1>7, <2>1, <2>2, <2>3
  <2>5. QED
    BY <1>1, <1>2, <2>4 DEF InputRead
<1>10. HalfRead'
  BY <1>1 DEF HalfRead
<1>11. QED
  BY <1>8, <1>9, <1>10 DEF CodecInv

\* A character of the input: skipped, refused, or six bits more of the payload.
LEMMA CharacterStep ==
  ASSUME CodecInv, DecodeCharacter
  PROVE  CodecInv'
<1>1. /\ doing = "base64" /\ position <= Len(input) /\ position' = position + 1
      /\ UNCHANGED <<payload, input, half, mantissa, unbiased, single>>
  BY DEF DecodeCharacter, halfVars
<1>2. /\ payload \in Seq(Nat) /\ (\A k \in DOMAIN payload : payload[k] < 256)
      /\ input \in Seq(Nat) /\ position \in Nat \ {0} /\ buffer \in Nat
      /\ Len(input) \in Nat
  BY DEF CodecInv, CodecTypeOK
<1>3. PICK i \in 1..(Len(input) + 1), m \in 0..Characters(payload) :
        ForeignAt(i) /\ m = Taken(position, i) /\ Decoded64(m)
  BY <1>1 DEF CodecInv, InputRead
<1>4. PICK c : c = input[position]
  OBVIOUS
<1>5. i \in Nat \ {0} /\ m \in Nat /\ position \in 1..Len(input) /\ Characters(payload) \in Nat
  BY <1>1, <1>2, CharactersType
<1>6. /\ position # i =>
           c = IF Before(position, i) < Characters(payload)
               THEN Sextet(Before(position, i)) ELSE Skip
      /\ position = i => c \in {Skip, Refused}
  BY <1>1, <1>3, <1>4, <1>5 DEF ForeignAt, Foreign
<1>7. PICK before \in Nat : before = Before(position, i) /\ Sextet(before) \in Nat /\ Sextet(before) < 64
  BY <1>2, <1>5, TakenNext, SextetType
<1>8. half = 0 /\ single = 0 /\ \A k \in 1..(position - 1) : input[k] # Refused
  BY <1>1 DEF CodecInv, InputRead
<1>9. HalfRead'
  <2>1. doing' \in {"base64", "refused"}
    BY <1>1 DEF DecodeCharacter
  <2>2. QED
    BY <2>1 DEF HalfRead
<1>10. CASE c = Refused
  <2>1. doing' = "refused" /\ UNCHANGED <<buffer, bits, out>>
    BY <1>4, <1>10 DEF DecodeCharacter, Skip, Refused
  <2>2. CodecTypeOK'
    BY <1>1, <1>5, <2>1 DEF CodecInv, CodecTypeOK
  <2>3. InputRead'
    BY <1>1, <1>4, <1>5, <1>8, <1>10, <2>1 DEF InputRead
  <2>4. QED
    BY <1>9, <2>2, <2>3 DEF CodecInv
<1>11. ASSUME c # Refused, doing' = "base64", bits' \in {0, 2, 4, 6}, buffer' \in Nat,
              NEW m2 \in 0..Characters(payload), m2 = Taken(position + 1, i), Decoded64(m2)'
       PROVE  CodecInv'
  <2>1. CodecTypeOK'
    BY <1>1, <1>5, <1>11 DEF CodecInv, CodecTypeOK
  <2>2. \A k \in 1..position : input[k] # Refused
    BY <1>4, <1>5, <1>8, <1>11
  <2>3. ForeignAt(i)'
    BY <1>1, <1>3, InputKept
  <2>4. Taken(position, i)' = Taken(position + 1, i)
    BY <1>1 DEF Taken
  <2>5. \E j \in 1..(Len(input') + 1), n \in 0..Characters(payload') :
          ForeignAt(j)' /\ n = Taken(position, j)' /\ Decoded64(n)'
    BY <1>1, <1>11, <2>3, <2>4
  <2>6. InputRead'
    <3>1. position' - 1 = position
      BY <1>1, <1>2
    <3>2. \A k \in 1..(position' - 1) : input'[k] # Refused
      BY <1>1, <2>2, <3>1
    <3>3. half' = 0 /\ single' = 0
      BY <1>1, <1>8
    <3>4. QED
      BY ONLY <1>11, <2>5, <3>2, <3>3 DEF InputRead
  <2>7. QED
    BY <1>9, <2>1, <2>6 DEF CodecInv
<1>12. CASE c = Skip
  <2>1. UNCHANGED <<buffer, bits, out, doing>>
    BY <1>4, <1>12 DEF DecodeCharacter, Skip, Refused
  <2>2. position = i \/ ~(before < Characters(payload))
    BY <1>6, <1>7, <1>12 DEF Skip
  <2>3. Taken(position + 1, i) = m
    <3>1. CASE position = i
      BY ONLY <1>2, <1>3, <1>5, <3>1, TakenNext
    <3>2. CASE ~(before < Characters(payload))
      <4>1. Before(position, i) >= Characters(payload)
        BY <1>5, <1>7, <3>2
      <4>2. QED
        BY ONLY <1>2, <1>3, <1>5, <4>1, TakenNext
    <3>3. QED
      BY <2>2, <3>1, <3>2
  <2>4. Decoded64(m)'
    BY <1>1, <1>3, <2>1, PayloadKept DEF Decoded64
  <2>5. bits' \in {0, 2, 4, 6} /\ buffer' \in Nat /\ c # Refused /\ doing' = "base64"
    BY <1>1, <1>12, <2>1 DEF CodecInv, CodecTypeOK, Skip, Refused
  <2>6. QED
    BY <1>11, <2>3, <2>4, <2>5
<1>13. CASE c # Refused /\ c # Skip
  <2>1. position # i /\ before < Characters(payload) /\ c = Sextet(before)
    BY <1>6, <1>7, <1>13
  <2>2. m = before /\ Taken(position + 1, i) = m + 1
    BY <1>2, <1>3, <1>5, <1>7, <2>1, TakenNext
  <2>3. m + 1 \in 0..Characters(payload) /\ m < Characters(payload)
    BY <1>5, <1>7, <2>1, <2>2
  <2>4. /\ buffer' = Shifted(Sextet(m)) /\ bits' = (bits + 6) % 8
        /\ out' = IF bits + 6 >= 8 THEN Append(out, (buffer' \div (2 ^ bits')) % 256) ELSE out
        /\ doing' = doing
    BY <1>4, <1>13, <2>1, <2>2 DEF DecodeCharacter
  <2>5. /\ buffer' \in Nat /\ bits' \in {0, 2, 4, 6}
        /\ bits' = (6 * (m + 1)) % 8
        /\ out' = SubSeq(payload, 1, (3 * (m + 1)) \div 4)
        /\ (m + 1) % 4 # 0 => buffer' % (2 ^ bits') = Sextet(m) % (2 ^ bits')
    BY ONLY <1>2, <1>3, <1>5, <2>3, <2>4, DecodedMore
  <2>6. Decoded64(m + 1)'
    <3>1. (m + 1) - 1 = m
      BY <1>5
    <3>2. QED
      BY <1>1, <2>5, <3>1, PayloadKept
  <2>7. QED
    BY <1>1, <1>11, <1>13, <2>2, <2>3, <2>4, <2>5, <2>6
<1>14. QED
  BY <1>10, <1>12, <1>13

\* The end of the input.
LEMMA EndStep ==
  ASSUME CodecInv, DecodeEnds
  PROVE  CodecInv'
<1>1. /\ doing = "base64" /\ position > Len(input) /\ doing' = "done"
      /\ UNCHANGED <<payload, input, position, buffer, bits, out, half, mantissa, unbiased, single>>
  BY DEF DecodeEnds, base64Vars, halfVars
<1>2. CodecTypeOK'
  BY <1>1 DEF CodecInv, CodecTypeOK
<1>3. position = Len(input) + 1 /\ half = 0 /\ single = 0
  BY <1>1 DEF CodecInv, CodecTypeOK, InputRead
<1>4. InputRead'
  <2>1. PICK i \in 1..(Len(input) + 1), m \in 0..Characters(payload) :
          ForeignAt(i) /\ m = Taken(position, i) /\ Decoded64(m)
    BY <1>1 DEF CodecInv, InputRead
  <2>2. ForeignAt(i)' /\ Decoded64(m)' /\ m = Taken(position, i)'
    BY <1>1, <2>1, InputKept, PayloadKept DEF Decoded64, Taken
  <2>3. \E j \in 1..(Len(input') + 1), n \in 0..Characters(payload') :
          ForeignAt(j)' /\ n = Taken(position, j)' /\ Decoded64(n)'
    BY <1>1, <2>1, <2>2
  <2>4. QED
    BY <1>1, <1>3, <2>3 DEF CodecInv, InputRead
<1>5. HalfRead'
  <2>1. Exponent' = 0 /\ HalfSignificand' = 0
    BY <1>1, <1>3 DEF Exponent, HalfSignificand
  <2>2. HalfExact'
    BY <1>1, <1>3, <2>1, SMT DEF HalfExact
  <2>3. QED
    BY <1>1, <2>2 DEF HalfRead
<1>6. QED
  BY <1>2, <1>4, <1>5 DEF CodecInv

-----------------------------------------------------------------------------
(* Half-precision numbers.                                                 *)

\* Converting a number leaves base64 as it is.
LEMMA HalfStep ==
  ASSUME CodecInv, doing = "half", UNCHANGED <<base64Vars, half>>, doing' \in {"half", "done"},
         mantissa' \in Nat, unbiased' \in Int, single' \in Nat, HalfRead'
  PROVE  CodecInv'
<1>1. UNCHANGED <<payload, input, position, buffer, bits, out, half>>
  BY DEF base64Vars
<1>2. input = <<>> /\ position = 1 /\ Len(input) = 0
  <2>1. input = <<>> /\ position \in 1..(Len(input) + 1)
    BY DEF CodecInv, HalfRead, CodecTypeOK
  <2>2. QED
    BY <2>1
<1>3. CodecTypeOK'
  BY <1>1, SMT DEF CodecInv, CodecTypeOK
<1>4. PICK i \in 1..(Len(input) + 1), m \in 0..Characters(payload) :
        ForeignAt(i) /\ m = Taken(position, i) /\ Decoded64(m)
  BY DEF CodecInv, InputRead
<1>5. ForeignAt(i)' /\ Decoded64(m)' /\ m = Taken(position, i)'
  BY <1>1, <1>4, InputKept, PayloadKept DEF Decoded64, Taken
<1>6. \E j \in 1..(Len(input') + 1), n \in 0..Characters(payload') :
        ForeignAt(j)' /\ n = Taken(position, j)' /\ Decoded64(n)'
  BY <1>1, <1>4, <1>5
<1>7. \A k \in 1..(position - 1) : input[k] # Refused
  BY <1>2
<1>8. InputRead'
  BY <1>1, <1>2, <1>6, <1>7 DEF InputRead
<1>9. QED
  BY <1>3, <1>8 DEF CodecInv

\* The parts of a half.
LEMMA HalfParts ==
  ASSUME CodecInv, doing = "half"
  PROVE  /\ half % 1024 \in Nat /\ half % 1024 < 1024 /\ Exponent \in Nat /\ Exponent < 32
         /\ \E k \in Nat :
              /\ k <= 10 /\ k = -14 - unbiased /\ unbiased = -14 - k
              /\ mantissa = (half % 1024) * 2 ^ k /\ mantissa < 2048 /\ mantissa \in Nat
              /\ Exponent # 0 => k = 0
<1>1. half \in Nat /\ mantissa \in Nat
  BY SMT DEF CodecInv, CodecTypeOK
<1>2. half % 1024 \in Nat /\ half % 1024 < 1024
  BY <1>1, SMT
<1>3. (half \div 1024) % 32 \in Nat /\ (half \div 1024) % 32 < 32
  <2>1. PICK h \in Nat : h = half \div 1024
    BY <1>1, SMT
  <2>2. h % 32 \in Nat /\ h % 32 < 32
    OBVIOUS
  <2>3. QED
    BY <2>1, <2>2, SMT
<1>4. /\ unbiased \in -24..-14
      /\ mantissa = (half % 1024) * 2 ^ (-14 - unbiased) /\ mantissa < 2048
      /\ Exponent # 0 => unbiased = -14
  BY DEF CodecInv, HalfRead
<1>5. PICK k \in Nat : k <= 10 /\ k = -14 - unbiased /\ unbiased = -14 - k
  BY <1>4
<1>6. mantissa = (half % 1024) * 2 ^ k /\ (Exponent # 0 => k = 0)
  BY <1>4, <1>5
<1>7. QED
  <2>1. Exponent \in Nat /\ Exponent < 32
    BY <1>3 DEF Exponent
  <2>2. mantissa < 2048 /\ mantissa \in Nat
    BY <1>1, <1>4
  <2>3. QED
    BY <1>2, <1>5, <1>6, <2>1, <2>2

\* Normalizing: the significand and the exponent move together.
LEMMA NormalizeStep ==
  ASSUME CodecInv, Normalize
  PROVE  CodecInv'
<1>1. /\ doing = "half" /\ Exponent = 0 /\ mantissa # 0 /\ mantissa < 1024
      /\ mantissa' = mantissa * 2 /\ unbiased' = unbiased - 1
      /\ UNCHANGED <<base64Vars, half, single, doing>>
  BY DEF Normalize
<1>2. PICK k \in Nat :
        /\ k <= 10 /\ k = -14 - unbiased /\ unbiased = -14 - k
        /\ mantissa = (half % 1024) * 2 ^ k /\ mantissa \in Nat
  BY <1>1, HalfParts
<1>3. PICK significand \in Nat : significand = half % 1024
  BY <1>1, HalfParts
<1>4. k <= 9
  <2>1. significand # 0
    BY <1>1, <1>2, <1>3, Powers
  <2>2. CASE k = 10
    <3>1. mantissa = significand * 1024
      <4>1. 2 ^ k = 1024
        BY <2>2, Powers
      <4>2. QED
        BY <1>2, <1>3, <4>1
    <3>2. QED
      BY <1>1, <2>1, <3>1
  <2>3. QED
    BY <1>2, <2>2
<1>5. PICK power \in Nat : power = 2 ^ k /\ 2 ^ (k + 1) = 2 * power
  <2>1. PICK power : power = 2 ^ k
    OBVIOUS
  <2>2. power \in Nat
    BY <1>2, <2>1, Powers
  <2>3. 2 ^ (k + 1) = 2 * 2 ^ k
    BY ONLY <1>4, k \in Nat, Powers
  <2>4. QED
    BY <2>1, <2>2, <2>3
<1>6. mantissa' = significand * 2 ^ (k + 1)
  <2>1. mantissa = significand * power
    BY <1>2, <1>3, <1>5
  <2>2. (significand * power) * 2 = significand * (2 * power)
    OBVIOUS
  <2>3. QED
    BY <1>1, <1>5, <2>1, <2>2
<1>7. /\ -14 - unbiased' = k + 1 /\ unbiased' \in -24..-14 /\ unbiased' \in Int
      /\ mantissa' \in Nat /\ mantissa' < 2048
  BY <1>1, <1>2, <1>4
<1>8. input = <<>> /\ single = 0 /\ single \in Nat
  BY <1>1 DEF CodecInv, HalfRead
<1>9. HalfRead'
  <2>1. mantissa' = (half' % 1024) * 2 ^ (-14 - unbiased')
    BY <1>1, <1>3, <1>6, <1>7
  <2>2. input' = <<>> /\ single' = 0 /\ doing' = "half" /\ Exponent' = 0
    BY <1>1, <1>8 DEF base64Vars, Exponent
  <2>3. QED
    BY <1>7, <2>1, <2>2 DEF HalfRead
<1>10. QED
  BY <1>1, <1>7, <1>8, <1>9, HalfStep

\* Numbers that need no loop.
LEMMA DirectStep ==
  ASSUME CodecInv, ConvertDirectly
  PROVE  CodecInv'
<1>1. /\ doing = "half" /\ (Exponent # 0 \/ mantissa = 0) /\ doing' = "done"
      /\ UNCHANGED <<base64Vars, half, mantissa, unbiased>>
      /\ single' = IF Exponent = 0 THEN 0
                   ELSE IF Exponent = 31 THEN 255 * 8388608 + mantissa * 8192
                   ELSE (Exponent + 112) * 8388608 + mantissa * 8192
  BY SMT DEF ConvertDirectly
<1>2. PICK significand \in Nat, e \in Nat :
        significand = half % 1024 /\ significand < 1024 /\ e = Exponent /\ e < 32
  BY <1>1, HalfParts, SMT
<1>3. PICK k \in Nat :
        /\ k <= 10 /\ mantissa = (half % 1024) * 2 ^ k /\ mantissa \in Nat
        /\ Exponent # 0 => k = 0
  BY <1>1, HalfParts, SMT
<1>4. unbiased' \in Int /\ mantissa' \in Nat
  BY <1>1, SMT DEF CodecInv, CodecTypeOK
<1>5. e # 0 => mantissa = significand
  <2>1. ASSUME e # 0 PROVE mantissa = significand
    <3>1. 2 ^ k = 1
      BY <1>2, <1>3, <2>1, Powers
    <3>2. QED
      BY <1>2, <1>3, <3>1
  <2>2. QED
    BY <2>1
<1>6. e = 0 => significand = 0
  <2>1. ASSUME e = 0 PROVE significand = 0
    <3>1. PICK power \in Nat : power = 2 ^ k /\ power > 0
      BY ONLY <1>3, k \in Nat, Powers
    <3>2. significand * power = 0
      BY <1>1, <1>2, <1>3, <2>1, <3>1
    <3>3. QED
      BY ONLY <3>1, <3>2, significand \in Nat, power \in Nat
  <2>2. QED
    BY <2>1
<1>7. PICK s \in Nat :
        /\ s = single'
        /\ s = IF e = 0 THEN 0
               ELSE IF e = 31 THEN 255 * 8388608 + significand * 8192
               ELSE (e + 112) * 8388608 + significand * 8192
  BY <1>1, <1>2, <1>5, SMT
<1>8. HalfExact'
  <2>1. Exponent' = e /\ half' % 1024 = significand
    BY <1>1, <1>2 DEF Exponent
  <2>2. CASE e = 31
    BY <1>7, <2>1, <2>2, SMT DEF HalfExact
  <2>3. CASE e = 0
    <3>1. HalfSignificand' = 0
      BY <1>6, <2>1, <2>3 DEF HalfSignificand
    <3>2. QED
      BY <1>7, <2>1, <2>3, <3>1, SMT DEF HalfExact
  <2>4. CASE e # 0 /\ e # 31
    <3>1. s = (e + 112) * 8388608 + significand * 8192 /\ significand * 8192 < 8388608
      BY <1>2, <1>7, <2>4, SMT
    <3>2. s \div 8388608 = e + 112 /\ s % 8388608 = significand * 8192
      BY <1>2, <3>1, SMT
    <3>3. SinglePower' = e - 38 /\ SingleSignificand' = significand * 8192 + 8388608
      BY <1>7, <3>2, SMT DEF SinglePower, SingleSignificand
    <3>4. HalfPower' = e - 25 /\ HalfSignificand' = significand + 1024
      BY <2>1, <2>4, SMT DEF HalfPower, HalfSignificand
    <3>5. HalfPower' - SinglePower' = 13 /\ HalfPower' >= SinglePower'
      BY <3>3, <3>4, SMT
    <3>6. 2 ^ (HalfPower' - SinglePower') = 8192
      <4>1. PICK q : q = HalfPower' - SinglePower'
        OBVIOUS
      <4>2. 2 ^ 13 = 8192
        BY ONLY Powers
      <4>3. q = 13
        BY ONLY <3>5, <4>1
      <4>4. 2 ^ q = 8192
        BY ONLY <4>2, <4>3
      <4>5. QED
        BY ONLY <4>1, <4>4, SMT
    <3>7. SingleSignificand' = HalfSignificand' * 2 ^ (HalfPower' - SinglePower')
      BY ONLY <3>3, <3>4, <3>6, significand \in Nat, SMT
    <3>8. QED
      BY ONLY <2>1, <2>4, <3>4, <3>5, <3>7, significand \in Nat, SMT DEF HalfExact
  <2>5. QED
    BY <2>2, <2>3, <2>4
<1>9. HalfRead'
  BY <1>1, <1>8 DEF HalfRead
<1>10. QED
  BY ONLY <1>1, <1>4, <1>7, <1>9, HalfStep, CodecInv, SMT

\* A normalized number.
LEMMA NormalizedStep ==
  ASSUME CodecInv, ConvertNormalized
  PROVE  CodecInv'
<1>1. /\ doing = "half" /\ Exponent = 0 /\ mantissa >= 1024 /\ doing' = "done"
      /\ UNCHANGED <<base64Vars, half, mantissa, unbiased>>
      /\ single' = (unbiased + 127) * 8388608 + (mantissa % 1024) * 8192
  BY SMT DEF ConvertNormalized
<1>2. PICK significand \in Nat : significand = half % 1024
  BY <1>1, HalfParts, SMT
<1>3. PICK k \in Nat :
        /\ k <= 10 /\ unbiased = -14 - k /\ mantissa = (half % 1024) * 2 ^ k
        /\ mantissa \in Nat /\ mantissa < 2048
  BY <1>1, HalfParts, SMT
<1>4. PICK power : power = 2 ^ k
  OBVIOUS
<1>5. power \in Nat /\ 2 ^ (13 + k) = 8192 * power
  BY ONLY <1>3, <1>4, k \in Nat, Powers
<1>6. PICK m \in Nat : m = mantissa /\ m = significand * power /\ m >= 1024 /\ m < 2048
  BY <1>1, <1>2, <1>3, <1>4
<1>7. PICK s \in Nat : s = single' /\ s = (113 - k) * 8388608 + (m - 1024) * 8192
  <2>1. m % 1024 = m - 1024
    BY <1>6, SMT
  <2>2. QED
    BY <1>1, <1>3, <1>6, <2>1, SMT
<1>8. HalfExact'
  <2>1. Exponent' = 0 /\ half' % 1024 = significand
    BY <1>1, <1>2 DEF Exponent
  <2>2. s \div 8388608 = 113 - k /\ s % 8388608 = (m - 1024) * 8192
    <3>1. PICK p \in Nat : p = 113 - k
      BY <1>3
    <3>2. PICK r \in Nat : r = (m - 1024) * 8192 /\ r < 8388608
      BY <1>6, SMT
    <3>3. s = p * 8388608 + r
      BY <1>7, <3>1, <3>2, SMT
    <3>4. s \div 8388608 = p /\ s % 8388608 = r
      BY ONLY <3>2, <3>3, p \in Nat, r \in Nat, SMT
    <3>5. QED
      BY <3>1, <3>2, <3>4, SMT
  <2>3. SinglePower' = -37 - k /\ SingleSignificand' = m * 8192
    BY <1>3, <1>6, <1>7, <2>2, SMT DEF SinglePower, SingleSignificand
  <2>4. HalfPower' = -24 /\ HalfSignificand' = significand
    BY <2>1, SMT DEF HalfPower, HalfSignificand
  <2>5. HalfPower' - SinglePower' = 13 + k /\ HalfPower' >= SinglePower'
    BY <1>3, <2>3, <2>4, SMT
  <2>6. 2 ^ (HalfPower' - SinglePower') = 8192 * power
    <3>1. PICK q : q = HalfPower' - SinglePower'
      OBVIOUS
    <3>2. q = 13 + k
      BY ONLY <2>5, <3>1
    <3>3. 2 ^ q = 8192 * power
      BY ONLY <1>5, <3>2
    <3>4. QED
      BY ONLY <3>1, <3>3
  <2>7. m * 8192 = significand * (8192 * power)
    BY ONLY <1>5, <1>6, significand \in Nat, SMT
  <2>8. SingleSignificand' = HalfSignificand' * 2 ^ (HalfPower' - SinglePower')
    BY ONLY <2>3, <2>4, <2>6, <2>7, SMT
  <2>9. significand # 0
    BY <1>5, <1>6
  <2>10. QED
    BY ONLY <2>1, <2>4, <2>5, <2>8, <2>9, SMT DEF HalfExact
<1>9. HalfRead'
  BY <1>1, <1>8 DEF HalfRead
<1>10. unbiased' \in Int /\ mantissa' \in Nat
  BY <1>1, SMT DEF CodecInv, CodecTypeOK
<1>11. QED
  BY ONLY <1>1, <1>7, <1>9, <1>10, HalfStep, CodecInv, SMT

\* The inductive invariant of the conversions: what was read of a text is what was encoded,
\* and what was made of a half is its value (base64_decode, half_to_float).
THEOREM CodecInvariance == Spec => []CodecInv
<1>1. Init => CodecInv
  BY CodecBegins, CodecAssumption DEF Init
<1>2. ASSUME CodecInv, [Next]_vars
      PROVE  CodecInv'
  <2>1. CASE CodecNext
    BY <1>2, <2>1, HeaderStep, CharacterStep, EndStep, DirectStep, NormalizeStep, NormalizedStep DEF CodecNext
  <2>2. CASE UNCHANGED codecVars
    <3>1. UNCHANGED <<payload, input, position, buffer, bits, out, half, mantissa, unbiased, single, doing>>
      BY <2>2 DEF codecVars, base64Vars, halfVars
    <3>2. CodecTypeOK'
      BY <1>2, <3>1, SMT DEF CodecInv, CodecTypeOK
    <3>3. InputRead'
      <4>1. ASSUME doing \notin {"text", "refused"}
            PROVE  \E j \in 1..(Len(input') + 1), n \in 0..Characters(payload') :
                     ForeignAt(j)' /\ n = Taken(position, j)' /\ Decoded64(n)'
        <5>1. PICK i \in 1..(Len(input) + 1), m \in 0..Characters(payload) :
                ForeignAt(i) /\ m = Taken(position, i) /\ Decoded64(m)
          BY <1>2, <4>1 DEF CodecInv, InputRead
        <5>2. ForeignAt(i)' /\ Decoded64(m)' /\ m = Taken(position, i)'
          BY <3>1, <5>1, InputKept, PayloadKept DEF Decoded64, Taken
        <5>3. QED
          BY <3>1, <5>1, <5>2
      <4>2. QED
        BY <1>2, <3>1, <4>1 DEF CodecInv, InputRead
    <3>4. HalfRead'
      <4>1. HalfExact' <=> HalfExact
        <5>1. /\ HalfPower' = HalfPower /\ HalfSignificand' = HalfSignificand
              /\ SinglePower' = SinglePower /\ SingleSignificand' = SingleSignificand
          BY <3>1, SMT DEF HalfPower, SinglePower, HalfSignificand, SingleSignificand, Exponent
        <5>2. Exponent' = Exponent /\ half' = half /\ single' = single
          BY <3>1, SMT DEF Exponent
        <5>3. QED
          BY ONLY <5>1, <5>2, SMT DEF HalfExact
      <4>2. Exponent' = Exponent
        BY <3>1, SMT DEF Exponent
      <4>3. QED
        BY <1>2, <3>1, <4>1, <4>2 DEF CodecInv, HalfRead
    <3>5. QED
      BY <3>2, <3>3, <3>4 DEF CodecInv
  <2>3. QED
    BY <1>2, <2>1, <2>2 DEF Next, vars
<1>3. QED
  BY <1>1, <1>2, PTL DEF Spec

\* Whatever the payload, and wherever one character is put into its text, decoding gives the
\* payload back or refuses; and every half becomes the single that has its value.
THEOREM CodecsAreExact == Spec => []CodecsExact
<1>1. CodecInv => CodecsExact
  <2> SUFFICES ASSUME CodecInv PROVE CodecsExact
    OBVIOUS
  <2>1. /\ payload \in Seq(Nat) /\ input \in Seq(Nat) /\ Len(input) \in Nat
        /\ DOMAIN input = 1..Len(input)
    BY SMT DEF CodecInv, CodecTypeOK
  <2>2. ASSUME doing = "done"
        PROVE  out = payload
    <3>1. PICK i \in 1..(Len(input) + 1), m \in 0..Characters(payload) :
            ForeignAt(i) /\ m = Taken(position, i) /\ Decoded64(m)
      BY <2>2 DEF CodecInv, InputRead
    <3>2. position = Len(input) + 1
      BY <2>2 DEF CodecInv, InputRead
    <3>3. Before(position, i) >= Characters(payload)
      BY <3>1, <3>2 DEF ForeignAt, Foreign
    <3>4. i \in Nat \ {0} /\ position \in Nat \ {0}
      BY <2>1, <3>2
    <3>5. m = Characters(payload)
      BY ONLY <2>1, <3>1, <3>3, <3>4, TakenNext
    <3>6. PICK n \in Nat : n = Len(payload)
      BY <2>1
    <3>7. (3 * m) \div 4 = n
      BY ONLY <3>5, <3>6, CharacterPlace, n \in Nat, 0 \in Nat, 0 \in 0..3 DEF Characters
    <3>8. out = SubSeq(payload, 1, Len(payload))
      BY <3>1, <3>6, <3>7 DEF Decoded64
    <3>9. QED
      BY <2>1, <3>8, SubSeqFull
  <2>3. doing = "refused" => \E k \in 1..Len(input) : input[k] = Refused
    BY DEF CodecInv, InputRead
  <2>4. doing = "done" => \A k \in 1..Len(input) : input[k] # Refused
    <3>1. doing = "done" => position - 1 = Len(input)
      BY <2>1 DEF CodecInv, InputRead
    <3>2. doing = "done" => \A k \in 1..(position - 1) : input[k] # Refused
      BY DEF CodecInv, InputRead
    <3>3. QED
      BY <3>1, <3>2
  <2>5. doing = "done" /\ input = <<>> => HalfExact
    BY DEF CodecInv, HalfRead
  <2>6. ASSUME doing \in {"done", "refused"}
        PROVE  (doing = "refused") = (Refused \in {input[k] : k \in DOMAIN input})
    <3>1. CASE doing = "refused"
      BY <2>1, <2>3, <3>1
    <3>2. CASE doing = "done"
      <4>1. Refused \notin {input[k] : k \in DOMAIN input}
        BY <2>1, <2>4, <3>2, Zenon
      <4>2. QED
        BY <3>2, <4>1
    <3>3. QED
      BY <2>6, <3>1, <3>2
  <2>7. QED
    BY <2>2, <2>5, <2>6, Zenon DEF CodecsExact
<1>2. QED
  BY <1>1, CodecInvariance, PTL
=============================================================================
