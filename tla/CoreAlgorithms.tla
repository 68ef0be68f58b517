---------------------------- MODULE CoreAlgorithms ----------------------------
(***************************************************************************)
(* The sequential parts of the core that a request passes, side by side:   *)
(* the token loops, the admission of a model, the embedding of a batch,    *)
(* and the two conversions.  A behaviour exercises one of them; the others *)
(* stay as they began.                                                     *)
(***************************************************************************)
EXTENDS Generation, DeviceProfile, Embedding, Codecs

VARIABLE subject

vars == <<subject, generationVars, profileVars, embeddingVars, codecVars>>

\* One initial state each for the parts that are not exercised.
GenerationIdle == hasTools = FALSE /\ state = "text" /\ maxOutput = 1 /\ maxLength = 1
DeviceIdle == /\ system = CHOOSE s \in Systems : TRUE
              /\ memory = 0 /\ readable = FALSE /\ modelBytes = 0
EmbeddingIdle == shapes = <<<<>>>>
CodecIdle == doing = "text" /\ payload = <<>> /\ input = <<>> /\ half = 0

Init ==
  /\ subject \in {"generation", "admission", "embedding", "codecs"}
  /\ IF subject = "generation" THEN TRUE ELSE GenerationIdle
  /\ IF subject = "admission" THEN TRUE ELSE DeviceIdle
  /\ IF subject = "embedding" THEN TRUE ELSE EmbeddingIdle
  /\ IF subject = "codecs" THEN TRUE ELSE CodecIdle
  /\ GenerationInit /\ DeviceInit /\ EmbeddingInit /\ CodecInit

Next ==
  \/ /\ subject = "generation" /\ GenerationNext
     /\ UNCHANGED <<subject, profileVars, embeddingVars, codecVars>>
  \/ /\ subject = "admission" /\ DeviceNext
     /\ UNCHANGED <<subject, generationVars, embeddingVars, codecVars>>
  \/ /\ subject = "embedding" /\ EmbeddingNext
     /\ UNCHANGED <<subject, generationVars, profileVars, codecVars>>
  \/ /\ subject = "codecs" /\ CodecNext
     /\ UNCHANGED <<subject, generationVars, profileVars, embeddingVars>>

Spec == Init /\ [][Next]_vars
=============================================================================
