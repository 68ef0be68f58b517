------------------------------- MODULE Embedding -------------------------------
(***************************************************************************)
(* Session::Embed of core/src/session.cc: one vector for every input, the  *)
(* last row of the tensor that the model made of it.  The tensor's shape   *)
(* comes from the model and is not to be trusted: its dimensions are       *)
(* 64-bit and signed, and their product must fit a size_t.                 *)
(***************************************************************************)
EXTENDS Integers, Sequences, SequencesExt

CONSTANTS Dimensions, \* what a tensor's dimensions may be
          MaxRank,    \* bound of the model: the most dimensions
          MaxInputs,  \* bound of the model: the most inputs
          SizeMax     \* numeric_limits<size_t>::max()

ASSUME EmbeddingAssumption ==
  Dimensions \subseteq Int /\ MaxRank \in Nat /\ MaxInputs \in Nat /\ SizeMax \in Nat \ {0}

VARIABLES shapes,     \* of the tensors the model makes of the inputs
          index, axis,          \* input_index; how many dimensions the shape loop has seen
          elements,             \* element_count
          embeddings, expected, \* embeddings (which part of which tensor), dimensions
          halted,     \* the job's cancellation was requested
          embed       \* input, shape, vector; returned, threw

embeddingVars == <<shapes, index, axis, elements, embeddings, expected, halted, embed>>

EmbeddingInit ==
  /\ shapes \in BoundedSeq(BoundedSeq(Dimensions, MaxRank), MaxInputs) \ {<<>>}
  /\ index = 1 /\ axis = 0 /\ elements = 1
  /\ embeddings = <<>> /\ expected = 0
  /\ halted = FALSE /\ embed = "input"

Shape == shapes[index]

CancelEmbedding ==
  /\ ~halted /\ embed \notin {"returned", "threw"}
  /\ halted' = TRUE
  /\ UNCHANGED <<shapes, index, axis, elements, embeddings, expected, embed>>

\* ThrowIfCancelled; then the input is tokenized and run, and its output's shape read.  An
\* input that is no string or is empty throws, as may the model.
RunModel ==
  /\ embed = "input"
  /\ \/ embed' = "threw"
     \/ ~halted /\ Shape # <<>> /\ embed' = "shape"
  /\ axis' = 0 /\ elements' = 1
  /\ UNCHANGED <<shapes, index, embeddings, expected, halted>>

\* Fault: the product is not checked and wraps.
Multiply_Wraps(dimension) == [valid |-> dimension > 0, count |-> (elements * dimension) % (SizeMax + 1)]

\* The check of a dimension, and the product with it.
Multiply(dimension) == [valid |-> dimension > 0 /\ dimension <= SizeMax \div elements,
                        count |-> elements * dimension]

\* An iteration of the loop over the shape.
ReadDimension ==
  /\ embed = "shape" /\ axis < Len(Shape)
  /\ LET product == Multiply(Shape[axis + 1]) IN
     IF product.valid THEN axis' = axis + 1 /\ elements' = product.count /\ UNCHANGED embed
                      ELSE embed' = "threw" /\ UNCHANGED <<axis, elements>>
  /\ UNCHANGED <<shapes, index, embeddings, expected, halted>>

\* A vector has been found, unless it has no elements, or the data are missing or of an
\* unsupported type.
FindVector ==
  /\ embed = "shape" /\ axis = Len(Shape)
  /\ \/ embed' = "threw"
     \/ Last(Shape) # 0 /\ elements >= Last(Shape) /\ embed' = "vector"
  /\ UNCHANGED <<shapes, index, axis, elements, embeddings, expected, halted>>

Offset == elements - Last(Shape)

\* The vector is copied, converted and normalized; all must be as long as the first one.
\* The progress callback may ask to stop.
TakeVector ==
  /\ embed = "vector"
  /\ expected' = IF expected = 0 THEN Last(Shape) ELSE expected
  /\ IF expected' # Last(Shape)
       THEN embed' = "threw" /\ UNCHANGED <<index, embeddings, halted>>
       ELSE /\ embeddings' = Append(embeddings, [of |-> index, from |-> Offset, size |-> Last(Shape)])
            /\ halted' \in {halted, TRUE}
            /\ index' = index + 1
            /\ embed' = IF index = Len(shapes) THEN "returned" ELSE "input"
  /\ UNCHANGED <<shapes, axis, elements>>

EmbeddingNext == CancelEmbedding \/ RunModel \/ ReadDimension \/ FindVector \/ TakeVector

-----------------------------------------------------------------------------
\* How many elements a tensor really has: the product of its dimensions, here of the first n.
Product(shape, n) ==
  LET product[i \in 0..n] == IF i = 0 THEN 1 ELSE product[i - 1] * shape[i] IN product[n]

Volume(shape) == Product(shape, Len(shape))

\* Whatever shapes a model reports, a vector is read only inside its tensor and is the row
\* of the last token, and a result has one vector for every input, in the inputs' order and
\* all of one length.  A size that does not fit a size_t never passes for one that does.
EmbeddingsAligned ==
  /\ \A i \in DOMAIN embeddings :
       LET e == embeddings[i] IN LET shape == shapes[i] IN
       /\ e.of = i /\ e.size = Last(shape) /\ e.size = embeddings[1].size
       /\ e.from >= 0 /\ e.from + e.size = Volume(shape) /\ Volume(shape) <= SizeMax
  /\ embed = "returned" => Len(embeddings) = Len(shapes)
  /\ embed = "vector" => elements = Volume(Shape)

-----------------------------------------------------------------------------
(* The inductive invariant of the batch.                                   *)

EmbeddingTypeOK ==
  /\ shapes \in Seq(Seq(Int)) /\ index \in 1..(Len(shapes) + 1)
  /\ axis \in Nat /\ elements \in 1..SizeMax /\ expected \in Nat
  /\ embeddings \in Seq([of : Nat, from : Int, size : Int])
  /\ embed \in {"input", "shape", "vector", "returned", "threw"}

\* The count so far is the exact product of the dimensions that were seen, all positive.
ShapeRead ==
  /\ embed # "returned" => index <= Len(shapes)
  /\ embed \in {"shape", "vector"} =>
       /\ Shape # <<>> /\ axis <= Len(Shape) /\ elements = Product(Shape, axis)
       /\ \A k \in 1..axis : Shape[k] > 0
  /\ embed = "vector" => axis = Len(Shape) /\ elements >= Last(Shape)

\* There is a vector for every input before this one.
VectorsTaken ==
  /\ Len(embeddings) = index - 1
  /\ embed = "returned" => index = Len(shapes) + 1
  /\ expected = IF embeddings = <<>> THEN 0 ELSE embeddings[1].size
  /\ \A i \in 1..Len(embeddings) :
       LET e == embeddings[i] IN LET shape == shapes[i] IN
       /\ e.of = i /\ e.size = Last(shape) /\ e.size = expected /\ e.size > 0
       /\ e.from >= 0 /\ e.from + e.size = Volume(shape) /\ Volume(shape) <= SizeMax

EmbeddingInv == EmbeddingTypeOK /\ ShapeRead /\ VectorsTaken
=============================================================================
