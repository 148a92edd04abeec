-------------------------- MODULE MCSemanticEngine ---------------------------
(* SemanticEngine on small instances: notes of one chunk and of two, as the
   chunker cuts them; and the chunker on all short sections.                 *)
EXTENDS SemanticEngine, Chunker
CONSTANTS a, b
Short == Len(Chunks(<<"word", "word">>, 2, 1))
Long == Len(Chunks(<<"word", "word", "word">>, 2, 1))
TwoSizes == a :> Short @@ b :> Long
JustOne == a :> Short

(* "Split long text into overlapping chunks" (chunker.py:32): what the overlap
   is for.  Each word that is no longer than the overlap and fits a chunk is
   whole in one, where a search can find it, whatever the section and the sizes:
   unless a window was broken off early.  The vault has no part in it, so it is
   asked before anything changes.                                             *)
WordsAreFound == changes = 0 => WordsAreWhole

SymEmbedders == Permutations(Embedders)
==============================================================================
