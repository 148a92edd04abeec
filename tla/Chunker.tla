------------------------------ MODULE Chunker --------------------------------
(***************************************************************************)
(* How a section of a note is cut into chunks for semantic search           *)
(* (_split_with_overlap of retrieval/chunker.py).  A character is told      *)
(* apart as part of a word, a blank or a line break; offsets are those of   *)
(* the code, from 0, and an end is one past the last.                       *)
(***************************************************************************)
EXTENDS Integers, SequencesExt, FiniteSetsExt

CONSTANTS
  Lengths,   \* lengths of the sections
  Sizes,     \* values of config.SEMANTIC_CHUNK_SIZE
  Overlaps   \* values of config.SEMANTIC_CHUNK_OVERLAP

ASSUME LengthsAssumption == Lengths \subseteq Nat \ {0}
ASSUME ConfigAssumption == Sizes \subseteq Nat /\ Overlaps \subseteq Nat

Char(text, i) == text[i + 1]

(* What chunk_markdown_file cuts up: sections are stripped, and never empty. *)
Sections(n) == {s \in [1 .. n -> {"word", "blank", "line"}] : s[1] = "word" /\ s[n] = "word"}

Stride(size, overlap) == Max({1, size - overlap})

LastOf(text, kind, start, end) ==
  Max({i \in start + 1 .. end - 1 : Char(text, i) = kind} \cup {start})

(* Where a window ends that may reach from start up to end: at its last line
   break, else its last blank, else in the middle of a word.                 *)
Break(text, start, end) ==
  LET line == LastOf(text, "line", start, end)
      blank == LastOf(text, "blank", start, end)
  IN
  IF end = Len(text) THEN end
  ELSE IF line > start THEN line
  ELSE IF blank > start THEN blank ELSE end

(* The overlap is forgotten. *)
NextStartBehind(start, end, size, overlap) == Max({end, start + Stride(size, overlap)})

NextStart(start, end, size, overlap) == Max({end - overlap, start + Stride(size, overlap)})

(* A section that fits is one window, however it is broken. *)
Windows(text, size, overlap) ==
  LET from[start \in Nat] ==
        LET end == Break(text, start, Min({Len(text), start + size}))
            after == NextStart(start, end, size, overlap)
        IN
        <<[from |-> start, to |-> end]>>
          \o IF end >= Len(text) \/ after >= Len(text) THEN <<>> ELSE from[after]
  IN
  IF Len(text) <= size THEN <<[from |-> 0, to |-> Len(text)]>> ELSE from[0]

(* A window without a word is no chunk. *)
HasWord(text, w) == \E i \in w.from .. w.to - 1 : Char(text, i) = "word"
Chunks(text, size, overlap) ==
  LET windows == Windows(text, size, overlap) IN
  FlattenSeq([i \in DOMAIN windows |->
                IF HasWord(text, windows[i]) THEN <<windows[i]>> ELSE <<>>])

------------------------------------------------------------------------------
(* What the windows ought to be *)

(* Offsets at which a word begins and ends. *)
Words(text) ==
  {w \in [from : 0 .. Len(text) - 1, to : 1 .. Len(text)] :
     /\ w.from < w.to
     /\ \A i \in w.from .. w.to - 1 : Char(text, i) = "word"
     /\ w.from = 0 \/ Char(text, w.from - 1) # "word"
     /\ w.to = Len(text) \/ Char(text, w.to) # "word"}

(* A window was broken off before its first step: the next begins behind a gap. *)
LeavesAGap(text, size, overlap) ==
  LET windows == Windows(text, size, overlap) IN
  \E i \in DOMAIN windows :
    windows[i].to < Len(text) /\ windows[i].to < windows[i].from + Stride(size, overlap)

(* Every word that is no longer than the overlap and fits a chunk is whole in one. *)
WordsAreWhole ==
  \A n \in Lengths, size \in Sizes, overlap \in Overlaps : \A text \in Sections(n) :
    LET chunks == Chunks(text, size, overlap) IN
    \/ LeavesAGap(text, size, overlap)
    \/ \A w \in Words(text) :
         w.to - w.from <= Min({overlap, size}) =>
           \E i \in DOMAIN chunks : chunks[i].from <= w.from /\ w.to <= chunks[i].to
==============================================================================
