---------------------------- MODULE ReverseIndex ----------------------------
(***************************************************************************)
(* p4: the index "word -> documents" of a file "document -> words", by an  *)
(* external merge sort (filereader.cpp, filesorter.cpp, reverse_index.cpp).*)
(* The pairs <<word, document>> are written to a file, which is sorted in  *)
(* runs of max_pairs_; the runs are merged with a heap of one cursor per   *)
(* run; the sorted documents are cut into lists by the counted words.      *)
(* Each iteration of a loop is a step.                                     *)
(*                                                                         *)
(* A position in a file of pairs is the number of pairs before it, less    *)
(* the blank after each: position k is the blank after pair k, and only    *)
(* the end of the file is behind the last blank.  The index is written in  *)
(* binary, so its positions are bytes.                                     *)
(***************************************************************************)
EXTENDS Integers, Sequences, SequencesExt, FiniteSets, Functions

CONSTANTS
  Inputs,      \* input files: sequences of [docid, words]
  max_pairs_,  \* the length of a run
  UINT64_MAX,  \* the largest word, and the -1 of getMin
  UINT32_MOD   \* 2^32: counts are written modulo this number

ASSUME ConstantsAssumption ==
  /\ max_pairs_ \in Nat \ {0} /\ UINT64_MAX \in Nat /\ UINT32_MOD \in Nat \ {0}
  /\ \A file \in Inputs : file \in Seq([docid : Nat, words : Seq(0 .. UINT64_MAX)])

VARIABLES
  input,       \* the input file
  pc,          \* "read", "partlySort", "initialize", "merge", "offsets", "lists", "done"
  doc, word,   \* the document, and the word of it, that FileReader reads next
  word_dict_,  \* word -> how often it occurs
  pairs,       \* the file "pairs"
  read_pairs,  \* how many of them partlySort has read
  sort_buf_,   \* the part of sort_buf_ in use
  partly,      \* the file "partly_sorted_pairs"
  file_positions_, next_file_positions_,
  first,       \* the run whose first pair getMin reads next, when it initializes
  heap_,       \* a set of cursors: run, word, doc and what follows in the run
  sorted,      \* the file "sorted_pairs"
  it,          \* the words that the loop over word_dict has not come to
  cur_offset, prev_cnt_docs,
  left,        \* how many documents the list under way has still to get
  read_docs,   \* how many pairs of "sorted_pairs" have been read again
  cur_d,       \* the document read last
  index        \* the file "reverse_index.bin": its size, and the field at a byte

reader == <<doc, word, word_dict_, pairs>>
sorter == <<read_pairs, sort_buf_, partly, file_positions_, next_file_positions_>>
merger == <<first, heap_, sorted>>
writer == <<it, cur_offset, prev_cnt_docs, left, read_docs, cur_d, index>>
vars == <<input, pc, reader, sorter, merger, writer>>

Least(a, b) == IF a <= b THEN a ELSE b

PairLess(a, b) == a[1] < b[1] \/ (a[1] = b[1] /\ a[2] < b[2])

(* std::sort *)
Rearranged(s) == {[i \in DOMAIN s |-> s[f[i]]] : f \in Bijection(DOMAIN s, DOMAIN s)}

InOrder(s) == \A i, j \in DOMAIN s : i < j => ~PairLess(s[j], s[i])

sort(s) == CHOOSE t \in Rearranged(s) : InOrder(t)

-----------------------------------------------------------------------------
(* filereader.cpp *)

ReadWord ==
  /\ pc = "read" /\ doc <= Len(input) /\ word <= Len(input[doc].words)
  /\ LET w == input[doc].words[word]
     IN /\ pairs' = Append(pairs, <<w, input[doc].docid>>)
        /\ word_dict_' = [v \in DOMAIN word_dict_ \cup {w} |->
                            IF v # w THEN word_dict_[v]
                            ELSE IF v \in DOMAIN word_dict_ THEN word_dict_[v] + 1 ELSE 1]
  /\ word' = word + 1
  /\ UNCHANGED <<input, pc, doc, sorter, merger, writer>>

NextDocument ==
  /\ pc = "read" /\ doc <= Len(input) /\ word > Len(input[doc].words)
  /\ doc' = doc + 1 /\ word' = 1
  /\ UNCHANGED <<input, pc, word_dict_, pairs, sorter, merger, writer>>

(* The end of the input; partlySort begins. *)
EndOfInput ==
  /\ pc = "read" /\ doc > Len(input)
  /\ pc' = "partlySort"
  /\ file_positions_' = <<0>>
  /\ UNCHANGED <<input, reader, read_pairs, sort_buf_, partly, next_file_positions_, merger, writer>>

-----------------------------------------------------------------------------
(* filesorter.cpp *)

(* Where the file ends: behind the blank after the last pair. *)
filesize_ == IF pairs = <<>> THEN 0 ELSE Len(pairs) + 1

(* partlySort reads a pair; a full buffer is sorted and flushed. *)
ReadPair ==
  /\ pc = "partlySort" /\ read_pairs < Len(pairs)
  /\ LET buf == Append(sort_buf_, pairs[read_pairs + 1])
     IN /\ read_pairs' = read_pairs + 1
        /\ IF Len(buf) < max_pairs_
           THEN /\ sort_buf_' = buf
                /\ UNCHANGED <<partly, file_positions_, next_file_positions_>>
           ELSE /\ sort_buf_' = <<>>
                /\ partly' = partly \o sort(buf)
                /\ file_positions_' = Append(file_positions_, read_pairs')
                /\ next_file_positions_' = Append(next_file_positions_, read_pairs')
  /\ UNCHANGED <<input, pc, reader, merger, writer>>

LastRun_NotPopped(positions, buf) == positions   \* mutant: pop_back is forgotten

(* The position of a run that turned out to be empty is dropped. *)
LastRun(positions, buf) == IF buf = <<>> THEN Front(positions) ELSE positions

EndOfRuns_NotFlushed(file, buf) == file          \* mutant: the last, short run is not flushed

EndOfRuns(file, buf) == file \o sort(buf)

FlushRest ==
  /\ pc = "partlySort" /\ read_pairs = Len(pairs)
  /\ partly' = EndOfRuns(partly, sort_buf_)
  /\ file_positions_' = LastRun(file_positions_, sort_buf_)
  /\ next_file_positions_' = IF sort_buf_ = <<>> THEN next_file_positions_
                             ELSE Append(next_file_positions_, filesize_)
  /\ sort_buf_' = <<>>
  /\ pc' = "initialize" /\ first' = 1
  /\ UNCHANGED <<input, reader, read_pairs, heap_, sorted, writer>>

(* heap_ is a std::set ordered by word and document alone: a cursor equal  *)
(* in both to one in the heap is not inserted, and its run is lost.        *)
HeapInsert(h, e) ==
  IF \E x \in h : x.word = e.word /\ x.doc = e.doc THEN h ELSE h \cup {e}

HasNext_WholeFile(run, offset) == offset < Len(partly)   \* mutant: a run ends at the end of the file

HasNext(run, offset) == offset < next_file_positions_[run]

(* The cursor of run at offset; at the end of the file the read fails.     *)
Advance(h, run, offset) ==
  IF HasNext(run, offset) /\ offset < Len(partly)
  THEN HeapInsert(h, [run |-> run, next_offset |-> offset + 1,
                      word |-> partly[offset + 1][1], doc |-> partly[offset + 1][2]])
  ELSE h

(* The first call of getMin puts a cursor of each run into the heap.       *)
InitializeHeap ==
  /\ pc = "initialize"
  /\ IF first \in DOMAIN file_positions_
     THEN /\ heap_' = Advance(heap_, first, file_positions_[first])
          /\ first' = first + 1
          /\ UNCHANGED pc
     ELSE pc' = "merge" /\ UNCHANGED <<heap_, first>>
  /\ UNCHANGED <<input, reader, sorter, sorted, writer>>

(* getMin, and what sort does with its result: the word -1 is the end.     *)
(* Then makeReverseIndex opens the index.                                  *)
MergeStep ==
  /\ pc = "merge"
  /\ IF heap_ = {} THEN pc' = "offsets" /\ UNCHANGED <<heap_, sorted>>
     ELSE LET m == CHOOSE x \in heap_ : \A y \in heap_ :
                     ~PairLess(<<y.word, y.doc>>, <<x.word, x.doc>>)
          IN /\ heap_' = Advance(heap_ \ {m}, m.run, m.next_offset)
             /\ IF m.word = UINT64_MAX THEN pc' = "offsets" /\ UNCHANGED sorted
                ELSE sorted' = Append(sorted, <<m.word, m.doc>>) /\ UNCHANGED pc
  /\ it' = DOMAIN word_dict_
  /\ UNCHANGED <<input, reader, sorter, first, cur_offset, prev_cnt_docs, left, read_docs, cur_d, index>>

-----------------------------------------------------------------------------
(* reverse_index.cpp *)

Field(size, value) == [size |-> size, value |-> value]

(* write: a field at the end of the file. *)
write(file, f) ==
  [size |-> file.size + f.size,
   at |-> [b \in DOMAIN file.at \cup {file.size} |-> IF b = file.size THEN f ELSE file.at[b]]]

Smallest(S) == CHOOSE w \in S : \A v \in S : w <= v

HeaderSize == 16 * (Cardinality(DOMAIN word_dict_) + 1)

ListSize_NoCount(n) == 8 * n                     \* mutant: the count field is forgotten

ListSize(n) == 4 + 8 * n

(* The first loop over word_dict: each word, and where its list will be.   *)
WriteOffset ==
  /\ pc = "offsets" /\ it # {}
  /\ LET w == Smallest(it)
     IN /\ cur_offset' = cur_offset + (IF it = DOMAIN word_dict_ THEN HeaderSize ELSE ListSize(prev_cnt_docs))
        /\ prev_cnt_docs' = word_dict_[w]
        /\ index' = write(write(index, Field(8, w)), Field(8, cur_offset'))
        /\ it' = it \ {w}
  /\ UNCHANGED <<input, pc, reader, sorter, merger, left, read_docs, cur_d>>

(* cur_d is not initialized. *)
Uninitialized == {0} \cup {input[i].docid : i \in DOMAIN input}

EndOfOffsets ==
  /\ pc = "offsets" /\ it = {}
  /\ index' = write(write(index, Field(8, 0)), Field(8, 0))
  /\ cur_d' \in IF sorted = <<>> THEN Uninitialized ELSE {0}
  /\ pc' = "lists" /\ it' = DOMAIN word_dict_
  /\ UNCHANGED <<input, reader, sorter, merger, cur_offset, prev_cnt_docs, left, read_docs>>

(* cnt_docs has 32 bits, in the index and in what checker.cpp writes; the  *)
(* loop over the documents, and the offsets, use the whole count.          *)
CountField(n) == n % UINT32_MOD

(* The second loop: the count of a word's documents, and those.            *)
WriteCount ==
  /\ pc = "lists" /\ left = 0 /\ it # {}
  /\ LET w == Smallest(it)
     IN /\ index' = write(index, Field(4, CountField(word_dict_[w])))
        /\ left' = word_dict_[w]
        /\ it' = it \ {w}
  /\ UNCHANGED <<input, pc, reader, sorter, merger, cur_offset, prev_cnt_docs, read_docs, cur_d>>

(* At the end of the file cur_d keeps what it had.                         *)
WriteDocument ==
  /\ pc = "lists" /\ left > 0
  /\ IF read_docs < Len(sorted) THEN cur_d' = sorted[read_docs + 1][2] /\ read_docs' = read_docs + 1
     ELSE UNCHANGED <<cur_d, read_docs>>
  /\ index' = write(index, Field(8, cur_d'))
  /\ left' = left - 1
  /\ UNCHANGED <<input, pc, reader, sorter, merger, it, cur_offset, prev_cnt_docs>>

EndOfLists ==
  /\ pc = "lists" /\ left = 0 /\ it = {}
  /\ pc' = "done"
  /\ UNCHANGED <<input, reader, sorter, merger, writer>>

-----------------------------------------------------------------------------
Init ==
  /\ input \in Inputs
  /\ pc = "read"
  /\ doc = 1 /\ word = 1
  /\ word_dict_ = [w \in {} |-> 0]
  /\ pairs = <<>> /\ read_pairs = 0 /\ sort_buf_ = <<>> /\ partly = <<>>
  /\ file_positions_ = <<>> /\ next_file_positions_ = <<>>
  /\ first = 1 /\ heap_ = {} /\ sorted = <<>>
  /\ it = {} /\ cur_offset = 0 /\ prev_cnt_docs = 0
  /\ left = 0 /\ read_docs = 0 /\ cur_d = 0
  /\ index = [size |-> 0, at |-> [b \in {} |-> Field(0, 0)]]

Next ==
  \/ ReadWord \/ NextDocument \/ EndOfInput
  \/ ReadPair \/ FlushRest
  \/ InitializeHeap \/ MergeStep
  \/ WriteOffset \/ EndOfOffsets
  \/ WriteCount \/ WriteDocument \/ EndOfLists

Spec == Init /\ [][Next]_vars

-----------------------------------------------------------------------------
(* The types; the runs follow each other without a gap, as many starts as  *)
(* ends, which the assert that is commented out in partlySort says; and no *)
(* cursor or reader is ever past the end of its file.                      *)
TypeOK ==
  /\ pc \in {"read", "partlySort", "initialize", "merge", "offsets", "lists", "done"}
  /\ read_pairs \in 0 .. Len(pairs) /\ Len(sort_buf_) < max_pairs_
  /\ \A e \in heap_ : e.run \in DOMAIN file_positions_ /\ e.next_offset \in 1 .. Len(partly)
  /\ pc \in {"initialize", "merge"} =>
       /\ Len(file_positions_) = Len(next_file_positions_)
       /\ \A i \in 2 .. Len(file_positions_) : file_positions_[i] = next_file_positions_[i - 1]
  /\ it \subseteq DOMAIN word_dict_ /\ left \in Nat /\ read_docs \in 0 .. Len(sorted)
  /\ \A b \in DOMAIN index.at : b + index.at[b].size <= index.size

(* No pair is lost or doubled between the files while runs are merged:     *)
(* what is written, and what the cursors in the heap have not passed, are  *)
(* the pairs of the input.                                                 *)
Ahead(e) == e.next_offset .. Least(next_file_positions_[e.run], Len(partly))

ToCome(p) == {ek \in heap_ \X DOMAIN partly : ek[2] \in Ahead(ek[1]) /\ partly[ek[2]] = p}

Count(p, s) == Cardinality({i \in DOMAIN s : s[i] = p})

MergeKeepsPairs ==
  pc = "merge" =>
    \A p \in ToSet(pairs) : Count(p, pairs) = Count(p, sorted) + Cardinality(ToCome(p))

(* The merge writes in order, and nothing is left behind that should have  *)
(* been written before.                                                    *)
MergeIsSorted ==
  /\ \A i \in 1 .. Len(sorted) - 1 : ~PairLess(sorted[i + 1], sorted[i])
  /\ \A e \in heap_ : sorted # <<>> => ~PairLess(<<e.word, e.doc>>, Last(sorted))

(* checker.cpp: a word occurs at <<document, place>>; its documents are in *)
(* the order of the input.                                                 *)
Occurrences(w) ==
  UNION {{<<d, k>> : k \in {k \in DOMAIN input[d].words : input[d].words[k] = w}} : d \in DOMAIN input}

InputWords == UNION {ToSet(input[d].words) : d \in DOMAIN input}

IsAt(b, f) == b \in DOMAIN index.at /\ index.at[b] = f

(* A reader of the finished index finds the words in order, and at a       *)
(* word's offset the number of its documents, and behind it the documents, *)
(* as checker.cpp has them.                                                *)
IndexIsRight ==
  pc = "done" =>
    /\ \A w \in InputWords :
         LET entry == 16 * Cardinality({v \in InputWords : v < w})
             offset == index.at[entry + 8].value
             docs == Occurrences(w)
         IN /\ IsAt(entry, Field(8, w))
            /\ IsAt(offset, Field(4, CountField(Cardinality(docs))))
            /\ \A o \in docs :
                 IsAt(offset + 4 + 8 * Cardinality({q \in docs : PairLess(q, o)}),
                      Field(8, input[o[1]].docid))
    /\ \A b \in {0, 8} : IsAt(16 * Cardinality(InputWords) + b, Field(8, 0))
=============================================================================
