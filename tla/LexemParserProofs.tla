------------------------- MODULE LexemParserProofs --------------------------
(***************************************************************************)
(* What is proved of LexemParser for lines of every length.                *)
(*                                                                         *)
(* First what a list of lexems covers and how that grows by a lexem and by *)
(* spaces, then the invariant: a word is left between prev_it and end, and *)
(* all before prev_it is in the lexems.                                    *)
(*                                                                         *)
(* Then that the lexems are the longest: where a lexem must begin is told  *)
(* by the run of equal characters it stands in, and what parse has passed  *)
(* since prev_it are characters of one argument.                           *)
(***************************************************************************)
EXTENDS LexemParser, SequenceTheorems, TLAPS

LexemRecord == [from : Positions, to : Positions, type : LexemType]

(* The lexems ls are what the line has before p, spaces left out. *)
Covers(ls, p) ==
  /\ \A i \in DOMAIN ls : ls[i].from < ls[i].to /\ ls[i].to <= p
  /\ \A i, j \in DOMAIN ls : i < j => ls[i].to <= ls[j].from
  /\ \A k \in 1 .. p - 1 :
       ~IsSpace(k) <=> \E i \in DOMAIN ls : k \in ls[i].from .. ls[i].to - 1

(* A lexem that begins where the others end, and holds no space. *)
LEMMA LexemCovers ==
  ASSUME NEW ls \in Seq(LexemRecord), NEW p \in Positions, NEW q \in Positions,
         NEW l \in LexemRecord, l.from = p, l.to = q, p < q,
         \A k \in p .. q - 1 : ~IsSpace(k),
         Covers(ls, p)
  PROVE  /\ Covers(Append(ls, l), q)
         /\ Append(ls, l) \in Seq(LexemRecord)
<1> DEFINE n == Len(ls) + 1
           new == Append(ls, l)
<1>0. p \in Int /\ q \in Int /\ 1 <= p /\ 1 <= q
  BY DEF Positions
<1>1. /\ Len(ls) \in Nat /\ DOMAIN ls = 1 .. Len(ls)
      /\ \A i \in DOMAIN ls : ls[i] \in LexemRecord
  BY ElementOfSeq, LenProperties
<1>2. /\ new \in Seq(LexemRecord) /\ Len(new) = n /\ DOMAIN new = 1 .. n
      /\ \A i \in 1 .. Len(ls) : new[i] = ls[i]
      /\ new[n] = l
  BY <1>1, AppendProperties
<1> HIDE DEF new
<1>3. \A i \in 1 .. Len(ls) : /\ ls[i].from \in Positions /\ ls[i].to \in Positions
                             /\ ls[i].from < ls[i].to /\ ls[i].to <= p
  BY <1>1 DEF Covers, LexemRecord
<1>4. \A i \in DOMAIN new : new[i].from < new[i].to /\ new[i].to <= q
  BY <1>0, <1>1, <1>2, <1>3 DEF Positions
<1>5. \A i, j \in DOMAIN new : i < j => new[i].to <= new[j].from
  BY <1>0, <1>1, <1>2, <1>3 DEF Positions, Covers
<1>6. ASSUME NEW k \in 1 .. q - 1
      PROVE  ~IsSpace(k) <=> \E i \in DOMAIN new : k \in new[i].from .. new[i].to - 1
  <2>1. CASE k < p
    <3>1. k \in 1 .. p - 1
      BY <1>0, <2>1
    <3>2. ~(k \in new[n].from .. new[n].to - 1)
      BY <1>0, <1>2, <2>1
    <3>3. ASSUME NEW i \in DOMAIN new, k \in new[i].from .. new[i].to - 1
          PROVE  \E j \in DOMAIN ls : k \in ls[j].from .. ls[j].to - 1
      <4>1. i \in 1 .. Len(ls)
        BY <1>1, <1>2, <3>2, <3>3
      <4> QED
        BY <1>1, <1>2, <3>3, <4>1
    <3>4. ASSUME NEW j \in DOMAIN ls, k \in ls[j].from .. ls[j].to - 1
          PROVE  \E i \in DOMAIN new : k \in new[i].from .. new[i].to - 1
      <4>1. j \in DOMAIN new /\ new[j] = ls[j]
        BY <1>1, <1>2
      <4> QED
        BY <3>4, <4>1
    <3> QED
      BY <3>1, <3>3, <3>4 DEF Covers
  <2>2. CASE k >= p
    <3>1. k \in p .. q - 1
      BY <1>0, <2>2
    <3>2. n \in DOMAIN new /\ k \in new[n].from .. new[n].to - 1
      BY <1>0, <1>1, <1>2, <3>1
    <3> QED
      BY <3>1, <3>2
  <2> QED
    BY <1>0, <2>1, <2>2
<1> QED
  BY <1>2, <1>4, <1>5, <1>6 DEF Covers, new

(* Spaces that are passed over. *)
LEMMA SpacesCover ==
  ASSUME NEW ls \in Seq(LexemRecord), NEW p \in Positions, NEW q \in Positions,
         p <= q, \A k \in p .. q - 1 : IsSpace(k), Covers(ls, p)
  PROVE  Covers(ls, q)
<1>0. p \in Int /\ q \in Int /\ 1 <= p /\ 1 <= q
  BY DEF Positions
<1>1. /\ DOMAIN ls = 1 .. Len(ls)
      /\ \A i \in DOMAIN ls : ls[i] \in LexemRecord
  BY ElementOfSeq, LenProperties
<1>2. \A i \in DOMAIN ls : /\ ls[i].from \in Positions /\ ls[i].to \in Positions
                           /\ ls[i].from < ls[i].to /\ ls[i].to <= p
  BY <1>1 DEF Covers, LexemRecord
<1>3. \A i \in DOMAIN ls : ls[i].from < ls[i].to /\ ls[i].to <= q
  BY <1>0, <1>2 DEF Positions
<1>4. ASSUME NEW k \in 1 .. q - 1
      PROVE  ~IsSpace(k) <=> \E i \in DOMAIN ls : k \in ls[i].from .. ls[i].to - 1
  <2>1. CASE k < p
    BY <1>0, <2>1 DEF Covers
  <2>2. CASE k >= p
    <3>1. IsSpace(k)
      BY <1>0, <2>2
    <3>2. ~\E i \in DOMAIN ls : k \in ls[i].from .. ls[i].to - 1
      BY <1>0, <1>2, <2>2 DEF Positions
    <3> QED
      BY <3>1, <3>2
  <2> QED
    BY <1>0, <2>1, <2>2
<1> QED
  BY <1>3, <1>4 DEF Covers

-----------------------------------------------------------------------------
(* The rest of a word, between prev_it and end, holds no space; parse      *)
(* looks for operators nowhere else.                                       *)
WordHoldsNoSpace == \A k \in prev_it .. end - 1 : ~IsSpace(k)

IInv == TypeOK /\ WordHoldsNoSpace /\ Covers(lexems_, prev_it)

(* Nothing is read at first.                                               *)
LEMMA Initially == Init => IInv
<1> SUFFICES ASSUME Init PROVE IInv
  OBVIOUS
<1>1. input_ \in Seq(STRING) /\ Len(input_) \in Nat
  BY InputsAssumption, LenProperties DEF Init
<1>2. lexems_ = <<>> /\ prev_it = 1 /\ it1 = 1 /\ end = 1
  BY DEF Init
<1>3. TypeOK
  BY <1>1, <1>2 DEF TypeOK, Positions
<1>4. WordHoldsNoSpace
  BY <1>2 DEF WordHoldsNoSpace
<1>5. Covers(lexems_, prev_it)
  BY <1>2 DEF Covers
<1> QED
  BY <1>3, <1>4, <1>5 DEF IInv

(* A word is taken from the stream.                                        *)
LEMMA TakeWordKeeps == IInv /\ TakeWord => IInv'
<1> SUFFICES ASSUME IInv, TakeWord PROVE IInv'
  OBVIOUS
<1>1. /\ input_ \in Seq(STRING) /\ Len(input_) \in Nat
      /\ prev_it \in Positions /\ end \in Positions /\ it1 = end /\ prev_it = end
      /\ lexems_ \in Seq(LexemRecord)
  BY LenProperties DEF IInv, TypeOK, TakeWord, LexemRecord
<1>2. PICK from \in end .. Len(input_) : \E to \in from + 1 .. Len(input_) + 1 :
        /\ \A k \in end .. from - 1 : IsSpace(k)
        /\ \A k \in from .. to - 1 : ~IsSpace(k)
        /\ prev_it' = from /\ it1' = from /\ end' = to
  BY DEF TakeWord
<1>3. PICK to \in from + 1 .. Len(input_) + 1 :
        /\ \A k \in end .. from - 1 : IsSpace(k)
        /\ \A k \in from .. to - 1 : ~IsSpace(k)
        /\ prev_it' = from /\ it1' = from /\ end' = to
  BY <1>2
<1>4. input_' = input_ /\ lexems_' = lexems_ /\ \A k : IsSpace(k)' <=> IsSpace(k)
  BY DEF TakeWord, IsSpace
<1>5. from \in Positions /\ to \in Positions /\ prev_it <= from
  BY <1>1 DEF Positions
<1>6. TypeOK'
  BY <1>1, <1>3, <1>4, <1>5 DEF TypeOK, LexemRecord, Positions
<1>7. WordHoldsNoSpace'
  BY <1>3, <1>4 DEF WordHoldsNoSpace
<1>8. Covers(lexems_, from)
  BY <1>1, <1>3, <1>5, SpacesCover DEF IInv
<1>9. Covers(lexems_, prev_it)'
  BY <1>3, <1>4, <1>8 DEF Covers
<1> QED
  BY <1>6, <1>7, <1>9 DEF IInv

(* A character that begins no operator.                                    *)
LEMMA AdvanceKeeps == IInv /\ Advance => IInv'
<1> SUFFICES ASSUME IInv, Advance PROVE IInv'
  OBVIOUS
<1>1. TypeOK'
  BY DEF IInv, TypeOK, Advance, Positions
<1>2. \A k : IsSpace(k)' <=> IsSpace(k)
  BY DEF Advance, IsSpace
<1>3. WordHoldsNoSpace' /\ Covers(lexems_, prev_it)'
  BY <1>2 DEF IInv, WordHoldsNoSpace, Covers, Advance
<1> QED
  BY <1>1, <1>3 DEF IInv

(* What is pushed is a lexem.                                              *)
LEMMA LexemTypes ==
  ASSUME NEW p \in Positions, NEW q \in Positions
  PROVE  Lexem(p, q) \in LexemRecord /\ Argument(p, q) \in LexemRecord
<1>1. \A w : takeType_(w) \in LexemType
  BY DEF takeType_, IsOperator, LexemType
<1> QED
  BY <1>1 DEF Lexem, Argument, LexemRecord, LexemType

(* An argument that is pushed before what ends it. *)
LEMMA PendingCovers ==
  ASSUME IInv, it1 <= end
  PROVE  /\ Covers(lexems_ \o Pending, it1)
         /\ lexems_ \o Pending \in Seq(LexemRecord)
<1>1. /\ lexems_ \in Seq(LexemRecord)
      /\ prev_it \in Positions /\ it1 \in Positions /\ end \in Positions /\ prev_it <= it1
      /\ Covers(lexems_, prev_it)
  BY DEF IInv, TypeOK, LexemRecord
<1>2. CASE prev_it < it1
  <2>1. Argument(prev_it, it1) \in LexemRecord
    BY <1>1, LexemTypes
  <2>2. lexems_ \o Pending = Append(lexems_, Argument(prev_it, it1))
    BY <1>1, <1>2, <2>1, AppendIsConcat DEF Pending
  <2>3. \A k \in prev_it .. it1 - 1 : ~IsSpace(k)
    BY <1>1 DEF IInv, WordHoldsNoSpace, Positions
  <2>4. Argument(prev_it, it1).from = prev_it /\ Argument(prev_it, it1).to = it1
    BY DEF Argument
  <2> QED
    BY <1>1, <1>2, <2>1, <2>2, <2>3, <2>4, LexemCovers
<1>3. CASE ~(prev_it < it1)
  <2>1. prev_it = it1
    BY <1>1, <1>3 DEF Positions
  <2>2. lexems_ \o Pending = lexems_
    BY <1>1, <1>3, ConcatEmptySeq DEF Pending
  <2> QED
    BY <1>1, <2>1, <2>2
<1> QED
  BY <1>2, <1>3

(* An operator is cut off, with what stands before it.                     *)
LEMMA PushOperatorKeeps == ASSUME NEW i \in {1, 2}, IInv, PushOperator(i) PROVE IInv'
<1>1. /\ it1 < end /\ it1 + i <= end /\ input_' = input_ /\ end' = end
      /\ lexems_' = lexems_ \o Pending \o <<Lexem(it1, it1 + i)>>
      /\ prev_it' = it1 + i /\ it1' = it1 + i
  BY DEF PushOperator, FoundAt, After
<1>2. /\ input_ \in Seq(STRING) /\ Len(input_) \in Nat /\ end <= Len(input_) + 1
      /\ prev_it \in Positions /\ it1 \in Positions /\ end \in Positions /\ prev_it <= it1
  BY LenProperties DEF IInv, TypeOK
<1>3. it1 + i \in Positions /\ it1 < it1 + i
  BY <1>2 DEF Positions
<1>4. /\ Covers(lexems_ \o Pending, it1)
      /\ lexems_ \o Pending \in Seq(LexemRecord)
  BY <1>1, <1>2, PendingCovers DEF Positions
<1>5. /\ Lexem(it1, it1 + i) \in LexemRecord
      /\ Lexem(it1, it1 + i).from = it1 /\ Lexem(it1, it1 + i).to = it1 + i
  BY <1>2, <1>3, LexemTypes DEF Lexem
<1>6. \A k \in it1 .. (it1 + i) - 1 : ~IsSpace(k)
  BY <1>1, <1>2 DEF IInv, WordHoldsNoSpace, Positions
<1>7. lexems_' = Append(lexems_ \o Pending, Lexem(it1, it1 + i))
  BY <1>1, <1>4, <1>5, AppendIsConcat
<1>8. Covers(lexems_', it1 + i) /\ lexems_' \in Seq(LexemRecord)
  <2> DEFINE ls == lexems_ \o Pending
             l == Lexem(it1, it1 + i)
             q == it1 + i
  <2>1. /\ ls \in Seq(LexemRecord) /\ it1 \in Positions /\ q \in Positions
        /\ l \in LexemRecord /\ l.from = it1 /\ l.to = q /\ it1 < q
        /\ \A k \in it1 .. q - 1 : ~IsSpace(k)
        /\ Covers(ls, it1)
    BY <1>2, <1>3, <1>4, <1>5, <1>6
  <2>2. lexems_' = Append(ls, l)
    BY <1>7
  <2> HIDE DEF ls, l, q
  <2>3. Covers(Append(ls, l), q) /\ Append(ls, l) \in Seq(LexemRecord)
    BY <2>1, LexemCovers
  <2> QED
    BY <2>2, <2>3 DEF q
<1>9. \A k : IsSpace(k)' <=> IsSpace(k)
  BY <1>1 DEF IsSpace
<1>10. TypeOK'
  BY <1>1, <1>2, <1>3, <1>8 DEF TypeOK, LexemRecord
<1>11. WordHoldsNoSpace'
  BY <1>1, <1>2, <1>9 DEF IInv, WordHoldsNoSpace, Positions
<1>12. Covers(lexems_, prev_it)'
  BY <1>1, <1>8, <1>9 DEF Covers
<1> QED
  BY <1>10, <1>11, <1>12 DEF IInv

(* The rest of the word is a lexem.                                        *)
LEMMA EndWordKeeps == IInv /\ EndWord => IInv'
<1> SUFFICES ASSUME IInv, EndWord PROVE IInv'
  OBVIOUS
<1>1. /\ input_ \in Seq(STRING) /\ end <= Len(input_) + 1 /\ lexems_ \in Seq(LexemRecord)
      /\ prev_it \in Positions /\ end \in Positions /\ prev_it < end /\ it1 = end
      /\ input_' = input_ /\ it1' = it1 /\ end' = end /\ prev_it' = end
      /\ lexems_' = Append(lexems_, Argument(prev_it, end))
  BY DEF IInv, TypeOK, EndWord, LexemRecord, Positions
<1>2. /\ Argument(prev_it, end) \in LexemRecord
      /\ Argument(prev_it, end).from = prev_it /\ Argument(prev_it, end).to = end
  BY <1>1, LexemTypes DEF Argument
<1>3. Covers(lexems_', end) /\ lexems_' \in Seq(LexemRecord)
  BY <1>1, <1>2, LexemCovers DEF IInv, WordHoldsNoSpace
<1>4. \A k : IsSpace(k)' <=> IsSpace(k)
  BY <1>1 DEF IsSpace
<1>5. TypeOK'
  BY <1>1, <1>3 DEF TypeOK, LexemRecord, Positions
<1>6. WordHoldsNoSpace'
  BY <1>1 DEF WordHoldsNoSpace, Positions
<1>7. Covers(lexems_, prev_it)'
  BY <1>1, <1>3, <1>4 DEF Covers
<1> QED
  BY <1>5, <1>6, <1>7 DEF IInv

(* After any number of steps, and whatever the line is. *)
THEOREM Invariance == Spec => []IInv
<1>1. IInv /\ [Next]_vars => IInv'
  <2> SUFFICES ASSUME IInv, [Next]_vars PROVE IInv'
    OBVIOUS
  <2>1. CASE TakeWord
    BY <2>1, TakeWordKeeps
  <2>2. CASE \E i \in {1, 2} : PushOperator(i)
    BY <2>2, PushOperatorKeeps
  <2>3. CASE Advance
    BY <2>3, AdvanceKeeps
  <2>4. CASE EndWord
    BY <2>4, EndWordKeeps
  <2>5. CASE UNCHANGED vars
    BY <2>5 DEF vars, IInv, TypeOK, WordHoldsNoSpace, Covers, IsSpace
  <2> QED
    BY <2>1, <2>2, <2>3, <2>4, <2>5 DEF Next
<1> QED
  BY <1>1, Initially, PTL DEF Spec

(* TypeOK holds whatever the line: the iterators of parse never leave the  *)
(* word, and every lexem is a stretch of the line with a known type.       *)
THEOREM TypeCorrect == Spec => []TypeOK
<1>1. IInv => TypeOK
  BY DEF IInv
<1> QED
  BY <1>1, Invariance, PTL

(* LexemsCoverLine holds whatever the line: no character that is not a     *)
(* space is lost, and none is in two lexems.                               *)
THEOREM CoverHolds == Spec => []LexemsCoverLine
<1>1. IInv => LexemsCoverLine
  BY DEF IInv, Covers, LexemsCoverLine
<1> QED
  BY <1>1, Invariance, PTL

-----------------------------------------------------------------------------
(* The operators: one character of Doubles or Angles, or two equal ones of *)
(* Doubles.                                                                *)
Doubles == {"&", "|"}
Angles == {"<", ">"}

(* The operators have one or two characters.                               *)
LEMMA OperatorTexts ==
  ASSUME NEW s
  PROVE  IsOperator(s) <=>
           s \in {<<"&">>, <<"|">>, <<"&", "&">>, <<"|", "|">>, <<"<">>, <<">">>}
<1>1. /\ DOMAIN Types = {"subprocess", "pipe", "and", "or", "input", "output"}
      /\ Types["subprocess"] = <<"&">> /\ Types["pipe"] = <<"|">>
      /\ Types["and"] = <<"&", "&">> /\ Types["or"] = <<"|", "|">>
      /\ Types["input"] = <<"<">> /\ Types["output"] = <<">">>
  BY DEF Types
<1> QED
  BY <1>1 DEF IsOperator

(* The operators, one by one.                                              *)
LEMMA Operators ==
  /\ \A c : IsOperator(<<c>>) <=> c \in Doubles \cup Angles
  /\ \A c, d : IsOperator(<<c, d>>) <=> c = d /\ c \in Doubles
  BY OperatorTexts DEF Doubles, Angles

(* What is no operator is an argument.                                     *)
LEMMA TypesOfTexts ==
  ASSUME NEW s
  PROVE  takeType_(s) = "argument" <=> ~IsOperator(s)
<1>1. "argument" \notin DOMAIN Types
  BY DEF Types
<1> QED
  BY <1>1 DEF takeType_, IsOperator

(* What is in a text that parse looks at. *)
LEMMA Texts ==
  ASSUME input_ \in Seq(STRING), NEW p \in Positions, NEW q \in Positions,
         p < q, q <= Len(input_) + 1
  PROVE  /\ q = p + 1 => Text(p, q) = <<input_[p]>>
         /\ q = p + 2 => Text(p, q) = <<input_[p], input_[p + 1]>>
         /\ ~IsOperator(<<input_[p]>>) => ~IsOperator(Text(p, q))
<1>1. Len(input_) \in Nat /\ p \in Int /\ q \in Int /\ 1 <= p
  BY LenProperties DEF Positions
<1>2. /\ Text(p, q) \in Seq(STRING) /\ Len(Text(p, q)) = q - p
      /\ \A j \in 1 .. q - p : Text(p, q)[j] = input_[(p + j) - 1]
  BY <1>1, SubSeqProperties DEF Text
<1>3. q = p + 1 => Text(p, q) = <<input_[p]>>
  BY <1>1, <1>2
<1>4. q = p + 2 => Text(p, q) = <<input_[p], input_[p + 1]>>
  BY <1>1, <1>2
<1>5. ASSUME IsOperator(Text(p, q)) PROVE IsOperator(<<input_[p]>>)
  <2>1. Text(p, q)[1] = input_[p]
    BY <1>1, <1>2
  <2>2. Text(p, q)[1] \in Doubles \cup Angles
    BY <1>5, OperatorTexts DEF Doubles, Angles
  <2> QED
    BY <2>1, <2>2, Operators
<1> QED
  BY <1>3, <1>4, <1>5

-----------------------------------------------------------------------------
(* r is where the run of equal characters begins that k is in. *)
RunFrom(r, k) ==
  /\ r \in 1 .. k
  /\ \A j \in r .. k : input_[j] = input_[k]
  /\ r > 1 => ~(input_[r - 1] = input_[k])

(* A run of characters starts in one place.                                *)
LEMMA OneRunStart ==
  ASSUME NEW k \in Positions, NEW r, RunFrom(r, k)
  PROVE  RunStart(k) = r
<1>1. RunFrom(RunStart(k), k)
  BY DEF RunFrom, RunStart
<1>2. RunStart(k) \in 1 .. k /\ r \in 1 .. k
  BY <1>1 DEF RunFrom
<1>3. k \in Int /\ RunStart(k) \in Int /\ r \in Int
  BY <1>2 DEF Positions
<1>4. ~(RunStart(k) < r)
  <2>1. SUFFICES ASSUME RunStart(k) < r PROVE FALSE
    OBVIOUS
  <2>2. r - 1 \in RunStart(k) .. k /\ r > 1
    BY <2>1, <1>2, <1>3
  <2> QED
    BY <2>2, <1>1 DEF RunFrom
<1>5. ~(r < RunStart(k))
  <2>1. SUFFICES ASSUME r < RunStart(k) PROVE FALSE
    OBVIOUS
  <2>2. RunStart(k) - 1 \in r .. k /\ RunStart(k) > 1
    BY <2>1, <1>2, <1>3
  <2> QED
    BY <2>2, <1>1 DEF RunFrom
<1> QED
  BY <1>3, <1>4, <1>5

(* The first stretches of a run: a run begins, and a run goes on. *)
LEMMA RunBegins ==
  ASSUME NEW k \in Positions, k > 1 => ~(input_[k - 1] = input_[k])
  PROVE  RunFrom(k, k)
  BY DEF RunFrom, Positions

(* One more equal character.                                               *)
LEMMA RunGoesOn ==
  ASSUME NEW k \in Positions, NEW r, RunFrom(r, k), input_[k + 1] = input_[k]
  PROVE  RunFrom(r, k + 1)
<1>1. k \in Int /\ r \in 1 .. k
  BY DEF RunFrom, Positions
<1>2. ASSUME NEW j \in r .. k + 1 PROVE input_[j] = input_[k + 1]
  <2>1. j \in r .. k \/ j = k + 1
    BY <1>1
  <2> QED
    BY <2>1 DEF RunFrom
<1> QED
  BY <1>1, <1>2 DEF RunFrom

-----------------------------------------------------------------------------
(* The lexems ls begin where a lexem must begin before p, and nowhere else. *)
Starts(ls, p) == {ls[i].from : i \in DOMAIN ls} = {k \in 1 .. p - 1 : Begins(k)}

(* A lexem is an argument and holds no operator, or is an operator.        *)
WellCut(l) ==
  /\ l.type = takeType_(Text(l.from, l.to))
  /\ \A k \in l.from .. l.to - 1 : (l.type = "argument") <=> InArgument(k)

AllWellCut(ls) == \A i \in DOMAIN ls : WellCut(ls[i])

(* One more lexem, which begins where something begins.                    *)
LEMMA StartsGrow ==
  ASSUME NEW ls \in Seq(LexemRecord), NEW p \in Positions, NEW q \in Positions,
         NEW l \in LexemRecord, l.from = p, p < q,
         Begins(p), \A k \in p + 1 .. q - 1 : ~Begins(k),
         Starts(ls, p), AllWellCut(ls), WellCut(l)
  PROVE  Starts(Append(ls, l), q) /\ AllWellCut(Append(ls, l))
<1> DEFINE n == Len(ls) + 1
           new == Append(ls, l)
<1>0. p \in Int /\ q \in Int /\ 1 <= p /\ 1 <= q
  BY DEF Positions
<1>1. Len(ls) \in Nat /\ DOMAIN ls = 1 .. Len(ls)
  BY LenProperties
<1>2. /\ DOMAIN new = 1 .. n /\ new[n] = l
      /\ \A i \in 1 .. Len(ls) : new[i] = ls[i]
  BY <1>1, AppendProperties
<1> HIDE DEF new
<1>3. {new[i].from : i \in DOMAIN new} = {ls[i].from : i \in DOMAIN ls} \cup {p}
  BY <1>1, <1>2
<1>4. {k \in 1 .. q - 1 : Begins(k)} = {k \in 1 .. p - 1 : Begins(k)} \cup {p}
  BY <1>0
<1>5. Starts(new, q)
  BY <1>3, <1>4 DEF Starts
<1>6. AllWellCut(new)
  BY <1>1, <1>2 DEF AllWellCut
<1> QED
  BY <1>5, <1>6 DEF new

(* Characters at which nothing begins are passed.                          *)
LEMMA StartsSkip ==
  ASSUME NEW ls, NEW p \in Positions, NEW q \in Positions, p <= q,
         \A k \in p .. q - 1 : ~Begins(k), Starts(ls, p)
  PROVE  Starts(ls, q)
<1>0. p \in Int /\ q \in Int /\ 1 <= p /\ 1 <= q
  BY DEF Positions
<1>1. {k \in 1 .. q - 1 : Begins(k)} = {k \in 1 .. p - 1 : Begins(k)}
  BY <1>0
<1> QED
  BY <1>1 DEF Starts

(* What parse keeps true of the line it has passed.  Between prev_it and   *)
(* it1 an argument has begun; where it1 stands, an even number of equal    *)
(* operator characters has been passed.                                    *)
ArgumentSoFar == \A k \in prev_it .. it1 - 1 : InArgument(k)

WordStart == prev_it < end => prev_it = 1 \/ ~InArgument(prev_it - 1)

WordEnd == end = 1 \/ (end <= Len(input_) => IsSpace(end))

Aligned ==
  it1 < end /\ input_[it1] \in Doubles =>
    \E r \in 1 .. it1 : RunFrom(r, it1) /\ (it1 - r) % 2 = 0

Longest ==
  /\ AllWellCut(lexems_) /\ Starts(lexems_, prev_it)
  /\ ArgumentSoFar /\ WordStart /\ WordEnd /\ Aligned

LInv == IInv /\ Longest

(* What begins where depends on the line alone, which is never written.    *)
LEMMA SameLine ==
  ASSUME input_' = input_
  PROVE  /\ \A k : IsSpace(k)' <=> IsSpace(k)
         /\ \A k : InArgument(k)' <=> InArgument(k)
         /\ \A k : Begins(k)' <=> Begins(k)
         /\ \A r, k : RunFrom(r, k)' <=> RunFrom(r, k)
         /\ \A l : WellCut(l)' <=> WellCut(l)
<1>1. \A k : IsSpace(k)' <=> IsSpace(k)
  BY DEF IsSpace
<1>2. \A k : InArgument(k)' <=> InArgument(k)
  BY DEF IsSpace, InArgument
<1>3. \A k : Begins(k)' <=> Begins(k)
  BY DEF IsSpace, InArgument, Begins, RunStart
<1>4. \A r, k : RunFrom(r, k)' <=> RunFrom(r, k)
  BY DEF RunFrom
<1>5. \A l : WellCut(l)' <=> WellCut(l)
  BY DEF WellCut, Text, IsSpace, InArgument
<1> QED
  BY <1>1, <1>2, <1>3, <1>4, <1>5

(* What a position holds. *)
LEMMA Kinds ==
  ASSUME NEW k, ~IsSpace(k)
  PROVE  /\ InArgument(k) <=> input_[k] \notin Doubles \cup Angles
         /\ ~(input_[k] \in Doubles /\ input_[k] \in Angles)
  BY Operators DEF InArgument, Doubles, Angles

(* A blank is no operator and in no argument.                              *)
LEMMA SpaceKind ==
  ASSUME NEW k, IsSpace(k)
  PROVE  input_[k] \notin Doubles \cup Angles /\ ~InArgument(k) /\ ~Begins(k)
  BY DEF IsSpace, InArgument, Begins, Doubles, Angles

(* The argument from prev_it to it1, when it is pushed. *)
LEMMA PendingLongest ==
  ASSUME LInv, it1 <= end, it1 <= Len(input_) + 1
  PROVE  AllWellCut(lexems_ \o Pending) /\ Starts(lexems_ \o Pending, it1)
<1>1. /\ input_ \in Seq(STRING) /\ lexems_ \in Seq(LexemRecord)
      /\ prev_it \in Positions /\ it1 \in Positions /\ end \in Positions /\ prev_it <= it1
  BY DEF LInv, IInv, TypeOK, LexemRecord
<1>2. CASE prev_it < it1
  <2> DEFINE l == Argument(prev_it, it1)
  <2>1. /\ l \in LexemRecord /\ l.from = prev_it /\ l.to = it1 /\ l.type = "argument"
    BY <1>1, LexemTypes DEF Argument
  <2>2. lexems_ \o Pending = Append(lexems_, l)
    BY <1>1, <1>2, <2>1, AppendIsConcat DEF Pending
  <2>3. \A k \in prev_it .. it1 - 1 : InArgument(k)
    BY DEF LInv, Longest, ArgumentSoFar
  <2>4. InArgument(prev_it)
    BY <1>1, <1>2, <2>3 DEF Positions
  <2>5. WellCut(l)
    <3>1. ~IsOperator(Text(prev_it, it1))
      BY <1>1, <1>2, <2>4, Texts DEF InArgument
    <3> QED
      BY <2>1, <2>3, <3>1, TypesOfTexts DEF WellCut
  <2>6. Begins(prev_it)
    <3>1. prev_it = 1 \/ ~InArgument(prev_it - 1)
      BY <1>1, <1>2 DEF LInv, Longest, WordStart, Positions
    <3>2. ~IsSpace(prev_it) /\ input_[prev_it] \notin Doubles
      BY <2>4, Kinds DEF InArgument
    <3> QED
      BY <3>1, <3>2 DEF Begins, Doubles
  <2>7. ASSUME NEW k \in prev_it + 1 .. it1 - 1 PROVE ~Begins(k)
    <3>1. /\ k \in prev_it .. it1 - 1 /\ k - 1 \in prev_it .. it1 - 1 /\ ~(k = 1)
      BY <1>1 DEF Positions
    <3>2. InArgument(k) /\ InArgument(k - 1)
      BY <2>3, <3>1
    <3> QED
      BY <3>1, <3>2 DEF Begins
  <2>8. AllWellCut(lexems_) /\ Starts(lexems_, prev_it)
    BY DEF LInv, Longest
  <2> HIDE DEF l
  <2>9. Starts(Append(lexems_, l), it1) /\ AllWellCut(Append(lexems_, l))
    BY <1>1, <1>2, <2>1, <2>5, <2>6, <2>7, <2>8, StartsGrow
  <2> QED
    BY <2>2, <2>9
<1>3. CASE ~(prev_it < it1)
  <2>1. prev_it = it1
    BY <1>1, <1>3 DEF Positions
  <2>2. lexems_ \o Pending = lexems_
    BY <1>1, <1>3, ConcatEmptySeq DEF Pending
  <2> QED
    BY <2>1, <2>2 DEF LInv, Longest
<1> QED
  BY <1>2, <1>3

(* No operator has been cut off at first.                                  *)
LEMMA LongestInitially == Init => Longest
<1> SUFFICES ASSUME Init PROVE Longest
  OBVIOUS
<1>1. lexems_ = <<>> /\ prev_it = 1 /\ it1 = 1 /\ end = 1
  BY DEF Init
<1>2. AllWellCut(lexems_) /\ Starts(lexems_, prev_it)
  BY <1>1 DEF AllWellCut, Starts
<1> QED
  BY <1>1, <1>2 DEF Longest, ArgumentSoFar, WordStart, WordEnd, Aligned

(* A word is taken from the stream.                                        *)
LEMMA TakeWordLongest == LInv /\ TakeWord => Longest'
<1> SUFFICES ASSUME LInv, TakeWord PROVE Longest'
  OBVIOUS
<1>1. /\ input_ \in Seq(STRING) /\ Len(input_) \in Nat
      /\ prev_it \in Positions /\ end \in Positions /\ it1 = end /\ prev_it = end
  BY LenProperties DEF LInv, IInv, TypeOK, TakeWord
<1>2. PICK from \in end .. Len(input_) : \E to \in from + 1 .. Len(input_) + 1 :
        /\ \A k \in end .. from - 1 : IsSpace(k)
        /\ \A k \in from .. to - 1 : ~IsSpace(k)
        /\ to <= Len(input_) => IsSpace(to)
        /\ prev_it' = from /\ it1' = from /\ end' = to
  BY DEF TakeWord
<1>3. PICK to \in from + 1 .. Len(input_) + 1 :
        /\ \A k \in end .. from - 1 : IsSpace(k)
        /\ \A k \in from .. to - 1 : ~IsSpace(k)
        /\ to <= Len(input_) => IsSpace(to)
        /\ prev_it' = from /\ it1' = from /\ end' = to
  BY <1>2
<1>4. input_' = input_ /\ lexems_' = lexems_
  BY DEF TakeWord
<1>5. from \in Positions /\ from \in Int /\ to \in Int /\ from < to /\ 1 <= from /\ end <= from
  BY <1>1 DEF Positions
<1>6. from = 1 \/ IsSpace(from - 1)
  <2>1. CASE from = end
    <3>1. ~IsSpace(end) /\ end <= Len(input_)
      BY <1>1, <1>3, <1>5, <2>1
    <3> QED
      BY <2>1, <3>1 DEF LInv, Longest, WordEnd
  <2>2. CASE from > end
    BY <1>1, <1>3, <1>5, <2>2 DEF Positions
  <2> QED
    BY <1>1, <1>5, <2>1, <2>2 DEF Positions
<1>7. AllWellCut(lexems_)'
  BY <1>4, SameLine DEF LInv, Longest, AllWellCut
<1>8. Starts(lexems_, prev_it)'
  <2>1. \A k \in end .. from - 1 : ~Begins(k)
    BY <1>3, SpaceKind
  <2>2. Starts(lexems_, from)
    BY <1>1, <1>5, <2>1, StartsSkip DEF LInv, Longest
  <2> QED
    BY <1>3, <1>4, <2>2, SameLine DEF Starts
<1>9. ArgumentSoFar'
  BY <1>3, <1>5 DEF ArgumentSoFar
<1>10. WordStart'
  BY <1>3, <1>4, <1>6, SpaceKind, SameLine DEF WordStart
<1>11. WordEnd'
  BY <1>3, <1>4, SameLine DEF WordEnd
<1>12. Aligned'
  <2>1. ASSUME input_[from] \in Doubles
        PROVE  \E r \in 1 .. from : RunFrom(r, from) /\ (from - r) % 2 = 0
    <3>1. from > 1 => ~(input_[from - 1] = input_[from])
      BY <1>5, <1>6, <2>1, SpaceKind
    <3>2. RunFrom(from, from)
      BY <1>5, <3>1, RunBegins
    <3>3. from \in 1 .. from /\ (from - from) % 2 = 0
      BY <1>5
    <3> QED
      BY <3>2, <3>3
  <2> QED
    BY <1>3, <1>4, <2>1, SameLine DEF Aligned
<1> QED
  BY <1>7, <1>8, <1>9, <1>10, <1>11, <1>12 DEF Longest

(* A character that begins no operator.                                    *)
LEMMA AdvanceLongest == LInv /\ Advance => Longest'
<1> SUFFICES ASSUME LInv, Advance PROVE Longest'
  OBVIOUS
<1>1. /\ input_ \in Seq(STRING) /\ end <= Len(input_) + 1 /\ Len(input_) \in Int
      /\ prev_it \in Positions /\ it1 \in Positions /\ end \in Positions
      /\ prev_it <= it1 /\ it1 < end
      /\ it1' = it1 + 1 /\ input_' = input_ /\ lexems_' = lexems_ /\ prev_it' = prev_it /\ end' = end
  BY LenProperties DEF LInv, IInv, TypeOK, Advance
<1>2. prev_it \in Int /\ it1 \in Int /\ end \in Int /\ 1 <= it1
  BY <1>1 DEF Positions
<1>3. InArgument(it1)
  <2>1. ~IsSpace(it1)
    BY <1>1, <1>2 DEF LInv, IInv, WordHoldsNoSpace
  <2>2. Text(it1, it1 + 1) = <<input_[it1]>>
    <3>1. it1 + 1 \in Positions /\ it1 < it1 + 1 /\ it1 + 1 <= Len(input_) + 1
      BY <1>1, <1>2 DEF Positions
    <3> QED
      BY <1>1, <3>1, Texts
  <2>3. ~IsOperator(<<input_[it1]>>)
    <3>1. CASE it1 + 2 <= end /\ IsOperator(Text(it1, it1 + 2))
      BY <3>1 DEF Advance, FoundAt
    <3>2. CASE ~(it1 + 2 <= end /\ IsOperator(Text(it1, it1 + 2)))
      BY <1>1, <1>2, <2>2, <3>2 DEF Advance, FoundAt
    <3> QED
      BY <3>1, <3>2
  <2> QED
    BY <2>1, <2>3 DEF InArgument
<1>4. AllWellCut(lexems_)' /\ Starts(lexems_, prev_it)'
  BY <1>1, SameLine DEF LInv, Longest, AllWellCut, Starts
<1>5. ArgumentSoFar'
  <2>1. \A k \in prev_it .. (it1 + 1) - 1 : InArgument(k)
    BY <1>2, <1>3 DEF LInv, Longest, ArgumentSoFar
  <2> QED
    BY <1>1, <2>1, SameLine DEF ArgumentSoFar
<1>6. WordStart' /\ WordEnd'
  BY <1>1, SameLine DEF LInv, Longest, WordStart, WordEnd
<1>7. Aligned'
  <2>1. ASSUME input_[it1 + 1] \in Doubles
        PROVE  \E r \in 1 .. it1 + 1 : RunFrom(r, it1 + 1) /\ ((it1 + 1) - r) % 2 = 0
    <3>1. input_[it1] \notin Doubles
      BY <1>3, Operators DEF InArgument
    <3>2. RunFrom(it1 + 1, it1 + 1)
      BY <1>2, <2>1, <3>1, RunBegins DEF Positions
    <3>3. it1 + 1 \in 1 .. it1 + 1 /\ ((it1 + 1) - (it1 + 1)) % 2 = 0
      BY <1>2
    <3> QED
      BY <3>2, <3>3
  <2> QED
    BY <1>1, <2>1, SameLine DEF Aligned
<1> QED
  BY <1>4, <1>5, <1>6, <1>7 DEF Longest

(* The rest of the word is a lexem.                                        *)
LEMMA EndWordLongest == LInv /\ EndWord => Longest'
<1> SUFFICES ASSUME LInv, EndWord PROVE Longest'
  OBVIOUS
<1>1. /\ input_ \in Seq(STRING) /\ end <= Len(input_) + 1 /\ lexems_ \in Seq(LexemRecord)
      /\ prev_it \in Positions /\ end \in Positions /\ prev_it < end /\ it1 = end
      /\ input_' = input_ /\ it1' = it1 /\ end' = end /\ prev_it' = end
      /\ lexems_' = Append(lexems_, Argument(prev_it, end))
  BY DEF LInv, IInv, TypeOK, EndWord, LexemRecord, Positions
<1>2. lexems_' = lexems_ \o Pending
  BY <1>1, LexemTypes, AppendIsConcat DEF Pending
<1>3. AllWellCut(lexems_') /\ Starts(lexems_', end)
  BY <1>1, <1>2, PendingLongest DEF Positions
<1>4. AllWellCut(lexems_)' /\ Starts(lexems_, prev_it)'
  BY <1>1, <1>3, SameLine DEF AllWellCut, Starts
<1>5. ArgumentSoFar' /\ WordStart' /\ Aligned'
  BY <1>1 DEF ArgumentSoFar, WordStart, Aligned, Positions
<1>6. WordEnd'
  BY <1>1, SameLine DEF LInv, Longest, WordEnd
<1> QED
  BY <1>4, <1>5, <1>6 DEF Longest

(* An operator is cut off.                                                 *)
LEMMA PushOperatorLongest == ASSUME NEW i \in {1, 2}, LInv, PushOperator(i) PROVE Longest'
<1> DEFINE l == Lexem(it1, it1 + i)
           q == it1 + i
           w == Text(it1, it1 + i)
<1>1. /\ it1 < end /\ q <= end /\ input_' = input_ /\ end' = end
      /\ lexems_' = lexems_ \o Pending \o <<l>>
      /\ prev_it' = q /\ it1' = q /\ IsOperator(w)
  BY DEF PushOperator, FoundAt, After
<1>2. /\ input_ \in Seq(STRING) /\ Len(input_) \in Int /\ end <= Len(input_) + 1
      /\ prev_it \in Positions /\ it1 \in Positions /\ end \in Positions /\ prev_it <= it1
  BY LenProperties DEF LInv, IInv, TypeOK
<1>3. /\ it1 \in Int /\ end \in Int /\ 1 <= it1
      /\ q \in Positions /\ q \in Int /\ it1 < q
  BY <1>2 DEF Positions
<1>4. /\ i = 1 => w = <<input_[it1]>>
      /\ i = 2 => w = <<input_[it1], input_[it1 + 1]>>
  <2>1. q <= Len(input_) + 1 /\ w = Text(it1, q)
    BY <1>1, <1>2, <1>3
  <2>2. (i = 1 => q = it1 + 1) /\ (i = 2 => q = it1 + 2)
    OBVIOUS
  <2> HIDE DEF q, w
  <2>3. /\ q = it1 + 1 => w = <<input_[it1]>>
        /\ q = it1 + 2 => w = <<input_[it1], input_[it1 + 1]>>
    BY <1>2, <1>3, <2>1, Texts
  <2> QED
    BY <2>2, <2>3
<1>5. \A k \in it1 .. q - 1 : ~IsSpace(k)
  BY <1>1, <1>2, <1>3 DEF LInv, IInv, WordHoldsNoSpace, Positions
<1>6. /\ input_[it1] \in Doubles \cup Angles
      /\ i = 2 => input_[it1] \in Doubles /\ input_[it1 + 1] = input_[it1]
  BY <1>1, <1>4, Operators
<1>7. \A k \in it1 .. q - 1 : input_[k] \in Doubles \cup Angles /\ ~InArgument(k)
  <2>1. \A k \in it1 .. q - 1 : k = it1 \/ (i = 2 /\ k = it1 + 1)
    BY <1>3
  <2> QED
    BY <1>5, <1>6, <2>1, Kinds
<1>8. /\ l \in LexemRecord /\ l.from = it1 /\ l.to = q
      /\ l.type = takeType_(w) /\ ~(l.type = "argument")
  BY <1>1, <1>2, <1>3, LexemTypes, TypesOfTexts DEF Lexem
<1>9. WellCut(l)
  BY <1>7, <1>8 DEF WellCut
<1>10. AllWellCut(lexems_ \o Pending) /\ Starts(lexems_ \o Pending, it1)
  BY <1>1, <1>2, <1>3, PendingLongest
<1>11. input_[it1] \in Doubles => \E r \in 1 .. it1 : RunFrom(r, it1) /\ (it1 - r) % 2 = 0
  BY <1>1 DEF LInv, Longest, Aligned
<1>12. Begins(it1)
  <2>1. ~IsSpace(it1) /\ ~InArgument(it1)
    BY <1>3, <1>5, <1>7
  <2>2. ASSUME input_[it1] \in Doubles PROVE (it1 - RunStart(it1)) % 2 = 0
    BY <1>2, <1>11, <2>2, OneRunStart
  <2> QED
    BY <2>1, <2>2 DEF Begins, Doubles
<1>13. ASSUME NEW k \in it1 + 1 .. q - 1 PROVE ~Begins(k)
  <2>1. i = 2 /\ k = it1 + 1
    BY <1>3
  <2>2. PICK r \in 1 .. it1 : RunFrom(r, it1) /\ (it1 - r) % 2 = 0
    BY <1>6, <1>11, <2>1
  <2>3. RunStart(k) = r
    BY <1>2, <1>3, <1>6, <2>1, <2>2, RunGoesOn, OneRunStart DEF Positions
  <2>4. ~((k - r) % 2 = 0)
    BY <1>3, <2>1, <2>2
  <2>5. input_[k] \in Doubles
    BY <1>6, <2>1
  <2> QED
    BY <2>3, <2>4, <2>5 DEF Begins, Doubles
<1>14. AllWellCut(lexems_') /\ Starts(lexems_', q)
  <2> DEFINE ls == lexems_ \o Pending
  <2>1. ls \in Seq(LexemRecord)
    BY <1>1, <1>2, <1>3, PendingCovers DEF LInv
  <2>2. lexems_' = Append(ls, l)
    BY <1>1, <1>8, <2>1, AppendIsConcat
  <2>3. AllWellCut(ls) /\ Starts(ls, it1)
    BY <1>10
  <2> HIDE DEF ls, l, q
  <2>4. Starts(Append(ls, l), q) /\ AllWellCut(Append(ls, l))
    BY <1>2, <1>3, <1>8, <1>9, <1>12, <1>13, <2>1, <2>3, StartsGrow
  <2> QED
    BY <2>2, <2>4
<1>15. AllWellCut(lexems_)' /\ Starts(lexems_, prev_it)'
  BY <1>1, <1>14, SameLine DEF AllWellCut, Starts
<1>16. ArgumentSoFar'
  BY <1>1, <1>3 DEF ArgumentSoFar
<1>17. WordStart'
  <2>1. ~InArgument(q - 1)
    BY <1>3, <1>7
  <2> QED
    BY <1>1, <2>1, SameLine DEF WordStart
<1>18. WordEnd'
  BY <1>1, SameLine DEF LInv, Longest, WordEnd
<1>19. Aligned'
  <2>1. ASSUME q < end, input_[q] \in Doubles
        PROVE  \E r \in 1 .. q : RunFrom(r, q) /\ (q - r) % 2 = 0
    <3>1. CASE ~(input_[q - 1] = input_[q])
      <4>1. RunFrom(q, q)
        BY <1>3, <3>1, RunBegins
      <4>2. q \in 1 .. q /\ (q - q) % 2 = 0
        BY <1>3
      <4> QED
        BY <4>1, <4>2
    <3>2. CASE input_[q - 1] = input_[q] /\ i = 1
      <4>1. q - 1 = it1 /\ it1 + 2 = q + 1 /\ it1 + 1 = q /\ it1 + 2 \in Positions
        BY <1>3, <3>2 DEF Positions
      <4>2. Text(it1, it1 + 2) = <<input_[it1], input_[it1 + 1]>>
        <5>1. it1 + 2 <= Len(input_) + 1 /\ it1 < it1 + 2
          BY <1>2, <1>3, <2>1, <4>1
        <5> QED
          BY <1>2, <4>1, <5>1, Texts
      <4>3. IsOperator(Text(it1, it1 + 2))
        BY <2>1, <3>2, <4>1, <4>2, Operators
      <4>4. it1 + 2 <= end
        BY <1>3, <2>1, <4>1
      <4> QED
        BY <3>2, <4>3, <4>4 DEF PushOperator, FoundAt
    <3>3. CASE input_[q - 1] = input_[q] /\ i = 2
      <4>1. PICK r \in 1 .. it1 : RunFrom(r, it1) /\ (it1 - r) % 2 = 0
        BY <1>6, <1>11, <3>3
      <4>2. RunFrom(r, it1 + 1) /\ it1 + 1 \in Positions
        BY <1>2, <1>3, <1>6, <3>3, <4>1, RunGoesOn DEF Positions
      <4>3. q - 1 = it1 + 1 /\ (it1 + 1) + 1 = q
        BY <1>3, <3>3
      <4>4. RunFrom(r, q)
        <5>1. input_[(it1 + 1) + 1] = input_[it1 + 1]
          BY <3>3, <4>3
        <5> QED
          BY <4>2, <4>3, <5>1, RunGoesOn
      <4>5. r \in 1 .. q /\ (q - r) % 2 = 0
        BY <1>3, <3>3, <4>1
      <4> QED
        BY <4>4, <4>5
    <3> QED
      BY <3>1, <3>2, <3>3
  <2> QED
    BY <1>1, <2>1, SameLine DEF Aligned
<1> QED
  BY <1>15, <1>16, <1>17, <1>18, <1>19 DEF Longest

(* Longest is an invariant as well. *)
THEOREM LongestInvariance == Spec => []LInv
<1>1. LInv /\ [Next]_vars => Longest'
  <2> SUFFICES ASSUME LInv, [Next]_vars PROVE Longest'
    OBVIOUS
  <2>1. CASE TakeWord
    BY <2>1, TakeWordLongest
  <2>2. CASE \E i \in {1, 2} : PushOperator(i)
    BY <2>2, PushOperatorLongest
  <2>3. CASE Advance
    BY <2>3, AdvanceLongest
  <2>4. CASE EndWord
    BY <2>4, EndWordLongest
  <2>5. CASE UNCHANGED vars
    <3>1. input_' = input_ /\ lexems_' = lexems_ /\ prev_it' = prev_it /\ it1' = it1 /\ end' = end
      BY <2>5 DEF vars
    <3> QED
      BY <3>1, SameLine DEF LInv, Longest, AllWellCut, Starts, ArgumentSoFar, WordStart, WordEnd, Aligned
  <2> QED
    BY <2>1, <2>2, <2>3, <2>4, <2>5 DEF Next
<1>2. Init => Longest
  BY LongestInitially
<1> QED
  BY <1>1, <1>2, Invariance, PTL DEF Spec, LInv

(* LexemsAreLongest holds whatever the line: parse cuts it where the       *)
(* grammar wants it, an operator of two characters before two of one.      *)
THEOREM LongestHolds == Spec => []LexemsAreLongest
<1>1. LInv => LexemsAreLongest
  <2> SUFFICES ASSUME LInv, Done PROVE
        /\ {lexems_[i].from : i \in DOMAIN lexems_} = {k \in DOMAIN input_ : Begins(k)}
        /\ \A i \in DOMAIN lexems_ : WellCut(lexems_[i])
    BY DEF LexemsAreLongest, WellCut
  <2>1. /\ end \in Int /\ 1 <= end /\ end <= Len(input_) + 1 /\ prev_it = end
        /\ Len(input_) \in Int /\ DOMAIN input_ = 1 .. Len(input_)
    BY LenProperties DEF LInv, IInv, TypeOK, Positions, Done
  <2>2. \A k \in end .. Len(input_) : ~Begins(k)
    BY SpaceKind DEF Done
  <2>3. {k \in DOMAIN input_ : Begins(k)} = {k \in 1 .. prev_it - 1 : Begins(k)}
    BY <2>1, <2>2
  <2> QED
    BY <2>3 DEF LInv, Longest, Starts, AllWellCut
<1> QED
  BY <1>1, LongestInvariance, PTL
=============================================================================
