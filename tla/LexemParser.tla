----------------------------- MODULE LexemParser ----------------------------
(***************************************************************************)
(* p5/parser.cpp: LexemParser::parse cuts a command line into lexems.      *)
(* Words are cut at spaces; inside a word an operator ends the argument    *)
(* before it, as in cat>out<inp.                                           *)
(*                                                                         *)
(* A lexem is the stretch from .. to - 1 of the input with its type, so    *)
(* that what was read where can be told, not only what was read.           *)
(***************************************************************************)
EXTENDS Integers, Sequences

CONSTANT Inputs   \* the lines that are parsed

ASSUME InputsAssumption == Inputs \subseteq Seq(STRING)

VARIABLES
  input_, lexems_,
  prev_it,    \* where the part of the word that is not in lexems_ begins
  it1,        \* where parse looks for an operator
  end         \* temp.end(), which is also how far ss has been read

vars == <<input_, lexems_, prev_it, it1, end>>

IsSpace(k) == input_[k] = " "

(* The operators, and their types in takeType_. *)
Types ==
  [subprocess |-> <<"&">>, pipe |-> <<"|">>, and |-> <<"&", "&">>,
   or |-> <<"|", "|">>, input |-> <<"<">>, output |-> <<">">>]

IsOperator(s) == \E t \in DOMAIN Types : Types[t] = s

takeType_(s) == IF IsOperator(s) THEN CHOOSE t \in DOMAIN Types : Types[t] = s ELSE "argument"

Text(from, to) == SubSeq(input_, from, to - 1)
Lexem(from, to) == [from |-> from, to |-> to, type |-> takeType_(Text(from, to))]
Argument(from, to) == [from |-> from, to |-> to, type |-> "argument"]

-----------------------------------------------------------------------------
(* ss >> temp: the next run of characters that are no spaces. *)
TakeWord ==
  /\ it1 = end /\ prev_it = end
  /\ \E from \in end .. Len(input_) : \E to \in from + 1 .. Len(input_) + 1 :
       /\ \A k \in end .. from - 1 : IsSpace(k)
       /\ \A k \in from .. to - 1 : ~IsSpace(k)
       /\ to <= Len(input_) => IsSpace(to)
       /\ prev_it' = from /\ it1' = from /\ end' = to
  /\ UNCHANGED <<input_, lexems_>>

FoundAt_Shortest(i) ==                       \* mutant: for (i = 1; i <= 2; ++i)
  /\ it1 + i <= end /\ IsOperator(Text(it1, it1 + i))
  /\ i = 2 => ~IsOperator(Text(it1, it1 + 1))

(* An operator of i characters begins at it1; two are tried before one. *)
FoundAt(i) ==
  /\ it1 + i <= end /\ IsOperator(Text(it1, it1 + i))
  /\ i = 1 => ~(it1 + 2 <= end /\ IsOperator(Text(it1, it1 + 2)))

Pending_Dropped == <<>>                      \* mutant: the argument before an operator is not pushed

Pending == IF prev_it < it1 THEN <<Argument(prev_it, it1)>> ELSE <<>>

After_OffByOne(i) == it1 + i + 1             \* mutant: it1 += i, for i - 1 and the loop's ++it1

After(i) == it1 + i

PushOperator(i) ==
  /\ it1 < end /\ FoundAt(i)
  /\ lexems_' = lexems_ \o Pending \o <<Lexem(it1, it1 + i)>>
  /\ prev_it' = it1 + i /\ it1' = After(i)
  /\ UNCHANGED <<input_, end>>

Advance ==
  /\ it1 < end /\ ~FoundAt(1) /\ ~FoundAt(2)
  /\ it1' = it1 + 1
  /\ UNCHANGED <<input_, lexems_, prev_it, end>>

(* The word's end: what is left of it is an argument. *)
EndWord ==
  /\ it1 = end /\ prev_it # end
  /\ lexems_' = Append(lexems_, Argument(prev_it, end))
  /\ prev_it' = end
  /\ UNCHANGED <<input_, it1, end>>

-----------------------------------------------------------------------------
Init ==
  /\ input_ \in Inputs /\ lexems_ = <<>>
  /\ prev_it = 1 /\ it1 = 1 /\ end = 1

Next == TakeWord \/ (\E i \in {1, 2} : PushOperator(i)) \/ Advance \/ EndWord

Spec == Init /\ [][Next]_vars

Done == it1 = end /\ prev_it = end /\ \A k \in end .. Len(input_) : IsSpace(k)

-----------------------------------------------------------------------------
LexemType == DOMAIN Types \cup {"argument"}
Positions == Nat \ {0}

(* The iterators stay in the word, and lexems are stretches of the input. *)
TypeOK ==
  /\ input_ \in Seq(STRING)
  /\ lexems_ \in Seq([from : Positions, to : Positions, type : LexemType])
  /\ prev_it \in Positions /\ it1 \in Positions /\ end \in Positions
  /\ prev_it <= it1 /\ it1 <= end /\ end <= Len(input_) + 1

(* No character is lost and none is read twice: the lexems follow each     *)
(* other in the line without overlap, and each character before prev_it is *)
(* in one of them unless it is a space.                                    *)
LexemsCoverLine ==
  /\ \A i \in DOMAIN lexems_ : lexems_[i].from < lexems_[i].to /\ lexems_[i].to <= prev_it
  /\ \A i, j \in DOMAIN lexems_ : i < j => lexems_[i].to <= lexems_[j].from
  /\ \A k \in 1 .. prev_it - 1 :
       ~IsSpace(k) <=> \E i \in DOMAIN lexems_ : k \in lexems_[i].from .. lexems_[i].to - 1

(* Where an operator and where an argument must begin, told without going  *)
(* through the line: "<" and ">" stand alone, "&" and "|" pair up from the *)
(* left of a run of them, an argument begins after a space, an operator or *)
(* nothing.                                                                *)
RunStart(k) ==
  CHOOSE r \in 1 .. k : /\ \A j \in r .. k : input_[j] = input_[k]
                        /\ r > 1 => input_[r - 1] # input_[k]

InArgument(k) == ~IsSpace(k) /\ ~IsOperator(<<input_[k]>>)

Begins(k) ==
  /\ ~IsSpace(k)
  /\ InArgument(k) => k = 1 \/ ~InArgument(k - 1)
  /\ input_[k] \in {"&", "|"} => (k - RunStart(k)) % 2 = 0

(* The line is cut as a shell's grammar wants it: operators as long as     *)
(* they can be from the left, arguments as long as they can be, so a&&&b   *)
(* is "a", "&&", "&", "b" and no part of "&&" is left to an argument.      *)
LexemsAreLongest ==
  Done =>
    /\ {lexems_[i].from : i \in DOMAIN lexems_} = {k \in DOMAIN input_ : Begins(k)}
    /\ \A i \in DOMAIN lexems_ :
         LET l == lexems_[i] IN
           /\ l.type = takeType_(Text(l.from, l.to))
           /\ \A k \in l.from .. l.to - 1 : (l.type = "argument") <=> InArgument(k)
=============================================================================
