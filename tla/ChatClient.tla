----------------------------- MODULE ChatClient -----------------------------
(***************************************************************************)
(* p2/client.cpp, and the chat as a whole: the server of ChatServer with   *)
(* clients that run the program, and others that do as they like.  The     *)
(* program polls its socket and its standard input; each can be ready      *)
(* while it handles the other.  The server may be killed.                  *)
(***************************************************************************)
EXTENDS ChatServer

CONSTANTS
  Programs,   \* the clients that run client.cpp
  Line,       \* the bytes of a line that is typed: which of them ends it
  MaxTyped,   \* bound: how many lines are typed to each of them
  MaxTogether \* bound: and how many as long as other clients may come

ASSUME ClientAssumption ==
  /\ Programs \subseteq Clients /\ MaxTyped \in Nat /\ MaxTogether \in Nat
  /\ Line \in Seq(BOOLEAN) /\ Line # <<>> /\ Last(Line)

VARIABLES
  up,             \* whether the server is there
  pc,             \* per program: "polls" or "done"
  revents,        \* per program: what poll reported and was not handled yet
  stdin,          \* per program: the lines that were typed and not read
  cin,            \* per program: the lines in the buffer behind getline
  buf_send,       \* per program: what sendMessage has still to send of a line
  recv_message_,
  cout,           \* per program: the bytes it has shown
  told,           \* per program: whether it said "lost connection to server"
  typed, refused  \* history: the lines typed, and the bytes of them no send took

keyboard == <<stdin, cin, buf_send, typed, refused>>
screen == <<recv_message_, cout, told>>
client == <<pc, revents, keyboard, screen>>
chat == <<vars, client, up>>

EndsALine(b) == b = Welcome \/ sent[b[1]][b[2]]
Connected(c) == c \in backlog \cup fds

-----------------------------------------------------------------------------
(* connect does not block: the loop begins before there is a connection. *)
Established(c) == pc[c] = "polls" /\ up /\ ClientConnects(c) /\ UNCHANGED <<client, up>>

(* Data are POLLIN.  The end of a connection, or that there will be none,  *)
(* is POLLIN, POLLERR, POLLHUP or several of them, as the kernel likes;    *)
(* what had arrived before can still be read.                              *)
SocketEvents(c) ==
  IF up THEN {IF Unread(c) > 0 THEN {"POLLIN"} ELSE {}}
  ELSE {e \in SUBSET {"POLLIN", "POLLERR", "POLLHUP"} :
          e # {} /\ (Unread(c) > 0 => "POLLIN" \in e)}

InputEvents(c) == IF stdin[c] > 0 THEN {"STDIN"} ELSE {}

(* One time round the loop is poll, then the socket, then the input.       *)
poll(c) ==
  /\ pc[c] = "polls" /\ revents[c] = {} /\ buf_send[c] = <<>>
  /\ \E e \in SocketEvents(c) :
       /\ e \cup InputEvents(c) # {}
       /\ revents' = [revents EXCEPT ![c] = e \cup InputEvents(c)]
  /\ UNCHANGED <<vars, pc, keyboard, screen, up>>

SocketDone(c) == [revents EXCEPT ![c] = @ \cap {"STDIN"}]

ToShow_Any(c, message) == message # <<>>     \* mutant: what arrives is shown at once

ToShow_Start(c, message) ==                  \* mutant: the first piece of a message decides
  recv_message_[c] = <<>> /\ EndsALine(Last(message))

(* What was received is shown when it ends with a newline. *)
ToShow(c, message) == EndsALine(Last(message))

KeptBack_All(c, message) == message          \* mutant: recv_message_ = "" is forgotten

KeptBack(c, message) == IF ToShow(c, message) THEN <<>> ELSE message

Client_recvMessage(c) ==
  /\ pc[c] = "polls" /\ "POLLIN" \in revents[c] /\ Unread(c) > 0
  /\ LET n == Least(max_buf_size_, Unread(c))
         message == recv_message_[c] \o SubSeq(delivered[c], read[c] + 1, read[c] + n)
     IN /\ ClientReads(c, n)
        /\ cout' = [cout EXCEPT ![c] = IF ToShow(c, message) THEN @ \o message ELSE @]
        /\ recv_message_' = [recv_message_ EXCEPT ![c] = KeptBack(c, message)]
  /\ revents' = SocketDone(c)
  /\ UNCHANGED <<pc, keyboard, told, up>>

SaysEnd(e) == e \cap {"POLLERR", "POLLHUP"} # {}

Loses_NotZero(c) ==                          \* mutant: recv_bytes < 0, for <= 0
  "POLLIN" \notin revents[c] /\ SaysEnd(revents[c])

Loses_HangUpFirst(c) ==                      \* mutant: POLLERR and POLLHUP are looked at first
  SaysEnd(revents[c]) \/ ("POLLIN" \in revents[c] /\ Unread(c) = 0)

(* POLLIN is looked at first: recv gives what there is, and 0 or -1 after. *)
Loses(c) == IF "POLLIN" \in revents[c] THEN Unread(c) = 0 ELSE SaysEnd(revents[c])

(* poll_set is gone with connectTo. *)
Ends(c) == pc' = [pc EXCEPT ![c] = "done"] /\ revents' = [revents EXCEPT ![c] = {}]

LoseConnection(c) ==
  /\ pc[c] = "polls" /\ Loses(c)
  /\ told' = [told EXCEPT ![c] = TRUE]
  /\ Ends(c)
  /\ UNCHANGED <<vars, keyboard, recv_message_, cout, up>>

(* poll saw lines in the input.  getline looks into its buffer first, and  *)
(* fills it when it is empty: by one line of a terminal, by what there is  *)
(* of a pipe.                                                              *)
Taken(c) == IF cin[c] > 0 THEN {0} ELSE 1 .. stdin[c]

Client_sendMessage(c) ==
  /\ pc[c] = "polls" /\ revents[c] = {"STDIN"}
  /\ \E n \in Taken(c) : /\ stdin' = [stdin EXCEPT ![c] = @ - n]
                         /\ cin' = [cin EXCEPT ![c] = @ + n - 1]
  /\ buf_send' = [buf_send EXCEPT ![c] = Line]
  /\ revents' = [revents EXCEPT ![c] = {}]
  /\ UNCHANGED <<vars, pc, typed, refused, screen, up>>

(* The line is sent in pieces of max_buf_size_, the last may be shorter. *)
Piece(c) == SubSeq(buf_send[c], 1, Least(max_buf_size_, Len(buf_send[c])))

AfterPiece_None(c) == <<>>                   \* mutant: what is longer than a piece is not sent

AfterPiece_Overlap(c) ==                     \* mutant: it moves on by max_buf_size_ - 1
  SubSeq(buf_send[c], Least(max_buf_size_, Len(buf_send[c]) + 1), Len(buf_send[c]))

AfterPiece(c) == SubSeq(buf_send[c], Len(Piece(c)) + 1, Len(buf_send[c]))

(* The socket does not block: send takes what the kernel has room for, or  *)
(* nothing, also as long as there is no connection; what it returns is not *)
(* looked at.                                                              *)
Accepted(c) == IF Connected(c) /\ up THEN Least(Room - Least(Room, Arrived(c)), Len(Piece(c))) ELSE 0

SendPiece(c) ==
  /\ pc[c] = "polls" /\ buf_send[c] # <<>>
  /\ buf_send' = [buf_send EXCEPT ![c] = AfterPiece(c)]
  /\ refused' = [refused EXCEPT ![c] = @ + Len(Piece(c)) - Accepted(c)]
  /\ IF Accepted(c) = 0 THEN UNCHANGED vars ELSE ClientSends(c, SubSeq(Piece(c), 1, Accepted(c)))
  /\ UNCHANGED <<pc, revents, stdin, cin, typed, screen, up>>

-----------------------------------------------------------------------------
(* The user, and whoever stops the server.  Two bounds: a program to which *)
(* more than MaxTogether lines are typed is the only client.               *)
Company == (Clients \ Programs) \cap (backlog \cup fds)
LinesTogether == \A c \in Programs : typed[c] <= MaxTogether

Type(c) ==
  /\ pc[c] # "done" /\ typed[c] < (IF Company = {} THEN MaxTyped ELSE MaxTogether)
  /\ typed' = [typed EXCEPT ![c] = @ + 1] /\ stdin' = [stdin EXCEPT ![c] = @ + 1]
  /\ UNCHANGED <<vars, pc, revents, cin, buf_send, refused, screen, up>>

Interrupt(c) ==
  /\ pc[c] = "polls" /\ up
  /\ Ends(c)
  /\ IF Connected(c) THEN ClientCloses(c) ELSE UNCHANGED vars
  /\ UNCHANGED <<keyboard, screen, up>>

ServerDies == up /\ up' = FALSE /\ UNCHANGED <<vars, client>>

Program(c) ==
  \/ poll(c) \/ Client_recvMessage(c) \/ LoseConnection(c)
  \/ Client_sendMessage(c) \/ SendPiece(c)

User(c) == Type(c) \/ Interrupt(c)

ChatInit ==
  /\ Init /\ up = TRUE
  /\ pc = [c \in Programs |-> "polls"] /\ revents = [c \in Programs |-> {}]
  /\ stdin = [c \in Programs |-> 0] /\ cin = stdin /\ typed = stdin /\ refused = stdin
  /\ recv_message_ = [c \in Programs |-> <<>>] /\ cout = recv_message_ /\ buf_send = cout
  /\ told = [c \in Programs |-> FALSE]

Server == up /\ run /\ UNCHANGED <<client, up>>

ChatNext ==
  \/ Server \/ ServerDies
  \/ \E c \in Programs : Program(c) \/ Established(c) \/ User(c)
  \/ \E c \in Clients \ Programs : up /\ LinesTogether /\ AnyClient(c) /\ UNCHANGED <<client, up>>
  \/ \E c \in Clients : up /\ ResetArrives(c) /\ UNCHANGED <<client, up>>

ChatSpec == ChatInit /\ [][ChatNext]_chat

(* Both loops go on while there is something to do, and a connection is    *)
(* made in the end.                                                        *)
FairChat ==
  /\ ChatSpec /\ WF_chat(Server)
  /\ \A c \in Programs : WF_chat(Program(c)) /\ WF_chat(Established(c))

-----------------------------------------------------------------------------
(* What a program has received is what it has shown and what it holds      *)
(* back, and each byte of each line that was typed waits, is sent, or was  *)
(* refused by send, and only one of these.                                 *)
ClientTypeOK ==
  \A c \in Programs :
    /\ cout[c] \o recv_message_[c] = SubSeq(delivered[c], 1, read[c])
    /\ revents[c] \subseteq {"POLLIN", "POLLERR", "POLLHUP", "STDIN"}
    /\ stdin[c] >= 0 /\ cin[c] >= 0 /\ refused[c] >= 0
    /\ typed[c] * Len(Line) =
         (stdin[c] + cin[c]) * Len(Line) + Len(buf_send[c]) + Len(sent[c]) + refused[c]

(* A program all of whose sends had room has sent the lines typed to it,   *)
(* each whole and after the one before, in however many pieces.            *)
LinesLeaveInOrder ==
  \A c \in Programs : refused[c] = 0 =>
    \A k \in DOMAIN sent[c] :
      sent[c][k] = IF k <= Len(Line) THEN Line[k] ELSE sent[c][k - Len(Line)]

(* When a program says that it lost the connection it has shown all that   *)
(* the server had sent it, as long as the kernel had room for that:        *)
(* whatever poll reported, nothing is left unread or held back.            *)
ShownBeforeLoss ==
  \A c \in Programs : told[c] /\ c \notin cut => cout[c] = delivered[c]

(* Every screen shows the greeting and then whole lines, as long as the    *)
(* kernel had room for what the server sent.                               *)
ScreensShowWholeLines ==
  \A c \in Programs : c \notin cut =>
    /\ cout[c] # <<>> => cout[c][1] = Welcome /\ EndsALine(Last(cout[c]))
    /\ \A i \in 2 .. Len(cout[c]) - 1 :
         ~EndsALine(cout[c][i]) => cout[c][i + 1] = <<cout[c][i][1], cout[c][i][2] + 1>>

Gone(c) == ended[c] # "no" \/ c \in cut

(* A line that is typed is sent, up to what send refuses, or it waits in   *)
(* the buffer behind getline; there it waits only when one read of the     *)
(* input took several lines, which a terminal does not give, and only as   *)
(* long as nothing else is typed.                                          *)
TypedLinesAreSent ==
  \A c \in Programs : \A n \in 1 .. MaxTyped :
    typed[c] >= n ~>
      \/ Len(sent[c]) + refused[c] >= n * Len(Line)
      \/ cin[c] > 0 /\ stdin[c] = 0
      \/ pc[c] = "done" \/ ~up

(* What the server prints, whoever said it, gets onto the screen of every  *)
(* program that is connected and that the kernel had room for; no byte of  *)
(* it waits for another message.                                           *)
PrintedIsShown ==
  \A d \in Programs : \A b \in Bytes :
    (d \in clients_ /\ \E i \in joined[d] + 1 .. Len(printed) : printed[i] = b) ~>
      \/ \E i \in DOMAIN cout[d] : cout[d][i] = b
      \/ Gone(d) \/ ~up

LineSent(c) == sent[c] # <<>> /\ Last(sent[c])

(* A client that stays and whose last byte ends a line is heard to the     *)
(* end: no line waits for another message to be noticed.                   *)
LinesArePrinted ==
  \A c \in Clients :
    (c \in fds /\ LineSent(c)) ~>
      \/ \E i \in DOMAIN printed : printed[i] = <<c, Len(sent[c])>>
      \/ ~LineSent(c) \/ ended[c] # "no" \/ ~up

(* A client that has left is dropped. *)
LeaversAreDropped ==
  \A c \in Clients : (c \in fds /\ ended[c] # "no") ~> (c \notin clients_ \/ ~up)

(* When the server is gone its clients notice, say so and end. *)
LossIsTold == \A c \in Programs : (~up /\ pc[c] = "polls") ~> told[c]
=============================================================================
