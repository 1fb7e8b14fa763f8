--------------------------------- MODULE Conf ---------------------------------
(***************************************************************************)
(* load_config of src/src/conf.c: the scanner and the parser that read the *)
(* server's configuration file, a list of assignments "item = value" with  *)
(* comments from "#" to the end of the line.                               *)
(*                                                                         *)
(* The file is a sequence of pieces: the runs of characters which the      *)
(* scanner reads at a stretch, and single characters.  A space or a tab is *)
(* a newline here, but for one in a comment, which is left out with the    *)
(* comment's text.  A step reads a piece; when this completes a token, the *)
(* parser, which waits for it, takes it in the same step.                  *)
(***************************************************************************)
EXTENDS Integers, Sequences

CONSTANT Inputs  (* the configuration files considered                     *)

(* enum tag: the items, in the order of conf_items, and the other tokens.  *)
SERVER_IP == 0

SERVER_PORT == 1

THREAD_NUM == 2

QUEUE_CAPACITY == 3

ASSIGN == 4

NUM == 5

IP == 6

END == 7

Items == SERVER_IP .. QUEUE_CAPACITY

(* An item carries its tag and a number its value; "word" is any other     *)
(* name, and "junk" a character that begins no token.                      *)
Piece ==
  {p \in [kind : {"item", "word", "num", "dot", "assign", "newline", "comment", "junk"},
          val : Nat] :
     p.kind = "item" => p.val \in Items}

(* The scanner reads names and numbers to their ends.                      *)
Runs(file) ==
  \A i \in 2 .. Len(file) :
    /\ file[i - 1].kind \in {"item", "word"} => file[i].kind \notin {"item", "word", "num"}
    /\ file[i - 1].kind = "num" => file[i].kind # "num"

ASSUME ConfAssumption == \A file \in Inputs : file \in Seq(Piece) /\ Runs(file)

VARIABLES
  fin,        (* the file was found                                        *)
  input,      (* what it holds                                             *)
  pos,        (* the next piece                                            *)
  in_comment, (* parse_comment is at work                                  *)
  token,      (* the current token                                         *)
  pre_token,  (* the one before                                            *)
  parser,     (* the token the parser waits for, or how it ended           *)
  item,       (* the item whose value it reads                             *)
  sin_addr,   (* the address of the server, << >> for any                  *)
  conf        (* the other items' values                                   *)

vars == <<fin, input, pos, in_comment, token, pre_token, parser, item, sin_addr, conf>>

Short == 65536

TypeOK ==
  /\ fin \in BOOLEAN /\ in_comment \in BOOLEAN
  /\ input \in Seq(Piece) /\ pos \in 1 .. Len(input) + 1
  /\ {token, pre_token} \subseteq SERVER_IP .. END
  /\ parser \in {"item", "assign", "value", "done", "exit", "crash"}
  /\ item \in Items
  /\ \A i \in DOMAIN sin_addr : sin_addr[i].kind \in {"num", "dot"}
  /\ conf \in [Items \ {SERVER_IP} -> 0 .. Short - 1]

(* default_config.                                                         *)
Default ==
  [tag \in Items \ {SERVER_IP} |->
     CASE tag = SERVER_PORT -> 2000 [] tag = THREAD_NUM -> 5 [] tag = QUEUE_CAPACITY -> 10]

Init ==
  /\ fin \in BOOLEAN /\ input \in Inputs
  /\ ~fin => input = << >>
  /\ pos = 1 /\ in_comment = FALSE
  /\ token = SERVER_IP /\ pre_token = SERVER_IP
  /\ parser = "item" /\ item = SERVER_IP
  /\ sin_addr = << >> /\ conf = Default

-----------------------------------------------------------------------------
Ended == parser \in {"done", "exit", "crash"}

AtEnd == pos > Len(input)

(* The scanner is at a piece of this kind, outside of a comment.           *)
At(kind) == ~Ended /\ fin /\ ~in_comment /\ ~AtEnd /\ input[pos].kind = kind

quiet == <<fin, input, token, pre_token, parser, item, sin_addr, conf>>

(* next_useful_char and parse_comment.                                     *)
SkipBlank ==
  /\ At("newline")
  /\ pos' = pos + 1
  /\ UNCHANGED <<quiet, in_comment>>

EnterComment ==
  /\ At("comment")
  /\ pos' = pos + 1 /\ in_comment' = TRUE
  /\ UNCHANGED quiet

SkipComment ==
  /\ ~Ended /\ in_comment /\ ~AtEnd
  /\ pos' = pos + 1
  /\ in_comment' = (input[pos].kind # "newline")
  /\ UNCHANGED quiet

(* parse_comment looks for the newline only, and at the end of the file it *)
(* reads on for ever.                                                      *)
CommentSpins ==
  /\ ~Ended /\ in_comment /\ AtEnd
  /\ UNCHANGED vars

-----------------------------------------------------------------------------
Stop(how) == parser' = how /\ UNCHANGED <<item, sin_addr, conf>>

(* The token the value of the item must be.                                *)
ValueToken == IF item = SERVER_IP THEN IP ELSE NUM

(* parse_config, config and expect, given the next token and what it holds *)
Parse(tok, address, num) ==
  \/ parser = "item" /\ tok = END /\ Stop("done")
  \/ /\ parser = "item" /\ tok \in Items
     /\ parser' = "assign" /\ item' = tok
     /\ UNCHANGED <<sin_addr, conf>>
  \/ parser = "item" /\ tok \notin Items \cup {END} /\ Stop("item")
  \/ parser = "assign" /\ Stop(IF tok = ASSIGN THEN "value" ELSE "exit")
  \/ parser = "value" /\ tok # ValueToken /\ Stop("exit")
  \/ /\ parser = "value" /\ tok = ValueToken
     /\ parser' = "item"
     /\ IF tok = IP
        THEN sin_addr' = address /\ UNCHANGED conf
        ELSE conf' = [conf EXCEPT ![item] = num] /\ UNCHANGED sin_addr
     /\ UNCHANGED item

Token(tok, next, address, num) ==
  /\ Parse(tok, address, num)
  /\ pre_token' = token /\ token' = tok
  /\ pos' = next
  /\ UNCHANGED <<fin, input, in_comment>>

(* write_back: the end of the file cannot be put back, and the program     *)
(* exits.                                                                  *)
WriteBackFails ==
  /\ Stop("exit")
  /\ UNCHANGED <<fin, input, in_comment, pos, token, pre_token>>

ParseItem ==
  /\ At("item")
  /\ IF pos = Len(input)
     THEN WriteBackFails
     ELSE Token(input[pos].val, pos + 1, << >>, 0)

(* Faulty variant: another name is passed over.                            *)
ParseWordPasses ==
  /\ At("word")
  /\ pos' = pos + 1
  /\ UNCHANGED <<quiet, in_comment>>

(* check knows the four items only.                                        *)
ParseWord ==
  /\ At("word")
  /\ Stop("exit")
  /\ UNCHANGED <<fin, input, in_comment, pos, token, pre_token>>

(* The end of the digits and dots that begin here.                         *)
AddressEnd ==
  CHOOSE last \in pos .. Len(input) :
    /\ \A i \in pos .. last : input[i].kind \in {"num", "dot"}
    /\ last < Len(input) => input[last + 1].kind \notin {"num", "dot"}

(* Faulty variant: a dot ends an address, too.                             *)
ParseAddressDigits ==
  /\ At("num") /\ pre_token = SERVER_IP
  /\ IF pos = Len(input)
     THEN WriteBackFails
     ELSE Token(IP, pos + 1, <<input[pos]>>, 0)

(* What follows server_ip and another token is an address.                 *)
ParseAddress ==
  /\ At("num") /\ pre_token = SERVER_IP
  /\ IF AddressEnd = Len(input)
     THEN WriteBackFails
     ELSE Token(IP, AddressEnd + 1, SubSeq(input, pos, AddressEnd), 0)

(* Faulty variant: the number is stored as it is.                          *)
ParseNumberWide ==
  /\ At("num") /\ pre_token # SERVER_IP
  /\ IF pos = Len(input)
     THEN WriteBackFails
     ELSE Token(NUM, pos + 1, << >>, input[pos].val)

(* A short int, stored as an unsigned short.                               *)
ParseNumber ==
  /\ At("num") /\ pre_token # SERVER_IP
  /\ IF pos = Len(input)
     THEN WriteBackFails
     ELSE Token(NUM, pos + 1, << >>, input[pos].val % Short)

ReadAssign == At("assign") /\ Token(ASSIGN, pos + 1, << >>, 0)

ReadEnd ==
  /\ ~Ended /\ fin /\ ~in_comment /\ AtEnd
  /\ Token(END, pos, << >>, 0)

(* Faulty variant: the character is written back.                          *)
ReadOtherAgain ==
  /\ At("dot") \/ At("junk")
  /\ Parse(token, << >>, 0)
  /\ UNCHANGED <<fin, input, in_comment, pos, token, pre_token>>

(* Another character leaves the token as it is, and the parser is given it *)
(* again.                                                                  *)
ReadOther ==
  /\ At("dot") \/ At("junk")
  /\ Parse(token, << >>, 0)
  /\ pos' = pos + 1
  /\ UNCHANGED <<fin, input, in_comment, token, pre_token>>

(* The message says that the defaults will be used; but the parser is      *)
(* called, and reads from no file.                                         *)
NotFound ==
  /\ ~Ended /\ ~fin
  /\ Stop("crash")
  /\ UNCHANGED <<fin, input, in_comment, pos, token, pre_token>>

Next == \/ SkipBlank \/ EnterComment \/ SkipComment \/ CommentSpins
        \/ ParseItem \/ ParseWord \/ ParseAddress \/ ParseNumber
        \/ ReadAssign \/ ReadEnd \/ ReadOther \/ NotFound

(* The program runs until it has its configuration.                        *)
Spec == Init /\ [][Next]_vars /\ WF_vars(Next)

-----------------------------------------------------------------------------
(* What the file says, in terms of its pieces: TextUpTo[n] is those of the *)
(* first n that are in no comment, without the newlines, and Text all of   *)
(* them.                                                                   *)
Commented(i) ==
  \E j \in 1 .. i : /\ input[j].kind = "comment"
                    /\ \A k \in j .. i : input[k].kind # "newline"

TextUpTo[n \in 0 .. Len(input)] ==
  IF n = 0 THEN << >>
  ELSE IF input[n].kind = "newline" \/ Commented(n) THEN TextUpTo[n - 1]
  ELSE Append(TextUpTo[n - 1], input[n])

Text == TextUpTo[Len(input)]

KindAt(text, k) == IF k \in DOMAIN text THEN text[k].kind ELSE "none"

AssignmentAt(text, k) ==
  /\ text[k].kind = "item"
  /\ KindAt(text, k + 1) = "assign" /\ KindAt(text, k + 2) = "num"

OpenComment == input # << >> /\ Commented(Len(input))

(* A list of assignments, each on lines of its own and with the value its  *)
(* item wants, in a file that ends with a newline.                         *)
WellFormed(text) ==
  /\ input # << >> => input[Len(input)].kind = "newline"
  /\ \A k \in DOMAIN text :
       /\ text[k].kind \notin {"word", "junk"}
       /\ text[k].kind = "item" => AssignmentAt(text, k)
       /\ text[k].kind = "assign" => KindAt(text, k - 1) = "item"
       /\ text[k].kind = "num" => KindAt(text, k - 1) \in {"assign", "dot"}
       /\ text[k].kind = "dot" =>
            \E j \in 1 .. k : /\ text[j].kind = "item" /\ text[j].val = SERVER_IP
                              /\ \A i \in j + 1 .. k : text[i].kind # "item"
  /\ \A i \in DOMAIN input :
       input[i].kind = "dot" /\ ~Commented(i) =>
         i > 1 /\ input[i - 1].kind = "num" /\ KindAt(input, i + 1) = "num"

(* The last assignment to an item, 0 for none.                             *)
Assignment(text, tag) ==
  LET here == {k \in DOMAIN text : text[k].kind = "item" /\ text[k].val = tag}
  IN  IF here = {} THEN 0 ELSE CHOOSE k \in here : \A j \in here : j <= k

Number(text, tag) ==
  IF Assignment(text, tag) = 0 THEN Default[tag]
  ELSE text[Assignment(text, tag) + 2].val % Short

Address(text) ==
  IF Assignment(text, SERVER_IP) = 0 THEN << >>
  ELSE LET first == Assignment(text, SERVER_IP) + 2
           last == CHOOSE i \in first .. Len(text) :
                     /\ \A j \in first .. i : text[j].kind \in {"num", "dot"}
                     /\ KindAt(text, i + 1) \notin {"num", "dot"}
       IN  SubSeq(text, first, last)

(* A well-formed file is accepted, and each item has the value of the last *)
(* assignment to it, modulo 2^16, or its default.                          *)
AsWritten ==
  Ended /\ fin =>
    LET text == Text
    IN  WellFormed(text) =>
          /\ parser = "done"
          /\ sin_addr = Address(text)
          /\ \A tag \in DOMAIN conf : conf[tag] = Number(text, tag)

(* Whatever the file is: when it is accepted, every name in it is an item  *)
(* that is followed by "=" and a number, and no value comes from elsewhere *)
(* (the address may, after a character at the very start of the file: the  *)
(* token is still 0 then, which is SERVER_IP).                             *)
Accountable ==
  parser = "done" =>
    LET text == Text
    IN  /\ \A k \in DOMAIN text :
             /\ text[k].kind # "word"
             /\ text[k].kind = "item" => AssignmentAt(text, k)
        /\ \A tag \in DOMAIN conf : conf[tag] = Number(text, tag)
        /\ sin_addr # << >> => \/ Assignment(text, SERVER_IP) # 0
                               \/ text[1].kind \in {"dot", "junk"}

(* The parser comes to an end, unless a comment does not.                  *)
Terminates == <>(Ended \/ OpenComment)
=============================================================================
