----------------------------- MODULE StompText -----------------------------
(***************************************************************************)
(* What becomes of a report on its way from a file of one client to the    *)
(* summary of another: the text that the client sends, the frame that the  *)
(* server reads in it, the text of the copies, and the event that a client *)
(* reads in one.                                                           *)
(*                                                                         *)
(* A text is a sequence of characters, but for words that are compared as  *)
(* a whole and numbers, which count as one.                                *)
(***************************************************************************)
EXTENDS Integers, SequencesExt, ConcurrentMaps

CONSTANTS
  Char,       (* the characters of names and of files                      *)
  Number,     (* those that stand for a number                             *)
  NonAscii    (* those whose bytes in UTF-8 are negative                   *)

Newline == "newline"
Colon == ":"
Blank == " "
Slash == "/"
Nul == "nul"

White == {Newline, Blank}

(* The commands of createFrame *)
Commands == {"CONNECT", "SEND", "SUBSCRIBE", "UNSUBSCRIBE", "DISCONNECT"}

(* The characters that the frames of the clients and the copies are made of *)
Word ==
  White \cup Commands \cup
  {Colon, Slash, Nul, "destination", "MESSAGE", "message-id", "subscription", "id", "user",
   "city", "event name", "date time", "general information", "description", "Event Owner"}

(* What decodeNextByte and encode make of a character of more than one byte *)
Garbage == "garbage"

(* A number is neither a word nor anything else than ASCII, as words are,   *)
(* and so is the value that a summary counts.                               *)
ASSUME TextAssumption ==
  /\ Number \subseteq Char /\ NonAscii \subseteq Char
  /\ Number \cap NonAscii = {}
  /\ (Number \cup NonAscii) \cap (Word \cup {Garbage, "true"}) = {}

-----------------------------------------------------------------------------
(* Pieces of a text *)

Pieces(text, separator) ==
  LET pieces[n \in 0..Len(text)] ==
        IF n = 0 THEN << <<>> >>
        ELSE LET before == pieces[n - 1]
             IN  IF text[n] = separator THEN Append(before, <<>>)
                 ELSE [before EXCEPT ![Len(before)] = Append(@, text[n])]
  IN  pieces[Len(text)]

(* A mutation of GetLines: a separator at the end starts one more piece. *)
MutGetLinesAll(text, separator) == Pieces(text, separator)

(* std::getline until it fails, which it does after a separator at the end. *)
GetLines(text, separator) ==
  LET pieces == Pieces(text, separator)
  IN  IF Last(pieces) = <<>> THEN Front(pieces) ELSE pieces

(* String.split of Java drops every empty piece at the end. *)
Split(text, separator) ==
  LET pieces == Pieces(text, separator)
  IN  IF text = <<>> THEN pieces
      ELSE SubSeq(pieces, 1, SelectLastInSeq(pieces, LAMBDA piece : piece # <<>>))

Trim(text) ==
  LET Black(ch) == ch \notin White
  IN  IF SelectInSeq(text, Black) = 0 THEN <<>>
      ELSE SubSeq(text, SelectInSeq(text, Black), SelectLastInSeq(text, Black))

(* The text of some lines *)
Lines(lines) == FlattenSeq([i \in DOMAIN lines |-> Append(lines[i], Newline)])

Occurs(ch, text) == ch \in ToSet(text)

-----------------------------------------------------------------------------
(* The client that reports *)

Entry(key, value) == key \o <<Colon, Blank>> \o value

(* The general information of an event is a map, whose order is that of its *)
(* keys.  owner is empty unless the event was received.                     *)
EventLines(event) ==
  LET keys == SetToSeq(DOMAIN event.info)
  IN  <<Entry(<<"city">>, event.city), Entry(<<"event name">>, event.name),
        Entry(<<"date time">>, <<event.date>>), <<"general information", Colon>> >>
        \o [i \in DOMAIN keys |-> Entry(<<Blank, Blank>> \o keys[i], event.info[keys[i]])]
        \o << <<"description", Colon, Blank>>, event.description>>
        \o (IF event.owner = <<>> THEN <<>> ELSE <<Entry(<<"Event Owner">>, event.owner)>>)

(* The frame of handleReportCommand; sendFrameAscii ends it with a null. *)
SendText(user, channel, event) ==
  Append(Lines(<< <<"SEND">>, <<"destination", Colon, Slash>> \o channel, <<>>,
                  Entry(<<"user">>, user)>> \o EventLines(event) \o << <<>> >>), Nul)

-----------------------------------------------------------------------------
(* The server *)

(* parse throws an IllegalArgumentException. *)
Malformed == [command |-> "none"]

(* line.split(":", 2), both parts trimmed *)
FirstColon(line) == SelectInSeq(line, LAMBDA ch : ch = Colon)
HeaderKey(line) == Trim(SubSeq(line, 1, FirstColon(line) - 1))
HeaderValue(line) == Trim(SubSeq(line, FirstColon(line) + 1, Len(line)))

(* A header that comes twice is overwritten. *)
Headers(lines) ==
  [key \in {HeaderKey(lines[i]) : i \in DOMAIN lines} |->
     HeaderValue(lines[Max({i \in DOMAIN lines : HeaderKey(lines[i]) = key})])]

(* The line of a header has a colon. *)
IsHeader(line) == Occurs(Colon, line)

(* Headers go up to the first empty line, and the rest is the body. *)
Parse(text) ==
  LET lines   == Split(text, Newline)
      empty   == SelectInSubSeq(lines, 2, Len(lines), LAMBDA line : line = <<>>)
      end     == IF empty = 0 THEN Len(lines) + 1 ELSE empty
      headers == SubSeq(lines, 2, end - 1)
      body    == SubSeq(lines, end + 1, Len(lines))
  IN  IF \/ lines = <<>>
         \/ Trim(lines[1]) \notin {<<command>> : command \in Commands}
         \/ \E i \in DOMAIN headers : ~IsHeader(headers[i])
        THEN Malformed
        ELSE [command |-> Trim(lines[1])[1],
              headers |-> Headers(headers),
              body    |-> Trim(Lines(body))]

(* A byte is cast to a char, and the chars are encoded again. *)
DecodedChar(ch) == IF ch \in NonAscii THEN Garbage ELSE ch

Destination == <<"destination">>

Unslashed(topic) == IF topic # <<>> /\ topic[1] = Slash THEN Tail(topic) ELSE topic

(* A mutation: the null is missing. *)
MutMessageText(topic, body) ==
  Lines(<< <<"MESSAGE">>, <<"destination", Colon, Slash>> \o topic, <<>> >>) \o body

(* A copy of a MessageFrame with the headers that send has added, as        *)
(* encoded; the ids are those of any subscription and message.              *)
MessageText(topic, body) ==
  Append(Lines(<< <<"MESSAGE">>, <<"message-id", Colon, "id">>, <<"subscription", Colon, "id">>,
                  <<"destination", Colon, Slash>> \o topic, <<>> >>) \o body, Nul)

-----------------------------------------------------------------------------
(* The client that receives *)

(* A mutation: of more than two parts the last one is the value. *)
MutValueOf(line) == Last(GetLines(line, Colon))

(* A line of a body: what is before its first colon, and what is between    *)
(* that and the end, unless there is another colon with text behind it.     *)
KeyOf(line) == GetLines(line, Colon)[1]
ValueOf(line) ==
  LET parts == GetLines(line, Colon) IN IF Len(parts) = 2 THEN parts[2] ELSE <<>>

HasKey(line, key) == Occurs(Colon, line) /\ KeyOf(line) = <<key>>

(* A mutation: the lines of the description count. *)
MutFieldsOf(lines) == {i \in DOMAIN lines : Occurs(Colon, lines[i])}

(* The lines of a body that count, those of the frame's headers included:   *)
(* what comes after "description" is no longer looked at.                   *)
FieldsOf(lines) ==
  LET description == SelectInSeq(lines, LAMBDA line : HasKey(line, "description"))
  IN  {i \in DOMAIN lines : /\ Occurs(Colon, lines[i])
                            /\ description = 0 \/ i <= description}

(* A field that comes twice is overwritten. *)
Field(lines, key) ==
  LET at == {i \in FieldsOf(lines) : KeyOf(lines[i]) = <<key>>}
  IN  IF at = {} THEN <<>> ELSE ValueOf(lines[Max(at)])

(* The lines after "general information", "description" included *)
IsHeading(line) == KeyOf(line) = <<"general information">>
EntriesOf(lines) ==
  LET headings == {i \in FieldsOf(lines) : IsHeading(lines[i])}
  IN  {i \in FieldsOf(lines) \ headings : \E j \in headings : j < i}

(* key.substr(1); a word counts as one character, of which the rest stays.  *)
WithoutFirst(key) == IF key[1] = Blank THEN Tail(key) ELSE <<"rest of a word">> \o Tail(key)

Description(lines) ==
  LET heading == SelectInSeq(lines, LAMBDA line : HasKey(line, "description"))
  IN  IF heading = 0 THEN <<>> ELSE Lines(SubSeq(lines, heading + 1, Len(lines)))

IsNumber(text) == Trim(text) # <<>> /\ Trim(text)[1] \in Number

(* Event(frame_body) throws: stoi of what is no number, substr of nothing.  *)
Unreadable(text) ==
  LET lines == GetLines(text, Newline) IN
  \/ \E i \in FieldsOf(lines) :
       KeyOf(lines[i]) = <<"date time">> /\ ~IsNumber(ValueOf(lines[i]))
  \/ \E i \in EntriesOf(lines) : KeyOf(lines[i]) = <<>>

(* The general information; an entry that comes twice is overwritten. *)
Information(lines) ==
  LET entries == EntriesOf(lines)
      keys    == [i \in entries |-> WithoutFirst(KeyOf(lines[i]))]
  IN  [key \in {keys[i] : i \in entries} |->
         ValueOf(lines[Max({i \in entries : keys[i] = key})])]

(* Event(frame_body) *)
ReadEvent(text) ==
  LET lines == GetLines(text, Newline) IN
  [owner |-> Field(lines, "user"), city |-> Field(lines, "city"),
   name |-> Field(lines, "event name"),
   date |-> IF Field(lines, "date time") = <<>> THEN "0" ELSE Trim(Field(lines, "date time"))[1],
   description |-> Description(lines),
   info |-> Information(lines)]

-----------------------------------------------------------------------------
(* A mutation: the blank before the name is not trimmed. *)
MutOwnedBy(user, events) == {i \in DOMAIN events : events[i].owner = user}

(* The summary of a user's reports: their number, and in how many of them   *)
(* an entry of the general information is true.                             *)
OwnedBy(user, events) == {i \in DOMAIN events : Trim(events[i].owner) = Trim(user)}

True(event, key) ==
  {k \in DOMAIN event.info : Trim(k) = <<key>> /\ Trim(event.info[k]) = <<"true">>}

Total(own, events, key) == Cardinality(UNION {{i} \X True(events[i], key) : i \in own})

Summary(user, events) ==
  LET own == OwnedBy(user, events)
  IN  [reports |-> Cardinality(own), active |-> Total(own, events, "active"),
       arrived |-> Total(own, events, "forces_arrival_at_scene")]

=============================================================================
