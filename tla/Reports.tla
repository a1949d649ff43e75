------------------------------ MODULE Reports ------------------------------
(***************************************************************************)
(* Reports on their way from the files of some clients to the summary of   *)
(* another, through the connections of the server: bytes that arrive in    *)
(* pieces, a decoder that keeps an unfinished frame, frames that are       *)
(* refused, and a receiver that reads events out of the copies.  The       *)
(* clients are logged in, and the receiver stays subscribed; what else a   *)
(* frame does is in Broker.                                                *)
(***************************************************************************)
EXTENDS StompText

CONSTANTS
  User,         (* the clients that report, each a name of one word         *)
  File,         (* the files that they report                               *)
  Content(_),   (* of a file: a channel and a sequence of events            *)
  Subscribed,   (* the channels of the receiver                             *)
  ReadSize,     (* how many bytes a read finds                              *)
  MaxReports    (* bound on the reports of all users                        *)

VARIABLES
  serverType,   (* "tpc" or "reactor"                                       *)
  reported,     (* per user the files, for the properties                   *)
  toServer,     (* per user what has been sent and not been read            *)
  chunk,        (* per user what has been read and not been decoded         *)
  buffer,       (* per user that of its StompEncodeDecoder                  *)
  closed,       (* the users whose thread in the server has ended           *)
  toClient,     (* what the server has written to the receiver              *)
  sumerevent,   (* the events that the receiver has got                     *)
  crashed       (* communicationThread has let an exception out             *)

vars == <<serverType, reported, toServer, chunk, buffer, closed, toClient, sumerevent,
          crashed>>

-----------------------------------------------------------------------------
(* What parseEventsFile and SendFrame make of a file *)

EventFields == {"city", "name", "date", "description", "info"}

(* If an event lacks a field, parseEventsFile throws, and none is sent.     *)
Parses(file) ==
  \A i \in DOMAIN Content(file).events : DOMAIN Content(file).events[i] = EventFields

(* Events(file) are those of which it makes Event objects.                  *)
Events(file) ==
  IF Parses(file) THEN [i \in DOMAIN Content(file).events |->
                          Put(Content(file).events[i], "owner", <<>>)]
  ELSE <<>>

Frames ==
  [report \in User \X File |->
     LET user == report[1]
         file == report[2]
     IN  FlattenSeq([i \in DOMAIN Events(file) |->
                       SendText(<<user>>, Content(file).channel, Events(file)[i])])]

(* The files' texts are texts, and their numbers numbers.  A text holds no   *)
(* command and not the word "user": of one that does, the server could take *)
(* a part for a frame after it has refused another.                         *)
Reserved == Commands \cup {"user"}

IsText(text) == text \in Seq(Char \ Reserved)

ASSUME ContentAssumption ==
  \A file \in File :
    /\ IsText(Content(file).channel)
    /\ Content(file).events \in Seq(ToSet(Content(file).events))
    /\ \A i \in DOMAIN Events(file) :
         LET event == Events(file)[i]
         IN  /\ event = [owner |-> <<>>, city |-> event.city, name |-> event.name,
                         date |-> event.date, description |-> event.description,
                         info |-> event.info]
             /\ IsText(event.city) /\ IsText(event.name) /\ IsText(event.description)
             /\ event.date \in Number
             /\ IsFiniteSet(DOMAIN event.info)
             /\ event.info = [key \in DOMAIN event.info |-> event.info[key]]
             /\ \A key \in DOMAIN event.info : IsText(key) /\ IsText(event.info[key])

(* Names of users are words, which the server leaves apart.                 *)
ASSUME UserAssumption ==
  /\ User \subseteq Char \ (Reserved \cup White \cup {Colon, Nul})
  /\ \A u, v \in User : DecodedChar(u) = DecodedChar(v) => u = v

ASSUME ReadSizeAssumption == ReadSize \subseteq Nat \ {0} /\ ReadSize # {}

Characters(bytes) == [i \in DOMAIN bytes |-> DecodedChar(bytes[i])]

(* SendFrame.process; a frame without destination or body is refused, and   *)
(* the client sends no other frame here.  The names of the receiver's       *)
(* channels came through the same decoder.                                  *)
Topics == {Trim(Characters(channel)) : channel \in Subscribed}

Copies(frame) ==
  IF /\ frame.command = "SEND"
     /\ Destination \in DOMAIN frame.headers /\ frame.body # <<>>
     /\ Unslashed(frame.headers[Destination]) \in Topics
    THEN MessageText(Unslashed(frame.headers[Destination]), frame.body)
    ELSE <<>>

-----------------------------------------------------------------------------
Init ==
  /\ serverType \in {"tpc", "reactor"}
  /\ reported = [u \in User |-> <<>>]
  /\ toServer = [u \in User |-> <<>>]
  /\ chunk = [u \in User |-> <<>>]
  /\ buffer = [u \in User |-> <<>>]
  /\ closed = {}
  /\ toClient = <<>>
  /\ sumerevent = <<>>
  /\ crashed = FALSE

(* report {file}: handleReportCommand, which goes on to the next event when *)
(* one cannot be sent.                                                      *)
Report(u, file) ==
  /\ FoldFunction(LAMBDA files, sum : Len(files) + sum, 0, reported) < MaxReports
  /\ reported' = [reported EXCEPT ![u] = Append(@, file)]
  /\ toServer' = IF u \in closed THEN toServer
                 ELSE [toServer EXCEPT ![u] = @ \o Frames[<<u, file>>]]
  /\ UNCHANGED <<serverType, chunk, buffer, closed, toClient, sumerevent, crashed>>

(* A read of the socket: continueRead, or that of the BufferedInputStream.  *)
Read(u) ==
  /\ chunk[u] = <<>> /\ toServer[u] # <<>>
  /\ \E size \in ReadSize :
       LET n == IF size < Len(toServer[u]) THEN size ELSE Len(toServer[u])
       IN  /\ chunk' = [chunk EXCEPT ![u] = SubSeq(toServer[u], 1, n)]
           /\ toServer' = [toServer EXCEPT ![u] = SubSeq(@, n + 1, Len(@))]
  /\ UNCHANGED <<serverType, reported, buffer, closed, toClient, sumerevent, crashed>>

Ends(bytes) == SelectInSeq(bytes, LAMBDA ch : ch = Nul)

(* decodeNextByte for every byte of a chunk in which no frame ends.         *)
Decode(u) ==
  /\ chunk[u] # <<>> /\ Ends(chunk[u]) = 0
  /\ buffer' = [buffer EXCEPT ![u] = @ \o Characters(chunk[u])]
  /\ chunk' = [chunk EXCEPT ![u] = <<>>]
  /\ UNCHANGED <<serverType, reported, toServer, closed, toClient, sumerevent, crashed>>

(* A frame that ends in the chunk is decoded and processed, and the rest of *)
(* the chunk is still to be decoded.  An exception of parse ends the task,  *)
(* and the rest is lost; in the thread-per-client server it ends the        *)
(* thread, and the socket is closed.                                        *)
Process(u) ==
  /\ Ends(chunk[u]) # 0
  /\ LET text  == buffer[u] \o Characters(SubSeq(chunk[u], 1, Ends(chunk[u]) - 1))
         frame == Parse(text)
     IN  /\ buffer' = [buffer EXCEPT ![u] = <<>>]
         /\ \/ /\ frame # Malformed
               /\ chunk' = [chunk EXCEPT ![u] = SubSeq(@, Ends(@) + 1, Len(@))]
               /\ toClient' = toClient \o Copies(frame)
               /\ UNCHANGED <<toServer, closed>>
            \/ /\ frame = Malformed
               /\ chunk' = [chunk EXCEPT ![u] = <<>>]
               /\ IF serverType = "tpc"
                    THEN closed' = closed \cup {u} /\ toServer' = [toServer EXCEPT ![u] = <<>>]
                    ELSE UNCHANGED <<closed, toServer>>
               /\ UNCHANGED toClient
  /\ UNCHANGED <<serverType, reported, sumerevent, crashed>>

(* getFrameAscii and the branch of MESSAGE.                                 *)
Receive ==
  /\ ~crashed /\ toClient # <<>>
  /\ LET text == SubSeq(toClient, 1, Ends(toClient) - 1)
     IN  /\ toClient' = SubSeq(toClient, Ends(toClient) + 1, Len(toClient))
         /\ IF Unreadable(text)
              THEN crashed' = TRUE /\ UNCHANGED sumerevent
              ELSE sumerevent' = Append(sumerevent, ReadEvent(text)) /\ UNCHANGED crashed
  /\ UNCHANGED <<serverType, reported, toServer, chunk, buffer, closed>>

Next ==
  \/ \E u \in User :
       \/ \E file \in File : Report(u, file)
       \/ Read(u) \/ Decode(u) \/ Process(u)
  \/ Receive

Spec == Init /\ [][Next]_vars

-----------------------------------------------------------------------------
(* The buffers of the server hold nothing but characters of its decoder,    *)
(* never the end of a frame, a chunk is no longer than a read, and a frame  *)
(* for the receiver is whole.                                               *)
TypeOK ==
  /\ serverType \in {"tpc", "reactor"}
  /\ \A u \in User :
       /\ reported[u] \in Seq(File)
       /\ \E size \in ReadSize : Len(chunk[u]) <= size
       /\ ToSet(buffer[u]) \cap (NonAscii \cup {Nul}) = {}
  /\ closed \subseteq (IF serverType = "tpc" THEN User ELSE {})
  /\ toClient = <<>> \/ Last(toClient) = Nul
  /\ crashed \in BOOLEAN

(* A text that stays in its line *)
OneLine(text) == ToSet(text) \cap {Newline, Nul} = {}

PlainEvent(event) ==
  /\ OneLine(event.city) /\ OneLine(event.name) /\ ~Occurs(Nul, event.description)
  /\ \A key \in DOMAIN event.info :
       OneLine(key \o event.info[key]) /\ ToSet(key) \cap (NonAscii \cup {Colon}) = {}

Plain(file) ==
  /\ OneLine(Content(file).channel) \/ Events(file) = <<>>
  /\ \A i \in DOMAIN Events(file) : PlainEvent(Events(file)[i])

(* What the decoder hands to parse of an event's frame *)
Decoded(user, file, i) ==
  LET frame == SendText(<<user>>, Content(file).channel, Events(file)[i])
  IN  Characters(SubSeq(frame, 1, Ends(frame) - 1))

(* The users and files of which the server refuses every frame *)
Refused ==
  {report \in User \X File :
     \A i \in DOMAIN Events(report[2]) : Parse(Decoded(report[1], report[2], i)) = Malformed}

(* The topic that the server takes a channel for *)
Topic(channel) == Tail(Trim(<<Slash>> \o Characters(channel)))

(* The files of which the receiver should get the events *)
Forwarded == {file \in File : Topic(Content(file).channel) \in Topics}

(* What a value is for the receiver: a value with a colon is lost, unless   *)
(* the colon is its last character, which alone is lost then.               *)
ReceivedValue(value) ==
  LET last == SelectInSeq(value, LAMBDA ch : ch = Colon)
  IN  IF last = 0 THEN <<Blank>> \o Characters(value)
      ELSE IF last = Len(value) THEN <<Blank>> \o Characters(Front(value)) ELSE <<>>

(* What an event is for the receiver: names and values come with a blank    *)
(* before them, white space at the end is lost, and the general information *)
(* has an entry more, with what is left of the word "description".          *)
AsReceived(user, event) ==
  LET text  == event.description
      black == SelectLastInSeq(text, LAMBDA ch : ch \notin White)
      Of(key) == CHOOSE k \in DOMAIN event.info : <<Blank>> \o k = key
      extra == <<"rest of a word">>
  IN  [owner |-> ReceivedValue(<<user>>), city |-> ReceivedValue(event.city),
       name |-> ReceivedValue(event.name), date |-> event.date,
       description |-> IF black = 0 THEN <<>>
                       ELSE Append(Characters(SubSeq(text, 1, black)), Newline),
       info |-> Put([key \in {<<Blank>> \o k : k \in DOMAIN event.info} |->
                       ReceivedValue(event.info[Of(key)])],
                    extra, IF black = 0 THEN <<>> ELSE <<Blank>>)]

(* What the receiver should get of a user, and what it has got.             *)
Arriving ==
  [report \in User \X File |->
     LET user == report[1]
         file == report[2]
     IN  IF file \in Forwarded
           THEN [i \in DOMAIN Events(file) |-> AsReceived(user, Events(file)[i])]
           ELSE <<>>]

Expected(u) == FlattenSeq([i \in DOMAIN reported[u] |-> Arriving[<<u, reported[u][i]>>]])

(* The events of a user, in order *)
EventsOf(u, events) ==
  LET own[n \in 0..Len(events)] ==
        IF n = 0 THEN <<>>
        ELSE IF events[n].owner = ReceivedValue(<<u>>) THEN Append(own[n - 1], events[n])
        ELSE own[n - 1]
  IN  own[Len(events)]

Received(u) == EventsOf(u, sumerevent)

(* Everything that a user has reported has been decoded and received.       *)
Drained(u) == toServer[u] = <<>> /\ chunk[u] = <<>> /\ toClient = <<>>

WellFormed(u) == \A i \in DOMAIN reported[u] : Plain(reported[u][i])

(* However the bytes of a user's reports are cut into reads, and whatever   *)
(* the other users send meanwhile, malformed frames included, the receiver  *)
(* gets each of the user's events on its channels once and in order.        *)
NothingLost ==
  \A u \in User :
    WellFormed(u) /\ ~crashed =>
      /\ IsPrefix(Received(u), Expected(u))
      /\ Drained(u) => Received(u) = Expected(u)

(* s is t without some of its elements.                                     *)
Among(s, t) ==
  \E at \in [DOMAIN s -> DOMAIN t] :
    \A i \in DOMAIN s : s[i] = t[at[i]] /\ (i > 1 => at[i - 1] < at[i])

(* A user some of whose files are refused, so that the server may start     *)
(* decoding in the middle of a frame, loses events, but no event arrives    *)
(* twice, out of order or put together from two.                            *)
NothingInvented ==
  \A u \in User :
    (\A i \in DOMAIN reported[u] : Plain(reported[u][i]) \/ <<u, reported[u][i]>> \in Refused)
      => Among(Received(u), Expected(u))

(* A receiver of whose senders every file is plain or refused lets no       *)
(* exception out.                                                           *)
ReceiverSurvives ==
  crashed => \E u \in User : \E i \in DOMAIN reported[u] :
               ~Plain(reported[u][i]) /\ <<u, reported[u][i]>> \notin Refused

(* The numbers of a summary of a user are those of its files, for a name in *)
(* ASCII and if no value of the two entries has a colon.                    *)
SummaryCounts ==
  \A u \in User \ NonAscii :
    LET events == FlattenSeq([i \in DOMAIN reported[u] |->
                                IF reported[u][i] \in Forwarded
                                  THEN Events(reported[u][i]) ELSE <<>>])
    IN  /\ WellFormed(u) /\ ~crashed /\ Drained(u)
        /\ \A i \in DOMAIN events : \A key \in DOMAIN events[i].info :
             ~Occurs(Colon, events[i].info[key])
        => Summary(<<u>>, sumerevent) =
             [reports |-> Len(events), active |-> Total(DOMAIN events, events, "active"),
              arrived |-> Total(DOMAIN events, events, "forces_arrival_at_scene")]

=============================================================================
