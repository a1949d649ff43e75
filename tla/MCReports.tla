----------------------------- MODULE MCReports -----------------------------
(* Instances of Reports for TLC. *)
EXTENDS Reports

Fire == <<"fire">>

Info(active, arrival) ==
  Put(Put(EmptyMap, <<"active">>, active), <<"forces_arrival_at_scene">>, arrival)

(* Two reports, the second of which has a colon in its city and nothing to  *)
(* describe.                                                                *)
Two ==
  [channel |-> Fire,
   events |-> <<[city |-> <<"liberty">>, name |-> <<"grand", Blank, "fire">>, date |-> "7",
                 description |-> <<"smoke", Newline, "date time", Colon, Blank, "soon",
                                  Newline, Blank>>,
                 info |-> Info(<<"true">>, <<"true">>)],
                [city |-> <<"a", Colon, "b">>, name |-> <<"fire", Colon>>, date |-> "8",
                 description |-> <<>>, info |-> Info(<<"true">>, <<"false">>)]>>]

One(city, description) ==
  [city |-> city, name |-> <<"fire">>, date |-> "9", description |-> description,
   info |-> Info(<<"{", Colon, "}">>, <<"true">>)]

Umlaut == "u umlaut"

MCContent(file) ==
  CASE file = "two"        -> Two
    [] file = "foreign"    -> [channel |-> Fire, events |-> <<One(<<Umlaut>>, <<Umlaut, Blank>>)>>]
    [] file = "elsewhere"  -> [channel |-> <<"flood">>, events |-> <<One(<<"liberty">>, <<>>)>>]
    [] file = "two lines"  -> [channel |-> <<"fire", Newline, "east">>, events |-> Two.events]
    [] file = "incomplete" -> [channel |-> Fire, events |-> <<Two.events[1], [city |-> <<"liberty">>]>>]
    [] file = "no date"    ->
         [channel |-> Fire,
          events |-> <<One(<<"x", Newline, "date time", Colon>>, <<"y">>)>>]
    [] file = "null"       -> [channel |-> Fire, events |-> <<One(<<"liberty">>, <<"y", Nul, "z">>)>>]

MCChar ==
  {"ann", Umlaut, "liberty", "a", "b", "grand", "fire", "flood", "east", "smoke", "soon", "date time",
   "true", "false", "active", "forces_arrival_at_scene", "{", "}", "x", "y", "z",
   Newline, Blank, Colon, Nul, "7", "8", "9"}

MCSubscribed == {Fire}

=============================================================================
