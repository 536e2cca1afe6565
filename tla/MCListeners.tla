---------------------------- MODULE MCListeners ----------------------------
(* Two output devices; configurations in the way of the default theme, one *)
(* with duplicates and an events table, one that is cut off.               *)
EXTENDS Listeners

CONSTANTS speakers, hdmi, none, nothing

TheChannels == speakers :> {"main", "left"} @@ hdmi :> {"left"}
TheBatteries == {<<50>>, <<40, 63>>}

-----------------------------------------------------------------------------
(* Texts *)

Mark(t) == <<[t |-> t, v |-> t]>>
Text(s) == <<[t |-> "string", v |-> s]>>
Number(n) == <<[t |-> "number", v |-> n]>>
Listed(texts) ==
  FoldLeft(LAMBDA acc, text : IF acc = <<>> THEN text ELSE acc \o Mark(",") \o text,
           <<>>, texts)
Array(texts) == Mark("[") \o Listed(texts) \o Mark("]")
Object(members) ==
  Mark("{") \o Listed([n \in DOMAIN members |->
                         Text(members[n][1]) \o Mark(":") \o members[n][2]]) \o Mark("}")
Strung(strings) == Array([n \in DOMAIN strings |-> Text(strings[n])])

-----------------------------------------------------------------------------
(* The parser of the configuration against the grammar of JSON *)

Tokens ==
  {[t |-> t, v |-> t] : t \in {"{", "}", "[", "]", ":", ","}}
    \cup {[t |-> "string", v |-> "k"], [t |-> "number", v |-> 1]}

\* The texts of n tokens that are a value, a list of values, of members.
Derived(kind, n) ==
  LET D[what \in {"value", "elements", "members"}, k \in 1 .. n] ==
        LET Entry(j) ==
              IF what = "elements" THEN D["value", j]
              ELSE {Text("k") \o Mark(":") \o v : v \in IF j > 2 THEN D["value", j - 2] ELSE {}}
            Within(open, list, close) ==
              {Mark(open) \o l \o Mark(close) :
                 l \in IF k > 2 THEN D[list, k - 2] ELSE IF k = 2 THEN {<<>>} ELSE {}}
        IN  IF what = "value"
            THEN (IF k = 1 THEN {Text("k"), Number(1)} ELSE {})
                   \cup Within("[", "elements", "]") \cup Within("{", "members", "}")
            ELSE Entry(k) \cup
                 UNION {{a \o Mark(",") \o b : a \in Entry(j), b \in D[what, k - 1 - j]} :
                          j \in 1 .. k - 2}
  IN  D[kind, n]

\* json_parse_val (config.c:281) reads every value whole and nothing else.
ASSUME ParserReadsJson ==
  \A n \in 1 .. 5 : \A text \in [1 .. n -> Tokens] :
    LET read == json_parse(text)
    IN  read.ok /\ read.next = n + 1 <=> text \in Derived("value", n)

-----------------------------------------------------------------------------
(* The configurations *)

Theme ==
  Object(<<
    <<"daemon", Object(<<>>)>>,
    <<"items", Object(<<
       <<"right", Array(<<
          Object(<<<<"name", Text("battery")>>, <<"type", Text("battery")>>,
                   <<"position", Text("r")>>,
                   <<"update_mask", Strung(<<"power_changed">>)>>>>),
          Object(<<<<"name", Text("volume")>>, <<"type", Text("volume")>>,
                   <<"position", Text("r")>>,
                   <<"update_mask", Strung(<<"volume_changed", "mute_changed">>)>>>>)>>)>>,
       <<"left", Array(<<
          Object(<<<<"name", Text("media")>>, <<"type", Text("media")>>,
                   <<"update_interval", Number(2)>>,
                   <<"update_mask", Strung(<<"media_changed">>)>>>>)>>)>>>>)>>>>)

Entry(event, item) == Object(<<<<"event", Text(event)>>, <<"item", Text(item)>>>>)

\* The same name twice, an object without one, a key twice, masks from the table
\* and a strip of spaces.
Tabled ==
  Object(<<
    <<"items", Object(<<
       <<"center", Array(<<
          Object(<<<<"name", Text("level")>>, <<"script", Text("battery")>>>>),
          Object(<<<<"type", Text("clock")>>>>),
          Object(<<<<"name", Text("quiet")>>, <<"script", Text("dnd")>>,
                   <<"update_interval", Number(1)>>, <<"name", Text("level")>>>>)>>)>>,
       <<"right", Array(<<
          Object(<<<<"name", Text("level")>>, <<"type", Text("clock")>>>>),
          Object(<<<<"name", Text("sound")>>, <<"type", Text("volume")>>,
                   <<"position", Text("cl")>>,
                   <<"update_mask", Strung(<<"dnd">>)>>>>),
          Object(<<<<"name", Text("spaces")>>, <<"type", Text("space")>>,
                   <<"update_mask", Strung(<<"front_app_switched">>)>>>>)>>)>>>>)>>,
    <<"events", Object(<<
       <<"items", Array(<<
          Entry("volume_changed", "sound"), Entry("power_changed", "level"),
          Entry("display_changed", "level"), Entry("unheard_of", "level")>>)>>>>)>>>>)

ThemeRead == Document(Theme)
TabledRead == Document(Tabled)
CutOff == Document(Front(Theme))

TheConfigs == {ThemeRead, TabledRead, CutOff}
ThemeOnly == {ThemeRead}

-----------------------------------------------------------------------------
(* The machines *)

Machine0 ==
  [device |-> speakers, volume |-> [d \in Devices |-> 6],
   muted |-> [d \in Devices |-> FALSE], batteries |-> <<50>>, source |-> "AC",
   value |-> [o \in Others |-> 1], dnd |-> "off"]
TheMachines ==
  {Machine0, [Machine0 EXCEPT !.device = hdmi, !.source = "unknown", !.dnd = "on"]}
=============================================================================
