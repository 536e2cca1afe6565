---------------------------- MODULE MCPluginHub -----------------------------
(* Model-checking instances of PluginHub. *)
EXTENDS PluginHub, Json

\* Every client is a run of the same plugin: they all register one name.
OneName == [c \in Conns |-> {<<"panel", 0>>}]

OneEach == [c \in Conns |-> 1]

First == CHOOSE c \in Conns : TRUE

\* Malformed and oversized messages among registrations and subscriptions.
Broken == [c \in Conns |-> {"register", "subscribe", "malformed", "badframe"}]
\* Any message at all.
Anything == [c \in Conns |-> Kinds]
Subscriptions == [c \in Conns |-> {"subscribe"}]

\* Two messages from the first client, one from each other.
TwoAndOne == [c \in Conns |-> IF c = First THEN 2 ELSE 1]

Symmetry == Permutations(Conns)

-----------------------------------------------------------------------------
(* The parser of the messages, on messages of up to three fields *)

Mark(t) == [t |-> t, v |-> t]
Text(s) == [t |-> "string", v |-> s]
Five == [t |-> "number", v |-> 5]

\* A value of each sort: how it is written and what it is to be read as.
Written(kind, val, text) == [kind |-> kind, val |-> val, text |-> text]
Raw(text) == Written("raw", text, text)
Samples ==
  {Written("string", "s", <<Text("s")>>), Raw(<<Five>>),
   Raw(<<Mark("{"), Mark("}")>>),
   Raw(<<Mark("{"), Text("k"), Mark(":"), Mark("["), Five, Mark("]"), Mark("}")>>),
   Written("array", <<>>, <<Mark("["), Mark("]")>>),
   Written("array", <<"s", "t">>,
           <<Mark("["), Text("s"), Mark(","), Text("t"), Mark("]")>>)}

Member(f) == <<Text(f.key), Mark(":")>> \o f.value.text
MessageText(fields) ==
  <<Mark("{")>>
    \o FoldLeft(LAMBDA acc, f : IF acc = <<>> THEN Member(f)
                               ELSE acc \o <<Mark(",")>> \o Member(f), <<>>, fields)
    \o <<Mark("}")>>

\* ipc_parse_message (ipc.c:333) reads back what is written, in order, unless
\* the last value is a bare number: jval_parse takes the brace with it.
ASSUME FieldsReadBack ==
  \A n \in 1 .. 3 : \A fields \in [1 .. n -> [key : {"item", "data"}, value : Samples]] :
    LET read == Fields(MessageText(fields))
    IN  IF fields[n].value.text = <<Five>> THEN ~read.ok
        ELSE /\ read.ok
             /\ read.val = [k \in 1 .. n |->
                  [key |-> fields[k].key, kind |-> fields[k].value.kind,
                   val |-> fields[k].value.val]]

\* A message has the status of its type with the field the type needs, and
\* none of a known type without.
ASSUME StatusNeedsField ==
  \A type \in DOMAIN Needs : \A sample \in Samples :
    LET Field(key, value) == [key |-> key, value |-> value]
        typed == Field("type", Written("string", type, <<Text(type)>>))
        given == Field(Needs[type][1], sample)
    IN  ipc_parse_message(MessageText(<<given, typed>>)) =
          CASE sample.kind = Needs[type][2] /\ sample.text # <<Mark("["), Mark("]")>> -> type
            [] Needs[type][1] = "events" /\ sample.kind # "array" -> "none"
            [] OTHER -> "unknown"
=============================================================================
