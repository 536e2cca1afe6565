-------------------------------- MODULE Json --------------------------------
(***************************************************************************)
(* The two JSON parsers: of the configuration (config.c) and of the        *)
(* messages on the socket (ipc.c).  A text is a sequence of tokens; how    *)
(* the characters make up a string or a number is left out.                *)
(***************************************************************************)
EXTENDS Integers, Sequences, TLC

Scalars == {"string", "number", "true", "false", "null"}

\* A token: its kind, and for a scalar the value it stands for.
KindAt(text, i) == IF i \in DOMAIN text THEN text[i].t ELSE "end"

Fail == [ok |-> FALSE]
Got(val, next) == [ok |-> TRUE, val |-> val, next |-> next]

-----------------------------------------------------------------------------
(* config.c *)

\* The bracket that closes an array or an object.
Closing == [b \in {"[", "{"} |-> IF b = "[" THEN "]" ELSE "}"]

\* json_parse_val, json_parse_array, json_parse_object: from token i on, a
\* value, or the entries up to a closing bracket.  An object is a function:
\* of two members with one key json_get_field finds the first.
json_parse(text) ==
  LET Kind(i) == KindAt(text, i)
      IsKey(i) == Kind(i) = "string" /\ Kind(i + 1) = ":"
      Join(part, i, val, rest) ==
        IF part = "]" THEN <<val>> \o rest ELSE (text[i].v :> val) @@ rest
      P[part \in {"value", "]", "}"}, i \in 1 .. Len(text) + 1] ==
        IF part = "value"
        THEN CASE Kind(i) \in Scalars -> Got(text[i].v, i + 1)
               [] Kind(i) \in DOMAIN Closing ->
                    IF Kind(i + 1) = Closing[Kind(i)] THEN Got(<<>>, i + 2)
                    ELSE P[Closing[Kind(i)], i + 1]
               [] OTHER -> Fail
        ELSE LET entry == IF part = "]" THEN P["value", i]
                          ELSE IF IsKey(i) THEN P["value", i + 2] ELSE Fail
                 more == P[part, entry.next + 1]
             IN  CASE ~entry.ok -> Fail
                   [] entry.ok /\ Kind(entry.next) = part ->
                        Got(Join(part, i, entry.val, <<>>), entry.next + 1)
                   [] entry.ok /\ Kind(entry.next) = "," /\ more.ok ->
                        Got(Join(part, i, entry.val, more.val), more.next)
                   [] OTHER -> Fail
  IN  P["value", 1]

-----------------------------------------------------------------------------
(* ipc.c *)

\* The strings of an array from token i on: the list may end in a comma, and
\* at a token that does not belong there it is left as it is.
Strings(text) ==
  LET Kind(i) == KindAt(text, i)
      S[i \in 1 .. Len(text) + 1] ==
        CASE Kind(i) = "]" -> [val |-> <<>>, next |-> i + 1, whole |-> TRUE]
          [] Kind(i) = "string" /\ Kind(i + 1) = "," ->
               [S[i + 2] EXCEPT !.val = <<text[i].v>> \o @]
          [] Kind(i) = "string" /\ Kind(i + 1) = "]" ->
               [val |-> <<text[i].v>>, next |-> i + 2, whole |-> TRUE]
          [] Kind(i) = "string" /\ Kind(i + 1) \notin {",", "]"} ->
               [val |-> <<text[i].v>>, next |-> i + 1, whole |-> FALSE]
          [] OTHER -> [val |-> <<>>, next |-> i, whole |-> FALSE]
  IN  S

\* Where the scan of a raw value ends: past the bracket that closes it (or
\* the object it stands in), or at a comma outside brackets.
RawEnd(text) ==
  LET Kind(i) == KindAt(text, i)
      R[i \in 1 .. Len(text) + 1, depth \in 0 .. Len(text)] ==
        CASE Kind(i) = "end" \/ (Kind(i) = "," /\ depth = 0) -> i
          [] Kind(i) \in {"{", "["} -> R[i + 1, depth + 1]
          [] Kind(i) \in {"}", "]"} -> IF depth <= 1 THEN i + 1 ELSE R[i + 1, depth - 1]
          [] OTHER -> R[i + 1, depth]
  IN  R

\* jval_parse; an empty array that is broken off counts -1 strings.
jval_parse(text, i) ==
  CASE KindAt(text, i) = "string" ->
         [kind |-> "string", val |-> text[i].v, next |-> i + 1]
    [] KindAt(text, i) = "[" ->
         LET s == Strings(text)[i + 1]
         IN  [kind |-> IF s.val = <<>> /\ ~s.whole THEN "broken" ELSE "array",
              val |-> s.val, next |-> s.next]
    [] OTHER ->
         LET end == RawEnd(text)[i, 0]
         IN  [kind |-> "raw", val |-> SubSeq(text, i, end - 1), next |-> end]

\* The fields of a message, in order; a comma may be the last token in it.
Fields(text) ==
  LET Kind(i) == KindAt(text, i)
      F[i \in 1 .. Len(text) + 1] ==
        LET v == jval_parse(text, i + 2)
            field == [key |-> text[i].v, kind |-> v.kind, val |-> v.val]
        IN  CASE Kind(i) = "}" -> Got(<<>>, i)
              [] Kind(i) = "string" /\ Kind(i + 1) = ":" ->
                   CASE Kind(v.next) = "}" -> Got(<<field>>, v.next)
                     [] Kind(v.next) = "," /\ F[v.next + 1].ok ->
                          [F[v.next + 1] EXCEPT !.val = <<field>> \o @]
                     [] OTHER -> Fail
              [] OTHER -> Fail
  IN  IF Kind(1) = "{" THEN F[2] ELSE Fail

\* What a message of each type needs, and the kind of value it has.
Needs ==
  [register |-> <<"name", "string">>, update |-> <<"item", "string">>,
   subscribe |-> <<"events", "array">>, query |-> <<"item", "string">>,
   trigger |-> <<"event", "string">>]

\* The values of a field, in the order in which they overwrite each other.
Given(fields, key, kind) ==
  LET mine == SelectSeq(fields, LAMBDA f : f.key = key /\ f.kind = kind)
  IN  [n \in DOMAIN mine |-> mine[n].val]

\* ipc_parse_message: the status of the message, "none" when there is none.
ipc_parse_message(text) ==
  LET parsed == Fields(text)
      types == SelectSeq(Given(parsed.val, "type", "string"),
                         LAMBDA type : type \in DOMAIN Needs)
      type == types[Len(types)]
      needed == Given(parsed.val, Needs[type][1], Needs[type][2])
  IN  IF ~parsed.ok \/ \E n \in DOMAIN parsed.val :
           parsed.val[n].key = "events" /\ parsed.val[n].kind # "array"
      THEN "none"
      ELSE IF \/ types = <<>> \/ needed = <<>>
              \/ type = "register" /\ needed[Len(needed)] = ""
              \/ type = "subscribe" /\ needed[Len(needed)] = <<>>
      THEN "unknown" ELSE type
=============================================================================
