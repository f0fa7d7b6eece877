-------------------------------- MODULE Yaml --------------------------------
(***************************************************************************)
(* The vendored YAML subset loader: yaml_load over the lines of a          *)
(* document, and _parse_scalar over the text of a value with its flow      *)
(* collections, quotes and trailing comment.                               *)
(*                                                                         *)
(* A line is its indentation, whether it starts with a dash, the key it    *)
(* has (if any) and the text after that.  A text is a sequence of tokens:  *)
(* words, brackets, commas, quote marks, the colon that a space follows    *)
(* and the # that follows one.  The one kind of quote mark stands for both.*)
(*                                                                         *)
(* Beside the loader's recursive descent stands what a document means by   *)
(* its indentation alone, and the way a tree is written down in flow       *)
(* style; the document and the tree grow a step at a time.                 *)
(***************************************************************************)
EXTENDS Integers, Sequences, SequencesExt, FiniteSets, FiniteSetsExt

CONSTANTS
  Columns,     \* bound: indentations
  Keys,        \* bound: keys
  Texts,       \* bound: texts after a key or a dash, the empty one included
  Words,       \* bound: leaves of a tree, quoted ones included
  MaxLines,    \* bound: lines of a document
  MaxTokens    \* bound: tokens of a tree that still grows

ASSUME YamlAssumption ==
  /\ Columns \subseteq Nat
  /\ <<>> \in Texts
  /\ MaxLines \in Nat /\ MaxTokens \in Nat

VARIABLES
  document,    \* the lines of a file
  tree         \* a value to be written in flow style

vars == <<document, tree>>

NoKey == "no key"

-----------------------------------------------------------------------------
(* What the loader returns.                                                *)

Null        == [is |-> "null"]
Text(s)     == [is |-> "text", of |-> s]
List(items) == [is |-> "list", of |-> items]
Map(m)      == [is |-> "map", of |-> m]
Refused     == [is |-> "refused"]         \* YamlError

With(m, key, value) == [k \in DOMAIN m \cup {key} |-> IF k = key THEN value ELSE m[k]]

Empty == [k \in {} |-> Null]

-----------------------------------------------------------------------------
(* Texts.                                                                  *)

InQuotes(s, i) == Cardinality({j \in 1..(i - 1) : s[j] = "Q"}) % 2 = 1

(* Mutant: brackets in a quoted text count.                                *)
DepthQuoted(s, i) ==
  Cardinality({j \in 1..(i - 1) : s[j] \in {"[", "{"}})
    - Cardinality({j \in 1..(i - 1) : s[j] \in {"]", "}"}})

Depth(s, i) ==
  Cardinality({j \in 1..(i - 1) : s[j] \in {"[", "{"} /\ ~InQuotes(s, j)})
    - Cardinality({j \in 1..(i - 1) : s[j] \in {"]", "}"} /\ ~InQuotes(s, j)})

(* _strip_comment()                                                        *)
StripComment(s) ==
  LET marks == {i \in DOMAIN s : s[i] = "#" /\ ~InQuotes(s, i)}
  IN  IF marks = {} THEN s ELSE SubSeq(s, 1, Min(marks) - 1)

(* _find_kv_colon(), 0 for none.                                           *)
Colon(s) ==
  LET colons == {i \in DOMAIN s : s[i] = ":" /\ ~InQuotes(s, i) /\ Depth(s, i) = 0}
  IN  IF colons = {} THEN 0 ELSE Min(colons)

(* _split_flow_items(): the last piece counts if there is a comma at all.  *)
FlowItems(s) ==
  LET commas == SetToSortSeq({i \in DOMAIN s : s[i] = "," /\ ~InQuotes(s, i) /\ Depth(s, i) = 0},
                             <)
      ends   == <<0>> \o commas \o <<Len(s) + 1>>
  IN  IF s = <<>> THEN <<>>
      ELSE [n \in 1..(Len(commas) + 1) |-> SubSeq(s, ends[n] + 1, ends[n + 1] - 1)]

Body(s) == SubSeq(s, 2, Len(s) - 1)

IsQuoted(s) == Len(s) >= 2 /\ s[1] = "Q" /\ Last(s) = "Q"

RECURSIVE ParseScalar(_), FlowMap(_)

(* A mapping's items, the first ones last: a key that comes again replaces *)
(* what it had.                                                            *)
FlowMap(items) ==
  IF items = <<>> THEN Map(Empty)
  ELSE LET before == FlowMap(Front(items))
           item   == Last(items)
           value  == ParseScalar(SubSeq(item, Colon(item) + 1, Len(item)))
       IN  IF before = Refused \/ Colon(item) = 0 \/ value = Refused THEN Refused
           ELSE Map(With(before.of, SubSeq(item, 1, Colon(item) - 1), value))

ParseScalar(s) ==
  CASE s = <<>>    -> Null
    [] s # <<>> /\ s[1] = "[" ->
         LET items == FlowItems(Body(s))
             of    == [n \in DOMAIN items |-> ParseScalar(items[n])]
         IN  IF Last(s) # "]" \/ Refused \in Range(of) THEN Refused ELSE List(of)
    [] s # <<>> /\ s[1] = "{" ->
         IF Last(s) # "}" THEN Refused ELSE FlowMap(FlowItems(Body(s)))
    [] IsQuoted(s) -> Text(Body(s))
    [] OTHER       -> Text(s)

-----------------------------------------------------------------------------
(* Lines.  _logical_lines() leaves out what is empty or only a comment,    *)
(* and will have no tab in the indentation of anything else.               *)

Says(line) == line.dash \/ line.key # NoKey \/ line.text # <<>>

LogicalLines(raw) == SelectSeq(raw, Says)

HasTab(raw) == \E i \in DOMAIN raw : Says(raw[i]) /\ raw[i].tab

(* What one level of the descent hands back: a value, and the next line.   *)
Parsed(value, next) == [value |-> value, next |-> next]

Failed == Parsed(Refused, 0)

Deeper(lines, i, indent)   == i <= Len(lines) /\ lines[i].col > indent
DashHere(lines, i, indent) == i <= Len(lines) /\ lines[i].col = indent /\ lines[i].dash

(* The lines after i that belong to the mapping a "- key:" begins.         *)
RunFrom(lines, i, column) ==
  Min({j \in i..(Len(lines) + 1) : j > Len(lines) \/ lines[j].col < column})

RECURSIVE ParseMap(_, _, _, _), ParseSeq(_, _, _, _), ParseNode(_, _),
          MapValue(_, _, _), SeqValue(_, _, _)

MapValue(lines, i, indent) ==
  CASE lines[i].text # <<>>           -> Parsed(ParseScalar(lines[i].text), i + 1)
    [] lines[i].text = <<>> /\ Deeper(lines, i + 1, indent)   -> ParseNode(lines, i + 1)
    [] lines[i].text = <<>> /\ DashHere(lines, i + 1, indent) ->
         ParseSeq(lines, i + 1, indent, <<>>)
    [] OTHER                          -> Parsed(Null, i + 1)

ParseMap(lines, i, indent, m) ==
  IF i > Len(lines) \/ (i <= Len(lines) /\ lines[i].col < indent) THEN Parsed(Map(m), i)
  ELSE IF lines[i].col > indent \/ lines[i].dash \/ lines[i].key = NoKey THEN Failed
  ELSE LET entry == MapValue(lines, i, indent)
       IN  IF entry.value = Refused THEN Failed
           ELSE ParseMap(lines, entry.next, indent, With(m, lines[i].key, entry.value))

(* "- key: value" begins a mapping whose other keys are two columns in.    *)
SeqValue(lines, i, indent) ==
  LET line == lines[i]
      past == RunFrom(lines, i + 1, indent + 2)
      sub  == <<[line EXCEPT !.col = indent + 2, !.dash = FALSE]>>
                \o SubSeq(lines, i + 1, past - 1)
  IN  CASE line.key # NoKey -> Parsed(ParseMap(sub, 1, indent + 2, Empty).value, past)
        [] line.key = NoKey /\ line.text # <<>> -> Parsed(ParseScalar(line.text), i + 1)
        [] line.key = NoKey /\ line.text = <<>> /\ Deeper(lines, i + 1, indent) ->
             ParseNode(lines, i + 1)
        [] OTHER -> Parsed(Null, i + 1)

ParseSeq(lines, i, indent, seq) ==
  IF i > Len(lines) \/ (i <= Len(lines) /\ (lines[i].col < indent \/ ~lines[i].dash))
  THEN Parsed(List(seq), i)
  ELSE IF lines[i].col > indent THEN Failed
  ELSE LET item == SeqValue(lines, i, indent)
       IN  IF item.value = Refused THEN Failed
           ELSE ParseSeq(lines, item.next, indent, Append(seq, item.value))

ParseNode(lines, i) ==
  IF lines[i].dash THEN ParseSeq(lines, i, lines[i].col, <<>>)
  ELSE ParseMap(lines, i, lines[i].col, Empty)

(* Mutant: lines the descent came back from are left lying.                *)
AnyEnd(lines, node) == TRUE

ReadToTheEnd(lines, node) == node.next = Len(lines) + 1

YamlLoad(raw) ==
  LET lines == LogicalLines(raw)
  IN  IF HasTab(raw) THEN Refused
      ELSE IF lines = <<>> THEN Null
      ELSE LET node == ParseNode(lines, 1)
           IN  IF node.value # Refused /\ ReadToTheEnd(lines, node) THEN node.value
               ELSE Refused

-----------------------------------------------------------------------------
(* What a document means by its indentation alone.  Its entries are items  *)
(* (a dash) and keys, each below the last one before it that stands        *)
(* further left, an item also below a key of its own column.               *)

EntriesOf(line) ==
  LET entry(col, kind, text) == [col |-> col, kind |-> kind, key |-> line.key, text |-> text]
      own == IF line.key = NoKey THEN "text" ELSE "key"
  IN  CASE line.dash /\ own = "text" -> <<entry(line.col, "item", line.text)>>
        [] line.dash /\ own = "key"  -> <<entry(line.col, "item", <<>>),
                                          entry(line.col + 2, "key", line.text)>>
        [] ~line.dash                -> <<entry(line.col, own, line.text)>>

Entries(lines) == FlattenSeq([n \in DOMAIN lines |-> EntriesOf(lines[n])])

Below(E, e, p) ==
  /\ p < e
  /\ \/ E[p].col < E[e].col
     \/ E[p].col = E[e].col /\ E[p].kind = "key" /\ E[e].kind = "item"

Parent(E, e) == Max({0} \cup {p \in 1..(e - 1) : Below(E, e, p)})

Children(E, p) == {e \in DOMAIN E : Parent(E, e) = p}

WellFormed(E) ==
  /\ \A e \in DOMAIN E : E[e].kind # "text" /\ ParseScalar(E[e].text) # Refused
  /\ \A p \in DOMAIN E : E[p].text # <<>> => Children(E, p) = {}
  /\ \A p \in {0} \cup DOMAIN E : \A a, b \in Children(E, p) :
       E[a].col = E[b].col /\ E[a].kind = E[b].kind

RECURSIVE MeaningOf(_, _)
MeaningOf(E, p) ==
  LET below    == Children(E, p)
      named(k) == {e \in below : E[e].key = k}
  IN  CASE below = {} -> IF p = 0 THEN Null ELSE ParseScalar(E[p].text)
        [] below # {} /\ \E e \in below : E[e].kind = "item" ->
             LET order == SetToSortSeq(below, <)
             IN  List([n \in DOMAIN order |-> MeaningOf(E, order[n])])
        [] OTHER -> Map([k \in {E[e].key : e \in below} |-> MeaningOf(E, Max(named(k)))])

Meaning(raw) ==
  LET E == Entries(LogicalLines(raw))
  IN  IF HasTab(raw) \/ ~WellFormed(E) THEN Refused ELSE MeaningOf(E, 0)

(* A tree in flow style; a leaf that is not one word is quoted.            *)
RECURSIVE Render(_)
Render(t) ==
  LET separated(pieces) ==
        FlattenSeq([n \in DOMAIN pieces |->
                      IF n = 1 THEN pieces[n] ELSE <<",">> \o pieces[n]])
      keys == IF t.is = "map" THEN SetToSeq(DOMAIN t.of) ELSE <<>>
  IN  CASE t.is = "text" -> IF t.of \in {<<w>> : w \in Keys} THEN t.of
                            ELSE <<"Q">> \o t.of \o <<"Q">>
        [] t.is = "list" -> <<"[">> \o separated([n \in DOMAIN t.of |-> Render(t.of[n])])
                              \o <<"]">>
        [] t.is = "map"  -> <<"{">> \o separated([n \in DOMAIN keys |->
                                         <<keys[n], ":">> \o Render(t.of[keys[n]])])
                              \o <<"}">>

-----------------------------------------------------------------------------
(* A file is written line by line for as long as it loads; a tree grows    *)
(* from a leaf, by a collection around it or a leaf more in it.            *)

(* Bound: a tab only before a key with nothing after it, or before nothing.*)
Lines ==
  {line \in [col : Columns, tab : BOOLEAN, dash : BOOLEAN, key : Keys \cup {NoKey},
             text : Texts] :
     line.tab => ~line.dash /\ line.text = <<>>}

Leaves == {Text(w) : w \in Words}

Init ==
  /\ document = <<>>
  /\ tree \in Leaves \cup {List(<<>>), Map(Empty)}

AddLine(line) ==
  /\ Len(document) < MaxLines
  /\ YamlLoad(document) # Refused
  /\ document' = Append(document, line)
  /\ UNCHANGED tree

Grown(t, leaf) ==
  {List(<<t>>), List(<<leaf, t>>)}
    \cup {Map(With(Empty, k, t)) : k \in Keys}
    \cup (IF t.is = "list" THEN {List(Append(t.of, leaf))} ELSE {})
    \cup (IF t.is = "map" THEN {Map(With(t.of, k, leaf)) : k \in Keys} ELSE {})

Grow ==
  /\ document = <<>>
  /\ Len(Render(tree)) <= MaxTokens
  /\ \E leaf \in Leaves : tree' \in Grown(tree, leaf)
  /\ UNCHANGED document

Next ==
  \/ tree = List(<<>>) /\ \E line \in Lines : AddLine(line)
  \/ Grow

Spec == Init /\ [][Next]_vars

-----------------------------------------------------------------------------
(* The descent reads a document as its indentation means it, and refuses   *)
(* every one that means nothing: no line is dropped, moved under another   *)
(* parent or read twice.                                                   *)
LoadIsMeaning == YamlLoad(document) = Meaning(document)

(* A tree written in flow style, with a trailing comment that looks like   *)
(* its end, is read back as it was: the scans for the comment, the comma,  *)
(* the colon and the closing bracket agree on quotes and nesting.          *)
FlowRoundTrip == ParseScalar(StripComment(Render(tree) \o <<"#", "]">>)) = tree
=============================================================================
