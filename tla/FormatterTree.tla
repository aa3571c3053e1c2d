--------------------------- MODULE FormatterTree ---------------------------
(* The text of a document tree: each format renders its nodes back; several *)
(* keep what they parsed and render that.  What a restart reads from the    *)
(* text is ReopenedTree's subject.                                          *)
EXTENDS DocumentTree

(* The elements of a list that are in a set, as often and in the order they *)
(* have there.                                                              *)
Among(s, S) ==
  LET among[i \in 0..Len(s)] ==
        IF i = 0 THEN <<>>
        ELSE among[i - 1] \o (IF s[i] \in S THEN <<s[i]>> ELSE <<>>)
  IN among[Len(s)]

Word(n) == IF Worded(kind[n]) /\ word[n] # 0 THEN <<word[n]>> ELSE <<>>
FirstKid(n) == IF kids[n] = <<>> THEN <<>> ELSE <<kids[n][1]>>

(* A slip in Members: parse forgets the keys, so all members share one.     *)
MembersOneKey(n) ==
  IF kids[n] = <<>> THEN <<>> ELSE <<kids[n][Len(kids[n])]>>

(* json/formatter.py _node_to_value: a dict, so of members with one key the *)
(* last gives the value and the first the place.  A node without a key goes *)
(* under "".  Members that were parsed have keys of their own.              *)
Members(n) ==
  LET nameless(i) == ~key[kids[n][i]]
      first == CHOOSE i \in DOMAIN kids[n] : nameless(i) /\ \A j \in 1..(i - 1) : ~nameless(j)
      last == CHOOSE i \in DOMAIN kids[n] : nameless(i) /\ \A j \in (i + 1)..Len(kids[n]) : ~nameless(j)
  IN IF \A i \in DOMAIN kids[n] : ~nameless(i) THEN kids[n]
     ELSE SubSeq(kids[n], 1, first - 1) \o <<kids[n][last]>>
          \o Among(SubSeq(kids[n], first + 1, Len(kids[n])), {m \in Node : key[m]})

(* The children a format goes down to when it renders a node: render does   *)
(* for the root, node_to_source or _node_to_value below it.  Only JSON      *)
(* looks at the kind the root has: a replaced root may have another.        *)
TextShown(n) ==
  IF n = Root THEN Among(kids[n], {m \in Node : kind[m] = "paragraph"})
  ELSE IF kind[n] = "line" THEN <<>> ELSE kids[n]

JsonShown(n) ==
  CASE kind[n] = "root"    -> FirstKid(n)
    [] kind[n] = "mapping" -> Members(n)
    [] kind[n] = "scalar"  -> <<>>
    [] OTHER               -> kids[n]

(* node_to_source parses the source of every child and skips what does not  *)
(* parse: a comment, an instruction and an entity (parse made nodes of them *)
(* whose tag makes no element), and an element with text after it.          *)
XmlShown(n) ==
  IF n = Root THEN FirstKid(n) ELSE Among(kids[n], {m \in Node : ~mute[m]})

MarkdownShown(n) == IF n # Root /\ kind[n] = "block" THEN <<>> ELSE kids[n]

(* The text YAML and HTML kept when they parsed the node.  What replaces    *)
(* the root of HTML brings the text of a tag, and no _full_html.            *)
Kept(n) == IF format = "html" /\ n = Root /\ kind[n] # "root" THEN <<>> ELSE source[n]

Shown(n) ==
  CASE Kept(n) # <<>>        -> <<>>
    [] format = "text"       -> TextShown(n)
    [] format = "json"       -> JsonShown(n)
    [] format = "xml"        -> XmlShown(n)
    [] format = "markdown"   -> MarkdownShown(n)
    [] OTHER                 -> kids[n]

Own(n) ==
  CASE Kept(n) # <<>>              -> Kept(n)
    [] n = Root /\ format # "json" -> <<>>
    [] OTHER                       -> Word(n)

(* The contents from a node on, in order: its own and those of the children *)
(* that are shown.                                                          *)
TextOf(own, shown) ==
  LET text[n \in DOMAIN own] ==
        LET upTo[i \in 0..Len(shown[n])] ==
              IF i = 0 THEN own[n] ELSE upTo[i - 1] \o text[shown[n][i]]
        IN upTo[Len(shown[n])]
  IN text

Rendered ==
  LET doc == Attached
  IN TextOf([n \in doc |-> Own(n)], [n \in doc |-> Shown(n)])

(* The document as the tree has it: every content once, in tree order.      *)
Listed ==
  LET doc == Attached
  IN TextOf([n \in doc |-> Word(n)], [n \in doc |-> kids[n]])

(* For the formats that render their tree, as long as the client uses live  *)
(* addresses and fitting places, the text has every content of the tree,    *)
(* once and in order, and nothing else: no operation loses one from sight.  *)
(* XML holds to it only for documents of elements and no text between them: *)
(* a comment, an instruction, an entity and an element with text after it   *)
(* the renderer skips (xml/formatter.py node_to_source), with all below it. *)
TextIsTree ==
  (/\ ~careless
   /\ format \in {"text", "json", "xml"}
   /\ \A n \in Attached : ~mute[n]) => Rendered[Root] = Listed[Root]
=============================================================================
