---------------------------- MODULE ReopenedTree ----------------------------
(* What a restart reads back of a document.  A batch writes the text and,   *)
(* beside it, a sidecar of the tree with its ids; the next use parses the   *)
(* text and gives its nodes the ids of the sidecar, place by place.         *)
EXTENDS FormatterTree

Doc(w, ds) == [word |-> w, kids |-> ds]
Rerenders == {"text", "json", "xml"}

(* The lines of a paragraph, whatever they hang below, of its first i       *)
(* children: their contents, 0 for a blank line.                            *)
RECURSIVE Lines(_, _)
Lines(n, i) ==
  IF i = 0 THEN <<>>
  ELSE Lines(n, i - 1) \o
       (IF kind[kids[n][i]] = "line" THEN <<word[kids[n][i]]>>
        ELSE Lines(kids[n][i], Len(kids[kids[n][i]])))

(* The lines of the text, up to its i-th paragraph: render puts a blank one *)
(* after each.                                                              *)
RECURSIVE AllLines(_, _)
AllLines(paragraphs, i) ==
  IF i = 0 THEN <<>>
  ELSE AllLines(paragraphs, i - 1) \o Lines(paragraphs[i], Len(kids[paragraphs[i]])) \o <<0>>

(* _split_into_paragraphs: a blank line ends a paragraph, wherever it comes *)
(* from; a paragraph without lines is not seen again.  The text ends in one.*)
RECURSIVE Paragraphs(_, _)
Paragraphs(current, lines) ==
  CASE lines = <<>>    -> <<>>
    [] Head(lines) # 0 -> Paragraphs(Append(current, Doc(Head(lines), <<>>)), Tail(lines))
    [] OTHER           -> (IF current = <<>> THEN <<>> ELSE <<Doc(0, current)>>)
                          \o Paragraphs(<<>>, Tail(lines))

ReadText == Paragraphs(<<>>, AllLines(TextShown(Root), Len(TextShown(Root))))

(* What parse makes of the text of a node of JSON or XML.                   *)
RECURSIVE Reread(_)
Reread(n) ==
  LET all(ns) == [i \in DOMAIN ns |-> Reread(ns[i])]
  IN CASE kind[n] = "mapping"   -> Doc(0, all(Members(n)))
       [] kind[n] = "sequence"  -> Doc(0, all(kids[n]))
       [] kind[n] = "element"   -> Doc(word[n], all(XmlShown(n)))
       [] OTHER                 -> Doc(word[n], <<>>)

(* parse: a root over what was rendered.  JSON that has no value reads      *)
(* null; what replaced its root hangs below another.                        *)
Reopened ==
  Doc(0, CASE format = "text"                        -> ReadText
           [] format = "json" /\ kind[Root] # "root" -> <<Reread(Root)>>
           [] format = "json" /\ kids[Root] = <<>>   -> <<Doc(0, <<>>)>>
           [] OTHER                                  -> <<Reread(kids[Root][1])>>)

(* The sidecar a batch writes: the entry of every node has the ids of its   *)
(* children, the header the checksum of the text it goes with.  A text is   *)
(* told from others by the document that is read from it.                   *)
Sidecar == [text |-> Reopened, kids |-> kids, word |-> word]

(* A slip in Current: the checksum in the header is not looked at.          *)
CurrentUnchecked(side, file) == TRUE

(* load_sidecar: a sidecar of another text is no sidecar.                   *)
Current(side, file) == side.text = file

(* apply_sidecar_ids: the ids are taken if every node has as many children  *)
(* as its entry; otherwise all nodes get fresh ids.                         *)
RECURSIVE Fits(_, _, _)
Fits(side, n, d) ==
  /\ Len(side.kids[n]) = Len(d.kids)
  /\ \A i \in DOMAIN d.kids : Fits(side, side.kids[n][i], d.kids[i])

Taken(side, file) == Current(side, file) /\ Fits(side, Root, file)

RECURSIVE Same(_, _, _)
Same(side, n, d) ==
  /\ side.word[n] = d.word
  /\ \A i \in DOMAIN d.kids \cap DOMAIN side.kids[n] : Same(side, side.kids[n][i], d.kids[i])

IdsTrue(side, file) == Taken(side, file) => Same(side, Root, file)

(* Nothing the text does not give back: what XML skips, a container of the  *)
(* text left empty, a blank line.                                           *)
WellKept(n) ==
  /\ ~mute[n]
  /\ kind[n] \in {"root", "paragraph"} => kids[n] # <<>>
  /\ kind[n] = "line" => word[n] # 0

(* The root is as parse made it: parse makes a root again above whatever a  *)
(* client puts in its place, and its id goes to that one.  And XML has an   *)
(* element at its top: without one it renders or parses to an error.        *)
Rerendered ==
  /\ format \in Rerenders
  /\ kind[Root] = "root"
  /\ format = "xml" => kids[Root] # <<>> /\ ~mute[kids[Root][1]]

(* An id that outlives a restart still names the content it named, whatever *)
(* a client does below the root, and also when text and sidecar are not of  *)
(* one batch: the text is written first, a batch that leaves the text as it *)
(* was writes neither, and undo puts back a text but no sidecar             *)
(* (execute_mutation, undo, load_sidecar, open_tree_with_sidecar).  With    *)
(* fitting places, no container of the text left empty, no blank line put   *)
(* into a paragraph and nothing in XML but elements without text between    *)
(* them, every id outlives a restart; with any of these the count of some   *)
(* node's children is another and all ids are new.  YAML and HTML render    *)
(* what they parsed: there the ids of moved nodes go to other contents.     *)
IdsSurviveRestart ==
  /\ [][(Rerendered /\ Rerendered') =>
          \A was \in {Sidecar}, is \in {Sidecar'} :
            IdsTrue(was, is.text) /\ IdsTrue(is, was.text)]_vars
  /\ [](Rerendered =>
          \A is \in {Sidecar} :
            /\ IdsTrue(is, is.text)
            /\ ~careless /\ (\A n \in Attached : WellKept(n)) => Taken(is, is.text))
=============================================================================
