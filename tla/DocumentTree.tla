---------------------------- MODULE DocumentTree ----------------------------
(* The document tree of a formatter (formatters/base.py AbstractFormatter): *)
(* nodes with stable ids, an index from ids to nodes, and the structural    *)
(* operations of a batch.  What a format renders from it is FormatterTree's *)
(* subject.                                                                 *)
EXTENDS Naturals, Sequences, FiniteSets, SequencesExt

CONSTANTS Node,    \* ids, and the contents blocks of source come with (bound)
          Formats, \* the formats whose documents an instance starts from
          MaxOps   \* operations of a batch (bound)

ASSUME TreeAssumption ==
  /\ Node \subseteq Nat \ {0} /\ 4 \in Node
  /\ \A n \in Node : 1..n \subseteq Node
  /\ Formats \subseteq {"text", "json", "yaml", "markdown", "html", "xml"}
  /\ MaxOps \in Nat

VARIABLES format,
          used,     \* ids and contents given out so far: 1..used
          kind,     \* node_kind of every node
          word,     \* its own content (metadata text, value, tag)
          key,      \* JSON: is it a named member of a mapping
          mute,     \* XML: its source is no document of its own: a comment,
                    \* instruction or entity, or an element with text after it
          source,   \* YAML, HTML: contents of the text it was parsed from
          kids,     \* TreeNode.children
          index,    \* ids _id_index has
          ops,      \* operations applied so far
          careless  \* history: the client used a dead address, or put a node
                    \* where its kind has no place

payload == <<kind, word, key, mute, source>>
vars == <<format, used, payload, kids, index, ops, careless>>

Kinds == {"none", "root", "paragraph", "line", "mapping", "sequence", "scalar",
          "element", "block", "list"}
Root == 1
Kid(n) == {kids[n][i] : i \in DOMAIN kids[n]}

(* What _walk yields from a node: the least set that has the node and the   *)
(* children of its members.  A node moved below itself is its own child;    *)
(* nothing walks it again.                                                  *)
Parental == {p \in 1..used : kids[p] # <<>>}
Walked(n, P) == {n} \cup Kid(n) \cup UNION {Kid(p) : p \in P}
Below(n) ==
  LET walks == {Walked(n, P) : P \in SUBSET (Parental \ {n})}
      closed == {W \in walks : \A p \in W : Kid(p) \subseteq W}
  IN {m \in Walked(n, Parental) : \A W \in closed : m \in W}
Attached == Below(Root)
Parents(n) == {p \in Attached : n \in Kid(p)}

TypeOK ==
  /\ format \in Formats
  /\ used \in Node
  /\ kind \in [Node -> Kinds]
  /\ word \in [Node -> Node \cup {0}]
  /\ key \in [Node -> BOOLEAN] /\ mute \in [Node -> BOOLEAN]
  /\ source \in [Node -> Seq(Node)]
  /\ kids \in [Node -> Seq(1..used)]
  /\ index \subseteq 1..used
  /\ ops \in 0..MaxOps
  /\ careless \in BOOLEAN

-----------------------------------------------------------------------------
(* What parse builds: a document of four nodes per format.                  *)
Shape(f) ==
  CASE f = "text"     -> <<"root", "paragraph", "line", "line">>
    [] f = "json"     -> <<"root", "mapping", "scalar", "sequence">>
    [] f = "yaml"     -> <<"root", "scalar", "scalar", "scalar">>
    [] f = "markdown" -> <<"root", "block", "list", "block">>
    [] f = "html"     -> <<"root", "element", "element", "element">>
    [] f = "xml"      -> <<"root", "element", "element", "element">>

Children(f) ==
  CASE f \in {"text", "json", "xml"} -> <<<<2>>, <<3, 4>>, <<>>, <<>>>>
    [] f = "yaml"                    -> <<<<2, 3, 4>>, <<>>, <<>>, <<>>>>
    [] f \in {"markdown", "html"}    -> <<<<2, 3>>, <<>>, <<4>>, <<>>>>

(* Nodes with a content of their own; the others are only containers.       *)
Worded(k) == k \in {"line", "scalar", "element", "block"}

(* YAML keeps the parsed document at the root, HTML the tag at every node;  *)
(* both render that and not the children.                                   *)
Snapshot(f) ==
  [n \in Node |-> CASE f \in {"yaml", "html"} /\ n = Root -> <<2, 3, 4>>
                    [] f = "html" /\ n = 3               -> <<3, 4>>
                    [] f = "html" /\ n \in {2, 4}        -> <<n>>
                    [] OTHER                              -> <<>>]

Init ==
  /\ format \in Formats
  /\ used = 4
  /\ kind = [n \in Node |-> IF n <= 4 THEN Shape(format)[n] ELSE "none"]
  /\ word = [n \in Node |-> IF Worded(kind[n]) THEN n ELSE 0]
  /\ key = [n \in Node |-> format = "json" /\ n \in {3, 4}]
  /\ mute \in {m \in [Node -> BOOLEAN] : \A n \in Node : m[n] => format = "xml" /\ n \in {3, 4}}
  /\ kids = [n \in Node |-> IF n <= 4 THEN Children(format)[n] ELSE <<>>]
  /\ source = Snapshot(format)
  /\ index = 1..4
  /\ ops = 0
  /\ careless = FALSE

-----------------------------------------------------------------------------
(* node_from_source: a leaf, or for some formats a container with one leaf. *)
LeafKind ==
  CASE format = "text" -> "line" [] format \in {"json", "yaml"} -> "scalar"
    [] format = "markdown" -> "block" [] OTHER -> "element"
NestKinds ==
  CASE format = "text" -> {"paragraph"} [] format = "json" -> {"sequence", "mapping"}
    [] format = "markdown" -> {"list"} [] OTHER -> {}

(* Where a format has a place for a node: the tree a text could have.       *)
Suits(parent, k) ==
  CASE format = "text" -> \/ kind[parent] = "root" /\ k = "paragraph"
                          \/ kind[parent] = "paragraph" /\ k = "line"
    [] format = "json" -> kind[parent] = "sequence"
    [] format = "xml"  -> kind[parent] = "element"
    [] OTHER -> FALSE

(* _find_node: whatever the index has, in the document or not.              *)
Found(n) == n \in index
(* _find_parent_of: the first parent on a walk from the root.               *)
HasParent(n) == Parents(n) # {}
ParentOf(n) == CHOOSE p \in Parents(n) : TRUE

(* A slip in Without: the child is blanked and keeps its place.             *)
WithoutHole(seq, n) == [i \in DOMAIN seq |-> IF seq[i] = n THEN 0 ELSE seq[i]]

(* The list without the node, which the document has once (AttachedIsTree). *)
Without(seq, n) ==
  IF n \in ToSet(seq) THEN RemoveAt(seq, CHOOSE i \in DOMAIN seq : seq[i] = n) ELSE seq
(* "first", "last" or a number, which list.insert clamps.                   *)
Positions(seq) == 1..(Len(seq) + 1)

Fresh == used + 1

(* The content a leaf gets: a line of a text may be blank and have none.    *)
Contents(k, leaf) == IF k = "line" THEN {leaf, 0} ELSE {leaf}

(* A block of source becomes the nodes of one or two fresh ids.              *)
Block(k) ==
  /\ used' = IF k = LeafKind THEN used + 1 ELSE used + 2
  /\ used' \in Node
  /\ kind' = [kind EXCEPT ![Fresh] = k, ![used'] = LeafKind]
  /\ \E content \in Contents(k, used') : word' = [word EXCEPT ![used'] = content]
  /\ key' = [key EXCEPT ![used'] = k = "mapping"]
  /\ source' = IF format \in {"yaml", "html"} THEN [source EXCEPT ![used'] = <<used'>>]
               ELSE source
  /\ UNCHANGED mute

Insert(parent, k) ==
  /\ Found(parent)
  /\ Block(k)
  /\ \E i \in Positions(kids[parent]) :
       kids' = [kids EXCEPT ![parent] = InsertAt(@, i, Fresh),
                            ![Fresh] = IF used' = Fresh THEN <<>> ELSE <<used'>>]
  /\ index' = index \cup Fresh..used'
  /\ careless' = (careless \/ parent \notin Attached \/ ~Suits(parent, k))
  /\ UNCHANGED format

(* Only the deleted node leaves the index, its descendants stay.            *)
Delete(n) ==
  /\ n # Root
  /\ Found(n) /\ HasParent(n)
  /\ kids' = [kids EXCEPT ![ParentOf(n)] = Without(@, n)]
  /\ index' = index \ {n}
  /\ UNCHANGED <<format, used, payload, careless>>

(* A slip in Move: the parent is sought among all nodes, not in the tree.   *)
MoveFound(n) ==
  /\ Found(n)
  /\ \E p \in 1..used, target \in index \ (Below(n) \ {n}) :
       /\ n \in Kid(p)
       /\ LET without == [kids EXCEPT ![p] = Without(@, n)]
          IN \E i \in Positions(without[target]) :
               kids' = [without EXCEPT ![target] = InsertAt(@, i, n)]
  /\ careless' = TRUE
  /\ UNCHANGED <<format, used, payload, index>>

(* A slip in Move: the node is not taken from where it was.                 *)
MoveCopies(n) ==
  /\ Found(n)
  /\ HasParent(n)
  /\ \E target \in index \ (Below(n) \ {n}) :
       /\ \E i \in Positions(kids[target]) : kids' = [kids EXCEPT ![target] = InsertAt(@, i, n)]
       /\ careless' = (careless \/ target = n \/ target \notin Attached \/ ~Suits(target, kind[n]))
  /\ UNCHANGED <<format, used, payload, index>>

(* The target is found and _is_ancestor does not see it below the node; it  *)
(* does not look at the node itself, so that may be the target.             *)
Move(n) ==
  /\ Found(n)
  /\ HasParent(n)
  /\ LET without == [kids EXCEPT ![ParentOf(n)] = Without(@, n)]
         doc == Attached
     IN \E target \in index \ (Below(n) \ {n}) :
          /\ \E i \in Positions(without[target]) :
               kids' = [without EXCEPT ![target] = InsertAt(@, i, n)]
          /\ careless' = (careless \/ target = n \/ target \notin doc \/ ~Suits(target, kind[n]))
  /\ UNCHANGED <<format, used, payload, index>>

(* The node keeps its id and takes everything else, its key and the text    *)
(* after it too, from the block; its former children stay in the index.                   *)
Replace(n, k) ==
  /\ Found(n)
  /\ used' = IF k = LeafKind THEN used + 1 ELSE used + 2
  /\ used' \in Node
  /\ LET leaf == used' IN
     /\ kind' = [kind EXCEPT ![leaf] = IF k = LeafKind THEN @ ELSE LeafKind, ![n] = k]
     /\ \E content \in Contents(k, leaf) :
          word' = [word EXCEPT ![leaf] = IF k = LeafKind THEN @ ELSE leaf,
                               ![n] = IF k = LeafKind THEN content ELSE 0]
     /\ key' = [key EXCEPT ![n] = FALSE, ![leaf] = k = "mapping"]
     /\ mute' = [mute EXCEPT ![n] = FALSE]
     /\ source' = [source EXCEPT ![n] = IF format \in {"yaml", "html"} THEN <<leaf>> ELSE <<>>]
     /\ kids' = [kids EXCEPT ![n] = IF k = LeafKind THEN <<>> ELSE <<leaf>>]
     /\ index' = index \cup {n} \cup (IF k = LeafKind THEN {} ELSE {leaf})
  /\ careless' = (careless \/ n \notin Attached \/ n = Root \/ ~Suits(ParentOf(n), k))
  /\ UNCHANGED format

(* mutate_batch applies its operations one after another to the same tree,  *)
(* so a batch is a run of these; what a failed batch leaves is             *)
(* BufferHistory's subject.                                                 *)
Operate ==
  \/ \E parent \in index, k \in NestKinds \cup {LeafKind} : Insert(parent, k)
  \/ \E n \in index : Delete(n)
  \/ \E n \in index : Move(n)
  \/ \E n \in index, k \in NestKinds \cup {LeafKind} : Replace(n, k)

Next == ops < MaxOps /\ ops' = ops + 1 /\ Operate

Spec == Init /\ [][Next]_vars

-----------------------------------------------------------------------------
(* Whatever a client does, the document stays a tree: a node in it hangs    *)
(* under one parent, once, and nothing hangs under itself or holds the root *)
(* (insert, move and delete of base.py edit the children lists in place).   *)
AttachedIsTree ==
  LET doc == Attached
      parents(n) == {p \in doc : n \in Kid(p)}
  IN /\ \A n \in doc \ {Root} : Cardinality(parents(n)) = 1
     /\ parents(Root) = {}
     /\ \A n \in doc : IsInjective(kids[n])

(* A node that has left the document never comes back: not by moving it or  *)
(* a node below it, whose addresses the index may still have.               *)
DeletedStaysDeleted ==
  [][\A n \in (1..used) \ Attached : n \notin Attached']_vars
=============================================================================
