------------------------ MODULE DocumentTree_proofs ------------------------
(***************************************************************************)
(* Proofs about DocumentTree, for every number of nodes and operations and *)
(* every format, whatever addresses a client gives: the variables keep     *)
(* their type, the document stays a tree, and what has left it never comes *)
(* back.                                                                   *)
(***************************************************************************)
EXTENDS FormatterTree, FiniteSetTheorems, TLAPS

-----------------------------------------------------------------------------
(* Lists of children.                                                       *)

\* A stretch of a list.
LEMMA Stretch ==
  ASSUME NEW S, NEW s \in Seq(S), NEW a \in 1..(Len(s) + 1), NEW b \in (a - 1)..Len(s)
  PROVE  /\ SubSeq(s, a, b) \in Seq(S)
         /\ Len(SubSeq(s, a, b)) = b - a + 1
         /\ \A j \in 1..(b - a + 1) : SubSeq(s, a, b)[j] = s[a + j - 1]
  OBVIOUS

\* Two lists, one after the other.
LEMMA OneAfterOther ==
  ASSUME NEW S, NEW u \in Seq(S), NEW v \in Seq(S)
  PROVE  /\ u \o v \in Seq(S)
         /\ Len(u \o v) = Len(u) + Len(v)
         /\ \A j \in 1..Len(u) : (u \o v)[j] = u[j]
         /\ \A j \in (Len(u) + 1)..(Len(u) + Len(v)) : (u \o v)[j] = v[j - Len(u)]
  OBVIOUS

\* A list with one more in it, at either end or anywhere between.
LEMMA InsertAtList ==
  ASSUME NEW S, NEW s \in Seq(S), NEW i \in 1..(Len(s) + 1), NEW e \in S
  PROVE  /\ InsertAt(s, i, e) \in Seq(S)
         /\ ToSet(InsertAt(s, i, e)) = ToSet(s) \cup {e}
         /\ IsInjective(s) /\ e \notin ToSet(s) => IsInjective(InsertAt(s, i, e))
<1> DEFINE t == InsertAt(s, i, e)
           left == SubSeq(s, 1, i - 1)
           right == SubSeq(s, i, Len(s))
           head == left \o <<e>>
<1>1. Len(s) \in Nat /\ i \in Nat /\ i > 0
  OBVIOUS
<1>2. /\ left \in Seq(S) /\ Len(left) = i - 1 /\ \A j \in 1..(i - 1) : left[j] = s[j]
  <2>1. i - 1 \in 0..Len(s) /\ 1 \in 1..(Len(s) + 1) /\ (i - 1) - 1 + 1 = i - 1
    BY <1>1
  <2>2. \A j \in 1..(i - 1) : 1 + j - 1 = j
    BY <1>1
  <2> QED
    BY <2>1, <2>2, Stretch
<1>3. /\ right \in Seq(S) /\ Len(right) = Len(s) - i + 1
      /\ \A j \in 1..(Len(s) - i + 1) : right[j] = s[i + j - 1]
  <2>1. Len(s) \in (i - 1)..Len(s)
    BY <1>1
  <2> QED
    BY <2>1, Stretch
<1>4. t = head \o right
  BY DEF InsertAt
<1> HIDE DEF t, left, right
<1>5. /\ head \in Seq(S) /\ Len(head) = i
      /\ \A j \in 1..(i - 1) : head[j] = s[j]
      /\ head[i] = e
  <2>1. <<e>> \in Seq(S) /\ Len(<<e>>) = 1 /\ <<e>>[1] = e
    OBVIOUS
  <2>2. i \in (Len(left) + 1)..(Len(left) + 1) /\ i - Len(left) = 1
    BY <1>1, <1>2
  <2> QED
    BY <1>1, <1>2, <2>1, <2>2, OneAfterOther
<1> HIDE DEF head
<1>6. t \in Seq(S) /\ Len(t) = Len(s) + 1
  <2>1. t \in Seq(S) /\ Len(t) = Len(head) + Len(right)
    BY <1>3, <1>4, <1>5, OneAfterOther
  <2> QED
    BY <1>1, <1>3, <1>5, <2>1
<1>7. \A j \in 1..(Len(s) + 1) : t[j] = IF j < i THEN s[j] ELSE IF j = i THEN e ELSE s[j - 1]
  <2> SUFFICES ASSUME NEW j \in 1..(Len(s) + 1)
               PROVE  t[j] = IF j < i THEN s[j] ELSE IF j = i THEN e ELSE s[j - 1]
    OBVIOUS
  <2>1. CASE j <= i
    <3>1. j \in 1..Len(head) /\ (j < i => j \in 1..(i - 1))
      BY <1>1, <1>5, <2>1
    <3>2. t[j] = head[j]
      BY <1>3, <1>4, <1>5, <3>1, OneAfterOther
    <3> QED
      BY <1>5, <2>1, <3>1, <3>2
  <2>2. CASE j > i
    <3>1. j \in (Len(head) + 1)..(Len(head) + Len(right))
      BY <1>1, <1>3, <1>5, <2>2
    <3>2. t[j] = right[j - i]
      BY <1>3, <1>4, <1>5, <3>1, OneAfterOther
    <3>3. j - i \in 1..(Len(s) - i + 1) /\ i + (j - i) - 1 = j - 1
      BY <1>1, <2>2
    <3> QED
      BY <1>3, <2>2, <3>2, <3>3
  <2> QED
    BY <1>1, <2>1, <2>2
<1>8. DOMAIN t = 1..(Len(s) + 1) /\ DOMAIN s = 1..Len(s) /\ Len(s) \in Nat
  BY <1>6
<1>9. ToSet(t) \subseteq ToSet(s) \cup {e}
  BY <1>7, <1>8 DEF ToSet
<1>10. ToSet(s) \subseteq ToSet(t)
  <2> SUFFICES ASSUME NEW j \in 1..Len(s)
               PROVE  \E k \in 1..(Len(s) + 1) : t[k] = s[j]
    BY <1>8 DEF ToSet
  <2>1. CASE j < i
    BY <1>7, <1>8, <2>1
  <2>2. CASE ~(j < i)
    <3>1. j + 1 \in 1..(Len(s) + 1) /\ t[j + 1] = s[j]
      BY <1>7, <1>8, <2>2
    <3> QED
      BY <3>1
  <2> QED
    BY <2>1, <2>2
<1>11. e \in ToSet(t)
  BY <1>7, <1>8 DEF ToSet
<1>12. ASSUME IsInjective(s), e \notin ToSet(s)
      PROVE  IsInjective(t)
  <2>1. \A j, k \in 1..Len(s) : s[j] = s[k] => j = k
    BY <1>8, <1>12 DEF IsInjective
  <2>2. \A j \in 1..Len(s) : s[j] # e
    BY <1>8, <1>12 DEF ToSet
  <2> SUFFICES ASSUME NEW j \in 1..(Len(s) + 1), NEW k \in 1..(Len(s) + 1), t[j] = t[k]
               PROVE  j = k
    BY <1>8 DEF IsInjective
  <2> DEFINE place(m) == IF m < i THEN m ELSE m - 1
  <2>3. ASSUME NEW m \in 1..(Len(s) + 1), m # i
        PROVE  place(m) \in 1..Len(s) /\ t[m] = s[place(m)] /\ t[m] # e
    <3>1. place(m) \in 1..Len(s)
      BY <1>1, <2>3
    <3>2. t[m] = s[place(m)]
      BY <1>1, <1>7, <2>3
    <3> QED
      BY <2>2, <3>1, <3>2
  <2>4. t[i] = e
    BY <1>1, <1>7
  <2>5. CASE j # i /\ k # i
    <3>1. place(j) = place(k)
      BY <2>1, <2>3, <2>5
    <3> QED
      BY <1>1, <2>5, <3>1
  <2> QED
    BY <2>3, <2>4, <2>5
<1> QED
  BY <1>6, <1>9, <1>10, <1>11, <1>12 DEF t

\* A list without a node: nothing is new in it, and of a list that has every
\* node once the node is gone.
LEMMA WithoutList ==
  ASSUME NEW S, NEW s \in Seq(S), NEW n
  PROVE  /\ Without(s, n) \in Seq(S)
         /\ ToSet(Without(s, n)) \subseteq ToSet(s)
         /\ IsInjective(s) => IsInjective(Without(s, n)) /\ n \notin ToSet(Without(s, n))
<1>1. CASE n \notin ToSet(s)
  BY <1>1 DEF Without
<1>2. CASE n \in ToSet(s)
  <2> DEFINE i == CHOOSE i \in DOMAIN s : s[i] = n
             t == RemoveAt(s, i)
  <2>1. i \in 1..Len(s) /\ s[i] = n /\ DOMAIN s = 1..Len(s) /\ Len(s) \in Nat
    BY <1>2 DEF ToSet
  <2>2. Without(s, n) = t
    BY <1>2 DEF Without
  <2> HIDE DEF i
  <2> DEFINE left == SubSeq(s, 1, i - 1)
             right == SubSeq(s, i + 1, Len(s))
  <2>3. i \in Nat /\ i > 0 /\ i <= Len(s)
    BY <2>1
  <2>4. left \in Seq(S) /\ Len(left) = i - 1 /\ \A j \in 1..(i - 1) : left[j] = s[j]
    <3>1. i - 1 \in 0..Len(s) /\ 1 \in 1..(Len(s) + 1) /\ (i - 1) - 1 + 1 = i - 1
      BY <2>3, <2>1
    <3>2. \A j \in 1..(i - 1) : 1 + j - 1 = j
      BY <2>3
    <3> QED
      BY <3>1, <3>2, Stretch
  <2>5. /\ right \in Seq(S) /\ Len(right) = Len(s) - i
        /\ \A j \in 1..(Len(s) - i) : right[j] = s[i + j]
    <3>1. /\ i + 1 \in 1..(Len(s) + 1) /\ Len(s) \in ((i + 1) - 1)..Len(s)
          /\ Len(s) - (i + 1) + 1 = Len(s) - i
      BY <2>3, <2>1
    <3>2. \A j \in 1..(Len(s) - i) : (i + 1) + j - 1 = i + j
      BY <2>3, <2>1
    <3> QED
      BY <3>1, <3>2, Stretch
  <2>6. t = left \o right
    BY DEF RemoveAt
  <2> HIDE DEF t, left, right
  <2>7. t \in Seq(S) /\ Len(t) = Len(s) - 1
    <3>1. (i - 1) + (Len(s) - i) = Len(s) - 1
      BY <2>3, <2>1
    <3> QED
      BY <2>4, <2>5, <2>6, <3>1, OneAfterOther
  <2>8. \A j \in 1..(Len(s) - 1) : t[j] = IF j < i THEN s[j] ELSE s[j + 1]
    <3> SUFFICES ASSUME NEW j \in 1..(Len(s) - 1)
                 PROVE  t[j] = IF j < i THEN s[j] ELSE s[j + 1]
      OBVIOUS
    <3>1. CASE j < i
      <4>1. j \in 1..Len(left) /\ j \in 1..(i - 1)
        BY <2>3, <2>4, <3>1
      <4> QED
        BY <2>4, <2>5, <2>6, <3>1, <4>1, OneAfterOther
    <3>2. CASE ~(j < i)
      <4>1. j \in (Len(left) + 1)..(Len(left) + Len(right))
        BY <2>3, <2>1, <2>4, <2>5, <3>2
      <4>2. t[j] = right[j - (i - 1)]
        BY <2>4, <2>5, <2>6, <4>1, OneAfterOther
      <4>3. j - (i - 1) \in 1..(Len(s) - i) /\ i + (j - (i - 1)) = j + 1
        BY <2>3, <2>1, <3>2
      <4> QED
        BY <2>5, <3>2, <4>2, <4>3
    <3> QED
      BY <3>1, <3>2
  <2>9. DOMAIN t = 1..(Len(s) - 1)
    BY <2>1, <2>7
  <2>10. ToSet(t) \subseteq ToSet(s)
    BY <2>1, <2>8, <2>9 DEF ToSet
  <2>11. ASSUME IsInjective(s)
        PROVE  IsInjective(t) /\ n \notin ToSet(t)
    <3>1. \A j, k \in 1..Len(s) : s[j] = s[k] => j = k
      BY <2>1, <2>11 DEF IsInjective
    <3>2. n \notin ToSet(t)
      BY <2>1, <2>8, <2>9, <3>1 DEF ToSet
    <3>3. ASSUME NEW j \in 1..(Len(s) - 1), NEW k \in 1..(Len(s) - 1), t[j] = t[k]
          PROVE  j = k
      BY <2>1, <2>8, <3>1, <3>3
    <3> QED
      BY <2>9, <3>2, <3>3 DEF IsInjective
  <2> QED
    BY <2>2, <2>7, <2>10, <2>11
<1> QED
  BY <1>1, <1>2


-----------------------------------------------------------------------------
(* The inductive invariant: ids not given out have no children, and no node *)
(* is twice among the children of the document, however often addresses of  *)
(* other nodes are used.                                                    *)
BlankFresh == \A n \in Node \ (1..used) : kids[n] = <<>>

OneParent ==
  /\ \A p, q \in Attached : Kid(p) \cap Kid(q) # {} => p = q
  /\ \A p \in Attached : Root \notin Kid(p) /\ IsInjective(kids[p])

IInv == TypeOK /\ BlankFresh /\ OneParent

-----------------------------------------------------------------------------
(* The document, before a step and after it.                                *)

LEMMA KidsTyped ==
  ASSUME TypeOK
  PROVE  /\ 1..used \subseteq Node /\ used \in Nat /\ used > 0 /\ Root \in 1..used
         /\ \A n \in Node : kids[n] \in Seq(1..used) /\ Kid(n) \subseteq 1..used
         /\ \A n \in Node : Kid(n) = ToSet(kids[n])
<1>1. 1..used \subseteq Node /\ used \in Nat /\ used > 0
  BY TreeAssumption DEF TypeOK
<1>2. \A n \in Node : kids[n] \in Seq(1..used)
  BY DEF TypeOK
<1> QED
  BY <1>1, <1>2 DEF Kid, ToSet, Root

\* The document has the root and, with a node, its children.
LEMMA AttachedClosed ==
  ASSUME TypeOK
  PROVE  /\ Root \in Attached /\ Attached \subseteq 1..used
         /\ \A p \in Attached : Kid(p) \subseteq Attached
<1> DEFINE walks == {Walked(Root, P) : P \in SUBSET (Parental \ {Root})}
           closed == {W \in walks : \A p \in W : Kid(p) \subseteq W}
<1>1. Attached = {m \in Walked(Root, Parental) : \A W \in closed : m \in W}
  BY DEF Attached, Below
<1>2. Parental \subseteq 1..used /\ \A p \in 1..used : Kid(p) # {} => p \in Parental
  BY DEF Parental, Kid
<1>3. Walked(Root, Parental) \subseteq 1..used
  BY <1>2, KidsTyped DEF Walked
<1>4. \A W \in closed : Root \in W
  BY DEF Walked
<1>5. Root \in Attached
  BY <1>1, <1>4 DEF Walked
<1>6. ASSUME NEW p \in Attached, NEW m \in Kid(p)
      PROVE  m \in Attached
  <2>1. p \in Parental
    BY <1>1, <1>2, <1>3, <1>6
  <2>2. m \in Walked(Root, Parental)
    BY <1>6, <2>1 DEF Walked
  <2>3. \A W \in closed : p \in W /\ Kid(p) \subseteq W
    BY <1>1
  <2> QED
    BY <1>1, <1>6, <2>2, <2>3
<1> QED
  BY <1>1, <1>3, <1>5, <1>6

\* Whatever has the root and, with a node, its children, has the document.
LEMMA AttachedLeast ==
  ASSUME TypeOK, NEW S, Root \in S, \A p \in S : Kid(p) \subseteq S
  PROVE  Attached \subseteq S
<1> DEFINE P == (S \cap Parental) \ {Root}
           W == Walked(Root, P)
<1>1. Parental \subseteq 1..used /\ \A p \in 1..used : Kid(p) # {} => p \in Parental
  BY DEF Parental, Kid
<1>2. W \subseteq S /\ W \subseteq 1..used
  BY <1>1, KidsTyped DEF Walked
<1>3. \A p \in W : Kid(p) \subseteq W
  BY <1>1, <1>2 DEF Walked
<1>4. Attached \subseteq W
  <2>1. P \in SUBSET (Parental \ {Root})
    OBVIOUS
  <2> QED
    BY <1>3, <2>1 DEF Attached, Below
<1> QED
  BY <1>2, <1>4
Document ==
  /\ 1..used \subseteq Node /\ used \in Nat /\ used > 0 /\ Root \in 1..used
  /\ \A n \in Node : kids[n] \in Seq(1..used) /\ Kid(n) \subseteq 1..used
  /\ \A n \in Node : Kid(n) = ToSet(kids[n])
  /\ Root \in Attached /\ Attached \subseteq 1..used
  /\ \A p \in Attached : Kid(p) \subseteq Attached
  /\ \A S : Root \in S /\ (\A p \in S : Kid(p) \subseteq S) => Attached \subseteq S

LEMMA DocumentNow == TypeOK => Document
<1> SUFFICES ASSUME TypeOK
             PROVE  Document
  OBVIOUS
<1>1. \A S : Root \in S /\ (\A p \in S : Kid(p) \subseteq S) => Attached \subseteq S
  BY AttachedLeast
<1> QED
  BY <1>1, KidsTyped, AttachedClosed DEF Document

LEMMA DocumentNext == TypeOK' => Document'
BY DocumentNow, PTL

-----------------------------------------------------------------------------
(* A block of source gives its nodes fresh ids.                             *)
LEMMA KindsKnown ==
  ASSUME TypeOK, NEW k \in NestKinds \cup {LeafKind}
  PROVE  k \in Kinds /\ LeafKind \in Kinds
BY DEF TypeOK, NestKinds, LeafKind, Kinds

LEMMA FreshIds ==
  ASSUME TypeOK, used' \in {used + 1, used + 2}, used' \in Node
  PROVE  /\ used \in Nat /\ used' \in Nat /\ Fresh = used + 1 /\ used < Fresh /\ Fresh <= used'
         /\ 1..used \subseteq 1..used' /\ 1..used' \subseteq Node
         /\ Fresh \in 1..used' /\ used' \in 1..used'
<1>1. used \in Nat /\ used > 0
  BY KidsTyped
<1>2. 1..used' \subseteq Node
  BY TreeAssumption
<1> QED
  BY <1>1, <1>2 DEF Fresh

LEMMA BlockTyped ==
  ASSUME TypeOK, NEW k \in NestKinds \cup {LeafKind}, Block(k)
  PROVE  /\ used' \in {used + 1, used + 2} /\ used' \in Node
         /\ kind' \in [Node -> Kinds] /\ word' \in [Node -> Node \cup {0}]
         /\ key' \in [Node -> BOOLEAN] /\ mute' \in [Node -> BOOLEAN]
         /\ source' \in [Node -> Seq(Node)]
<1>1. used' \in {used + 1, used + 2} /\ used' \in Node
  BY DEF Block
<1>2. Fresh \in Node
  BY <1>1, FreshIds
<1>3. kind' \in [Node -> Kinds]
  BY <1>1, <1>2, KindsKnown DEF Block, TypeOK
<1>4. word' \in [Node -> Node \cup {0}]
  <2>1. PICK content \in Contents(k, used') : word' = [word EXCEPT ![used'] = content]
    BY DEF Block
  <2>2. content \in Node \cup {0}
    BY <1>1 DEF Contents
  <2> QED
    BY <2>1, <2>2 DEF TypeOK
<1>5. key' \in [Node -> BOOLEAN] /\ mute' \in [Node -> BOOLEAN]
  <2> DEFINE named == (k = "mapping")
  <2>1. named \in BOOLEAN
    OBVIOUS
  <2>2. key' = [key EXCEPT ![used'] = named] /\ mute' = mute
    BY DEF Block
  <2> HIDE DEF named
  <2> QED
    BY <1>1, <2>1, <2>2 DEF TypeOK
<1>6. source' \in [Node -> Seq(Node)]
  <2>1. <<used'>> \in Seq(Node)
    BY <1>1
  <2> DEFINE one == <<used'>>
  <2>2. source' = source \/ source' = [source EXCEPT ![used'] = one]
    BY DEF Block
  <2> HIDE DEF one
  <2> QED
    BY <1>1, <2>1, <2>2 DEF TypeOK, one
<1> QED
  BY <1>1, <1>3, <1>4, <1>5, <1>6

\* Lists of ids given out are lists of ids given out later.
LEMMA SeqWider ==
  ASSUME NEW A, NEW B, A \subseteq B
  PROVE  Seq(A) \subseteq Seq(B)
OBVIOUS

-----------------------------------------------------------------------------
LEMMA InsertStep ==
  ASSUME IInv, ops' \in 0..MaxOps,
         NEW parent \in index, NEW k \in NestKinds \cup {LeafKind}, Insert(parent, k)
  PROVE  /\ IInv' /\ Attached' \subseteq Attached \cup (Fresh..used')
         /\ \E new, leaf \in Node :
              /\ new = Fresh /\ leaf = used' /\ new \notin 1..used /\ leaf \notin 1..used
              /\ Attached' \subseteq Attached \cup {new, leaf}
              /\ Kid(parent)' = Kid(parent) \cup {new}
              /\ Kid(new)' \subseteq {leaf} /\ (leaf = new => Kid(new)' = {})
              /\ \A n \in 1..used : n # parent => Kid(n)' = Kid(n)
              /\ leaf # new => Kid(leaf)' = {}
<1>1. TypeOK /\ Document
  BY DocumentNow DEF IInv
<1>2. /\ used' \in {used + 1, used + 2} /\ used' \in Node
      /\ kind' \in [Node -> Kinds] /\ word' \in [Node -> Node \cup {0}]
      /\ key' \in [Node -> BOOLEAN] /\ mute' \in [Node -> BOOLEAN]
      /\ source' \in [Node -> Seq(Node)]
  BY <1>1, BlockTyped DEF Insert
<1>3. /\ used \in Nat /\ used' \in Nat /\ Fresh = used + 1 /\ used < Fresh /\ Fresh <= used'
      /\ 1..used \subseteq 1..used' /\ 1..used' \subseteq Node
      /\ Fresh \in 1..used' /\ used' \in 1..used'
  BY <1>1, <1>2, FreshIds
<1> PICK new \in Node, leaf \in Node : new = Fresh /\ leaf = used'
  BY <1>3
<1>4. /\ used \in Nat /\ leaf \in Nat /\ new = used + 1 /\ used < new /\ new <= leaf
      /\ 1..used \subseteq 1..used' /\ 1..used' \subseteq Node
      /\ new \in 1..used' /\ leaf \in 1..used'
  BY <1>3
<1>5. parent \in 1..used /\ parent \in Node
  BY <1>1, <1>4 DEF TypeOK
<1> DEFINE below == IF leaf = new THEN <<>> ELSE <<leaf>>
<1>6. PICK i \in Positions(kids[parent]) :
        kids' = [kids EXCEPT ![parent] = InsertAt(kids[parent], i, new), ![new] = below]
  BY DEF Insert
<1> DEFINE list == InsertAt(kids[parent], i, new)
<1>7. /\ list \in Seq(1..used') /\ ToSet(list) = Kid(parent) \cup {new}
      /\ IsInjective(kids[parent]) => IsInjective(list)
  <2>1. kids[parent] \in Seq(1..used') /\ i \in 1..(Len(kids[parent]) + 1)
    <3>1. kids[parent] \in Seq(1..used)
      BY <1>1, <1>5 DEF Document
    <3>2. kids[parent] \in Seq(1..used')
      BY <1>4, <3>1, SeqWider
    <3>3. Len(kids[parent]) \in Nat
      BY <3>1
    <3> QED
      BY <3>2, <3>3, <1>6 DEF Positions
  <2>2. new \notin ToSet(kids[parent]) /\ ToSet(kids[parent]) = Kid(parent)
    BY <1>1, <1>4, <1>5 DEF Document
  <2>3. new \in 1..used'
    BY <1>4
  <2>4. /\ list \in Seq(1..used') /\ ToSet(list) = ToSet(kids[parent]) \cup {new}
        /\ IsInjective(kids[parent]) /\ new \notin ToSet(kids[parent]) => IsInjective(list)
    <3> DEFINE U == 1..used'
               s == kids[parent]
    <3>1. s \in Seq(U) /\ i \in 1..(Len(s) + 1) /\ new \in U
      BY <2>1, <2>3
    <3> HIDE DEF U, s
    <3>2. /\ InsertAt(s, i, new) \in Seq(U) /\ ToSet(InsertAt(s, i, new)) = ToSet(s) \cup {new}
          /\ IsInjective(s) /\ new \notin ToSet(s) => IsInjective(InsertAt(s, i, new))
      BY <3>1, InsertAtList
    <3> QED
      BY <3>2 DEF U, s
  <2> QED
    BY <2>2, <2>4
<1>8. below \in Seq(1..used') /\ ToSet(below) \subseteq {leaf} /\ IsInjective(below)
      /\ (leaf = new => ToSet(below) = {})
  <2>1. leaf \in 1..used'
    BY <1>4
  <2>2. /\ <<leaf>> \in Seq(1..used') /\ DOMAIN <<leaf>> = {1} /\ <<leaf>>[1] = leaf
        /\ <<>> \in Seq(1..used') /\ DOMAIN <<>> = {}
    BY <2>1
  <2>3. ToSet(<<leaf>>) = {leaf} /\ IsInjective(<<leaf>>)
    BY <2>2 DEF ToSet, IsInjective
  <2>4. ToSet(<<>>) = {} /\ IsInjective(<<>>)
    BY <2>2 DEF ToSet, IsInjective
  <2> QED
    BY <2>2, <2>3, <2>4
<1> HIDE DEF list, below
<1>9. parent # new /\ parent # leaf /\ new \notin 1..used /\ leaf \notin 1..used
  BY <1>4, <1>5
<1>10. kids' \in [Node -> Seq(1..used')]
  <2>1. kids \in [Node -> Seq(1..used')]
    BY <1>1, <1>4, SeqWider DEF TypeOK
  <2> QED
    BY <1>5, <1>6, <1>7, <1>8, <1>9, <2>1 DEF list
<1>11. /\ kids'[parent] = list /\ kids'[new] = below
       /\ \A n \in Node : n # parent /\ n # new => kids'[n] = kids[n]
  BY <1>1, <1>5, <1>6, <1>9 DEF list, TypeOK
<1>12. TypeOK'
  <2>1. index' \subseteq 1..used'
    BY <1>1, <1>4 DEF Insert, TypeOK
  <2>2. careless' \in BOOLEAN
    BY DEF Insert
  <2>3. format' \in Formats
    BY <1>1 DEF Insert, TypeOK
  <2> QED
    BY <1>2, <1>10, <2>1, <2>2, <2>3 DEF TypeOK
<1>13. BlankFresh'
  BY <1>4, <1>5, <1>11 DEF BlankFresh, IInv
<1>14. Document'
  BY <1>12, DocumentNext
<1>15. /\ Kid(parent)' = Kid(parent) \cup {new}
       /\ Kid(new)' \subseteq {leaf} /\ (leaf = new => Kid(new)' = {})
       /\ \A n \in 1..used : n # parent => Kid(n)' = Kid(n)
       /\ leaf # new => Kid(leaf)' = {}
  <2>1. \A n \in Node : Kid(n)' = ToSet(kids'[n])
    BY <1>14 DEF Document
  <2>2. leaf # new => kids'[leaf] = <<>>
    <3>1. leaf # new => kids'[leaf] = kids[leaf]
      BY <1>9, <1>11
    <3>2. kids[leaf] = <<>>
      BY <1>9 DEF BlankFresh, IInv
    <3> QED
      BY <3>1, <3>2
  <2>3. ToSet(<<>>) = {}
    BY DEF ToSet
  <2>4. \A n \in 1..used : n \in Node /\ n # new
    BY <1>1, <1>9 DEF Document
  <2>5. Kid(parent)' = Kid(parent) \cup {new}
    BY <1>5, <1>7, <1>11, <2>1
  <2>6. Kid(new)' = ToSet(below)
    BY <1>11, <2>1
  <2>7. ASSUME NEW n \in 1..used, n # parent
        PROVE  Kid(n)' = Kid(n)
    <3>1. kids'[n] = kids[n] /\ n \in Node
      BY <1>11, <2>4, <2>7
    <3> QED
      BY <1>1, <2>1, <3>1 DEF Document
  <2>8. leaf # new => Kid(leaf)' = {}
    BY <2>1, <2>2, <2>3
  <2> QED
    BY <1>8, <2>5, <2>6, <2>7, <2>8
<1>16. Attached' \subseteq Attached \cup {new, leaf}
  <2> DEFINE S == Attached \cup {new, leaf}
  <2>1. Root \in S
    BY <1>1 DEF Document
  <2>2. ASSUME NEW p \in S
        PROVE  Kid(p)' \subseteq S
    <3>1. CASE p \in Attached
      <4>1. p \in 1..used /\ Kid(p) \subseteq Attached
        BY <1>1, <3>1 DEF Document
      <4> QED
        BY <1>15, <4>1
    <3>2. CASE p = new
      BY <1>15, <3>2
    <3>3. CASE p = leaf
      BY <1>15, <3>3
    <3> QED
      BY <3>1, <3>2, <3>3
  <2>3. Root \in S /\ (\A p \in S : Kid(p)' \subseteq S) => Attached' \subseteq S
    BY <1>14 DEF Document
  <2> QED
    BY <2>1, <2>2, <2>3
<1>17. \A p \in Attached' : p \in Attached \/ p = new \/ (p = leaf /\ Kid(p)' = {})
  BY <1>15, <1>16
<1>18. OneParent'
  <2>1. \A p, q \in Attached : Kid(p) \cap Kid(q) # {} => p = q
    BY DEF IInv, OneParent
  <2>2. \A p \in Attached : p \in 1..used /\ p # new /\ Kid(p) \subseteq 1..used
    BY <1>1, <1>4 DEF Document
  <2>3. new \notin 1..used /\ leaf \notin 1..used /\ Root \in 1..used
    BY <1>1, <1>4 DEF Document
  <2>4. ASSUME NEW p \in Attached', NEW q \in Attached', NEW m \in Kid(p)', m \in Kid(q)'
        PROVE  p = q
    <3>1. CASE m \in 1..used
      <4>1. p \in Attached /\ q \in Attached /\ m \in Kid(p) /\ m \in Kid(q)
        BY <1>15, <1>17, <2>2, <2>3, <2>4, <3>1
      <4> QED
        BY <2>1, <4>1
    <3>2. CASE m \notin 1..used /\ m = new
      BY <1>15, <1>17, <2>2, <2>4, <3>2
    <3>3. CASE m \notin 1..used /\ m # new
      BY <1>15, <1>17, <2>2, <2>4, <3>3
    <3> QED
      BY <3>1, <3>2, <3>3
  <2>5. ASSUME NEW p \in Attached'
        PROVE  Root \notin Kid(p)'
    BY <1>15, <1>17, <2>2, <2>3 DEF IInv, OneParent
  <2>6. ASSUME NEW p \in Attached'
        PROVE  IsInjective(kids'[p])
    <3>1. CASE p = new
      BY <1>8, <1>11, <3>1
    <3>2. CASE p \in Attached /\ p = parent
      BY <1>7, <1>11, <3>2 DEF IInv, OneParent
    <3>3. CASE p \in Attached /\ p # parent
      <4>1. kids'[p] = kids[p]
        BY <1>4, <1>11, <2>2, <3>3
      <4> QED
        BY <3>3, <4>1 DEF IInv, OneParent
    <3>4. CASE p = leaf /\ p # new
      <4>1. kids'[p] = <<>>
        BY <1>9, <1>11, <3>4 DEF BlankFresh, IInv
      <4> QED
        BY <4>1 DEF IsInjective
    <3> QED
      BY <1>17, <3>1, <3>2, <3>3, <3>4
  <2> QED
    BY <2>4, <2>5, <2>6 DEF OneParent
<1>19. {new, leaf} \subseteq Fresh..used'
  BY <1>3
<1>20. new = Fresh /\ leaf = used'
  OBVIOUS
<1>21. IInv' /\ Attached' \subseteq Attached \cup (Fresh..used')
  BY <1>12, <1>13, <1>16, <1>18, <1>19 DEF IInv
<1> QED
  BY <1>9, <1>15, <1>16, <1>20, <1>21
-----------------------------------------------------------------------------
\* The parent a node of the document is taken from.
LEMMA ParentKnown ==
  ASSUME IInv, NEW n, HasParent(n)
  PROVE  /\ ParentOf(n) \in Attached /\ ParentOf(n) \in 1..used /\ ParentOf(n) \in Node
         /\ n \in Kid(ParentOf(n)) /\ n \in Attached /\ n # Root
<1>1. TypeOK /\ Document
  BY DocumentNow DEF IInv
<1>2. ParentOf(n) \in Parents(n)
  BY DEF ParentOf, HasParent
<1>3. ParentOf(n) \in Attached /\ n \in Kid(ParentOf(n))
  BY <1>2 DEF Parents
<1>4. ParentOf(n) \in 1..used /\ ParentOf(n) \in Node /\ n \in Attached
  BY <1>1, <1>3 DEF Document
<1>5. n # Root
  BY <1>3 DEF IInv, OneParent
<1> QED
  BY <1>3, <1>4, <1>5

\* The lists of children with the node taken from its parent: whatever the
\* document has of it is gone.
LEMMA TakenOut ==
  ASSUME IInv, NEW n, HasParent(n), NEW without,
         without = [kids EXCEPT ![ParentOf(n)] = Without(kids[ParentOf(n)], n)]
  PROVE  /\ without \in [Node -> Seq(1..used)]
         /\ \A x \in Node : ToSet(without[x]) \subseteq Kid(x)
         /\ \A x \in Attached : IsInjective(without[x]) /\ n \notin ToSet(without[x])
         /\ \A x \in Node \ (1..used) : without[x] = <<>>
<1>1. TypeOK /\ Document
  BY DocumentNow DEF IInv
<1> DEFINE p == ParentOf(n)
           rest == Without(kids[p], n)
<1>2. p \in Attached /\ p \in 1..used /\ p \in Node /\ n \in Kid(p)
  BY ParentKnown
<1>3. without = [kids EXCEPT ![p] = rest]
  OBVIOUS
<1> HIDE DEF p
<1>4. /\ rest \in Seq(1..used) /\ ToSet(rest) \subseteq Kid(p)
      /\ IsInjective(rest) /\ n \notin ToSet(rest)
  <2>1. kids[p] \in Seq(1..used) /\ ToSet(kids[p]) = Kid(p)
    BY <1>1, <1>2 DEF Document
  <2>2. IsInjective(kids[p])
    BY <1>2 DEF IInv, OneParent
  <2>3. \A S, s : s \in Seq(S) =>
          /\ Without(s, n) \in Seq(S) /\ ToSet(Without(s, n)) \subseteq ToSet(s)
          /\ IsInjective(s) => IsInjective(Without(s, n)) /\ n \notin ToSet(Without(s, n))
    BY WithoutList
  <2> QED
    BY <2>1, <2>2, <2>3
<1> HIDE DEF rest
<1>5. /\ without[p] = rest
      /\ \A x \in Node : x # p => without[x] = kids[x]
      /\ without \in [Node -> Seq(1..used)]
  BY <1>1, <1>2, <1>3, <1>4 DEF TypeOK
<1>6. ASSUME NEW x \in Node
      PROVE  ToSet(without[x]) \subseteq Kid(x)
  BY <1>1, <1>4, <1>5 DEF Document
<1>7. ASSUME NEW x \in Attached
      PROVE  IsInjective(without[x]) /\ n \notin ToSet(without[x])
  <2>1. x \in Node
    BY <1>1 DEF Document
  <2>2. CASE x = p
    BY <1>4, <1>5, <2>2
  <2>3. CASE x # p
    <3>1. without[x] = kids[x] /\ ToSet(kids[x]) = Kid(x)
      BY <1>1, <1>5, <2>1, <2>3 DEF Document
    <3>2. n \notin Kid(x)
      BY <1>2, <2>3 DEF IInv, OneParent
    <3> QED
      BY <3>1, <3>2 DEF IInv, OneParent
  <2> QED
    BY <2>2, <2>3
<1>8. \A x \in Node \ (1..used) : without[x] = <<>>
  BY <1>2, <1>5 DEF IInv, BlankFresh
<1> QED
  BY <1>5, <1>6, <1>7, <1>8

LEMMA DeleteStep ==
  ASSUME IInv, ops' \in 0..MaxOps, NEW n \in index, Delete(n)
  PROVE  IInv' /\ Attached' \subseteq Attached /\ \A x \in Node : Kid(x)' \subseteq Kid(x)
<1>1. TypeOK /\ Document
  BY DocumentNow DEF IInv
<1>2. HasParent(n)
  BY DEF Delete
<1>3. /\ kids' \in [Node -> Seq(1..used)]
      /\ \A x \in Node : ToSet(kids'[x]) \subseteq Kid(x)
      /\ \A x \in Attached : IsInjective(kids'[x])
      /\ \A x \in Node \ (1..used) : kids'[x] = <<>>
  BY <1>2, TakenOut DEF Delete
<1>4. used' = used
  BY DEF Delete
<1>5. TypeOK'
  BY <1>1, <1>3 DEF Delete, TypeOK, payload
<1>6. Document'
  BY <1>5, DocumentNext
<1>7. \A x \in Node : Kid(x)' \subseteq Kid(x)
  BY <1>3, <1>6 DEF Document
<1>8. Attached' \subseteq Attached
  <2>1. Root \in Attached /\ \A x \in Attached : Kid(x)' \subseteq Attached
    BY <1>1, <1>7 DEF Document
  <2> QED
    BY <1>6, <2>1 DEF Document
<1>9. OneParent'
  <2>1. Attached \subseteq Node
    BY <1>1 DEF Document
  <2>2. ASSUME NEW p \in Attached', NEW q \in Attached', Kid(p)' \cap Kid(q)' # {}
        PROVE  p = q
    BY <1>7, <1>8, <2>1, <2>2 DEF IInv, OneParent
  <2>3. ASSUME NEW p \in Attached'
        PROVE  Root \notin Kid(p)' /\ IsInjective(kids'[p])
    BY <1>3, <1>7, <1>8, <2>1 DEF IInv, OneParent
  <2> QED
    BY <2>2, <2>3 DEF OneParent
<1>10. BlankFresh'
  BY <1>3, <1>4 DEF BlankFresh
<1> QED
  BY <1>5, <1>7, <1>8, <1>9, <1>10 DEF IInv

LEMMA MoveStep ==
  ASSUME IInv, ops' \in 0..MaxOps, NEW n \in index, Move(n)
  PROVE  /\ IInv' /\ Attached' \subseteq Attached
         /\ n \in Attached
         /\ \E target \in index :
              /\ careless' = (\/ careless \/ target = n \/ target \notin Attached
                              \/ ~Suits(target, kind[n]))
              /\ \A x \in Node : x # target => Kid(x)' \subseteq Kid(x)
              /\ Kid(target)' \subseteq Kid(target) \cup {n}
<1>1. TypeOK /\ Document
  BY DocumentNow DEF IInv
<1>2. HasParent(n)
  BY DEF Move
<1>3. n \in Attached /\ n # Root /\ n \in 1..used
  BY <1>1, <1>2, ParentKnown DEF Document
<1>4. PICK without : without = [kids EXCEPT ![ParentOf(n)] = Without(kids[ParentOf(n)], n)]
  OBVIOUS
<1> PICK target \in index :
       /\ \E i \in Positions(without[target]) :
            kids' = [without EXCEPT ![target] = InsertAt(without[target], i, n)]
       /\ careless' = (careless \/ target = n \/ target \notin Attached \/ ~Suits(target, kind[n]))
  BY <1>4 DEF Move
<1>5. PICK i \in Positions(without[target]) :
        kids' = [without EXCEPT ![target] = InsertAt(without[target], i, n)]
  OBVIOUS
<1>6. /\ without \in [Node -> Seq(1..used)]
      /\ \A x \in Node : ToSet(without[x]) \subseteq Kid(x)
      /\ \A x \in Attached : IsInjective(without[x]) /\ n \notin ToSet(without[x])
      /\ \A x \in Node \ (1..used) : without[x] = <<>>
  BY <1>2, <1>4, TakenOut
<1>7. target \in 1..used /\ target \in Node
  BY <1>1 DEF TypeOK, Document
<1> DEFINE list == InsertAt(without[target], i, n)
<1>8. /\ list \in Seq(1..used) /\ ToSet(list) = ToSet(without[target]) \cup {n}
      /\ IsInjective(without[target]) /\ n \notin ToSet(without[target]) => IsInjective(list)
  <2> DEFINE U == 1..used
             s == without[target]
  <2>1. s \in Seq(U) /\ n \in U
    BY <1>3, <1>6, <1>7
  <2>2. i \in 1..(Len(s) + 1)
    <3>1. Len(s) \in Nat
      BY <2>1
    <3>2. i \in 1..(Len(s) + 1)
      BY <1>5 DEF Positions
    <3> QED
      BY <3>1, <3>2
  <2> HIDE DEF U, s
  <2>3. /\ InsertAt(s, i, n) \in Seq(U) /\ ToSet(InsertAt(s, i, n)) = ToSet(s) \cup {n}
        /\ IsInjective(s) /\ n \notin ToSet(s) => IsInjective(InsertAt(s, i, n))
    BY <2>1, <2>2, InsertAtList
  <2> QED
    BY <2>3 DEF U, s
<1>9. /\ kids'[target] = list
      /\ \A x \in Node : x # target => kids'[x] = without[x]
      /\ kids' \in [Node -> Seq(1..used)]
  <2>1. kids' = [without EXCEPT ![target] = list]
    BY <1>5
  <2> HIDE DEF list
  <2> QED
    BY <1>6, <1>7, <1>8, <2>1
<1> HIDE DEF list
<1>10. used' = used
  BY DEF Move
<1>11. TypeOK'
  <2>1. careless' \in BOOLEAN
    BY DEF Move
  <2>2. UNCHANGED <<format, used, payload, index>>
    BY DEF Move
  <2> QED
    BY <1>1, <1>9, <2>1, <2>2 DEF TypeOK, payload
<1>12. Document'
  BY <1>11, DocumentNext
<1>13. /\ \A x \in Node : x # target => Kid(x)' \subseteq Kid(x)
       /\ Kid(target)' \subseteq Kid(target) \cup {n}
  <2>1. \A x \in Node : Kid(x)' = ToSet(kids'[x])
    BY <1>12 DEF Document
  <2> QED
    BY <1>6, <1>7, <1>8, <1>9, <2>1
<1>14. Attached' \subseteq Attached
  <2>1. Root \in Attached /\ \A x \in Attached : x \in Node /\ Kid(x) \subseteq Attached
    BY <1>1 DEF Document
  <2>2. \A x \in Attached : Kid(x)' \subseteq Attached
    BY <1>3, <1>13, <2>1
  <2> QED
    BY <1>12, <2>1, <2>2 DEF Document
<1>15. OneParent'
  <2>1. Attached \subseteq Node
    BY <1>1 DEF Document
  <2>2. \A x \in Attached : x # target => n \notin Kid(x)'
    <3>1. \A x \in Node : Kid(x)' = ToSet(kids'[x])
      BY <1>12 DEF Document
    <3> QED
      BY <1>6, <1>9, <2>1, <3>1
  <2>3. ASSUME NEW p \in Attached', NEW q \in Attached', NEW m \in Kid(p)', m \in Kid(q)'
        PROVE  p = q
    <3>1. CASE m = n
      BY <1>14, <2>2, <2>3, <3>1
    <3>2. CASE m # n
      <4>1. p \in Attached /\ q \in Attached /\ m \in Kid(p) /\ m \in Kid(q)
        BY <1>13, <1>14, <2>1, <2>3, <3>2
      <4> QED
        BY <4>1 DEF IInv, OneParent
    <3> QED
      BY <3>1, <3>2
  <2>4. ASSUME NEW p \in Attached'
        PROVE  Root \notin Kid(p)'
    BY <1>3, <1>13, <1>14, <2>1 DEF IInv, OneParent
  <2>5. ASSUME NEW p \in Attached'
        PROVE  IsInjective(kids'[p])
    BY <1>6, <1>8, <1>9, <1>14, <2>1
  <2> QED
    BY <2>3, <2>4, <2>5 DEF OneParent
<1>16. BlankFresh'
  BY <1>6, <1>7, <1>9, <1>10 DEF BlankFresh
<1>17. careless' = (careless \/ target = n \/ target \notin Attached \/ ~Suits(target, kind[n]))
  OBVIOUS
<1> QED
  BY <1>3, <1>11, <1>13, <1>14, <1>15, <1>16, <1>17 DEF IInv
\* Of a replaced node only the id is left; what hangs below it is new.
LEMMA ReplaceTyped ==
  ASSUME TypeOK, NEW n \in index, NEW k \in NestKinds \cup {LeafKind}, Replace(n, k)
  PROVE  /\ used' \in {used + 1, used + 2} /\ used' \in Node
         /\ kind' \in [Node -> Kinds] /\ word' \in [Node -> Node \cup {0}]
         /\ key' \in [Node -> BOOLEAN] /\ mute' \in [Node -> BOOLEAN]
         /\ source' \in [Node -> Seq(Node)]
<1>1. used' \in {used + 1, used + 2} /\ used' \in Node
  BY DEF Replace
<1>2. n \in Node
  BY KidsTyped DEF TypeOK
<1> PICK leaf \in Node : leaf = used'
  BY <1>1
<1>3. kind' \in [Node -> Kinds]
  <2> DEFINE first == [kind EXCEPT ![leaf] = IF k = LeafKind THEN kind[leaf] ELSE LeafKind]
  <2>1. first \in [Node -> Kinds]
    BY KindsKnown DEF TypeOK
  <2>2. kind' = [first EXCEPT ![n] = k]
    BY DEF Replace
  <2> HIDE DEF first
  <2> QED
    BY <1>2, <2>1, <2>2, KindsKnown
<1>4. word' \in [Node -> Node \cup {0}]
  <2> DEFINE first == [word EXCEPT ![leaf] = IF k = LeafKind THEN word[leaf] ELSE leaf]
             own(content) == IF k = LeafKind THEN content ELSE 0
  <2>1. first \in [Node -> Node \cup {0}]
    BY DEF TypeOK
  <2>2. PICK content \in Contents(k, leaf) : word' = [first EXCEPT ![n] = own(content)]
    BY DEF Replace
  <2>3. own(content) \in Node \cup {0}
    BY DEF Contents
  <2> HIDE DEF first, own
  <2> QED
    BY <1>2, <2>1, <2>2, <2>3
<1>5. key' \in [Node -> BOOLEAN] /\ mute' \in [Node -> BOOLEAN]
  <2> DEFINE named == (k = "mapping")
  <2>1. named \in BOOLEAN
    OBVIOUS
  <2>2. key' = [key EXCEPT ![n] = FALSE, ![leaf] = named] /\ mute' = [mute EXCEPT ![n] = FALSE]
    BY DEF Replace
  <2> HIDE DEF named
  <2> QED
    BY <1>2, <2>1, <2>2 DEF TypeOK
<1>6. source' \in [Node -> Seq(Node)]
  <2> DEFINE own == IF format \in {"yaml", "html"} THEN <<leaf>> ELSE <<>>
  <2>1. own \in Seq(Node)
    OBVIOUS
  <2>2. source' = [source EXCEPT ![n] = own]
    BY DEF Replace
  <2> HIDE DEF own
  <2> QED
    BY <1>2, <2>1, <2>2 DEF TypeOK
<1> QED
  BY <1>1, <1>3, <1>4, <1>5, <1>6

LEMMA ReplaceStep ==
  ASSUME IInv, ops' \in 0..MaxOps,
         NEW n \in index, NEW k \in NestKinds \cup {LeafKind}, Replace(n, k)
  PROVE  /\ IInv' /\ Attached' \subseteq Attached \cup (Fresh..used')
         /\ \E leaf \in Node :
              /\ leaf = used' /\ leaf \notin 1..used
              /\ Attached' \subseteq Attached \cup (IF k = LeafKind THEN {} ELSE {leaf})
              /\ Kid(n)' \subseteq {leaf} /\ (k = LeafKind => Kid(n)' = {})
              /\ Kid(leaf)' = {}
              /\ \A x \in 1..used : x # n => Kid(x)' = Kid(x)
<1>1. TypeOK /\ Document
  BY DocumentNow DEF IInv
<1>2. /\ used' \in {used + 1, used + 2} /\ used' \in Node
      /\ kind' \in [Node -> Kinds] /\ word' \in [Node -> Node \cup {0}]
      /\ key' \in [Node -> BOOLEAN] /\ mute' \in [Node -> BOOLEAN]
      /\ source' \in [Node -> Seq(Node)]
  BY <1>1, ReplaceTyped
<1>3. /\ used \in Nat /\ used' \in Nat /\ Fresh = used + 1 /\ used < Fresh /\ Fresh <= used'
      /\ 1..used \subseteq 1..used' /\ 1..used' \subseteq Node
      /\ Fresh \in 1..used' /\ used' \in 1..used'
  BY <1>1, <1>2, FreshIds
<1> PICK leaf \in Node : leaf = used'
  BY <1>2
<1>4. n \in 1..used /\ n \in Node /\ leaf \notin 1..used /\ leaf # n
  <2>1. n \in 1..used
    BY <1>1 DEF TypeOK
  <2>2. leaf \notin 1..used
    BY <1>3
  <2> QED
    BY <1>3, <2>1, <2>2
<1> DEFINE below == IF k = LeafKind THEN <<>> ELSE <<leaf>>
<1>5. /\ below \in Seq(1..used') /\ ToSet(below) \subseteq {leaf} /\ IsInjective(below)
      /\ k = LeafKind => ToSet(below) = {}
  <2>1. leaf \in 1..used'
    BY <1>3
  <2>2. /\ <<leaf>> \in Seq(1..used') /\ DOMAIN <<leaf>> = {1} /\ <<leaf>>[1] = leaf
        /\ <<>> \in Seq(1..used') /\ DOMAIN <<>> = {}
    BY <2>1
  <2>3. ToSet(<<leaf>>) = {leaf} /\ IsInjective(<<leaf>>)
    BY <2>2 DEF ToSet, IsInjective
  <2>4. ToSet(<<>>) = {} /\ IsInjective(<<>>)
    BY <2>2 DEF ToSet, IsInjective
  <2> QED
    BY <2>2, <2>3, <2>4
<1>6. kids' = [kids EXCEPT ![n] = below]
  BY DEF Replace
<1> HIDE DEF below
<1>7. /\ kids'[n] = below
      /\ \A x \in Node : x # n => kids'[x] = kids[x]
      /\ kids' \in [Node -> Seq(1..used')]
  <2>1. kids \in [Node -> Seq(1..used')]
    BY <1>1, <1>3, SeqWider DEF TypeOK
  <2> QED
    BY <1>4, <1>5, <1>6, <2>1
<1>8. TypeOK'
  <2>1. index' \subseteq 1..used'
    BY <1>1, <1>3, <1>4 DEF Replace, TypeOK
  <2>2. careless' \in BOOLEAN
    BY DEF Replace
  <2>3. format' \in Formats
    BY <1>1 DEF Replace, TypeOK
  <2> QED
    BY <1>2, <1>7, <2>1, <2>2, <2>3 DEF TypeOK
<1>9. Document'
  BY <1>8, DocumentNext
<1>10. /\ Kid(n)' \subseteq {leaf} /\ (k = LeafKind => Kid(n)' = {}) /\ Kid(leaf)' = {}
       /\ \A x \in 1..used : x # n => Kid(x)' = Kid(x)
  <2>1. \A x \in Node : Kid(x)' = ToSet(kids'[x])
    BY <1>9 DEF Document
  <2>2. kids'[leaf] = <<>> /\ ToSet(<<>>) = {}
    BY <1>4, <1>7 DEF IInv, BlankFresh, ToSet
  <2>3. ASSUME NEW x \in 1..used, x # n
        PROVE  Kid(x)' = Kid(x)
    <3>1. x \in Node /\ Kid(x) = ToSet(kids[x])
      BY <1>1, <2>3 DEF Document
    <3> QED
      BY <1>7, <2>1, <2>3, <3>1
  <2> QED
    BY <1>4, <1>5, <1>7, <2>1, <2>2, <2>3
<1>11. Attached' \subseteq Attached \cup (IF k = LeafKind THEN {} ELSE {leaf})
  <2> DEFINE S == Attached \cup (IF k = LeafKind THEN {} ELSE {leaf})
  <2>1. Root \in S
    BY <1>1 DEF Document
  <2>2. ASSUME NEW p \in S
        PROVE  Kid(p)' \subseteq S
    <3>1. CASE p \in Attached
      <4>1. p \in 1..used /\ Kid(p) \subseteq Attached
        BY <1>1, <3>1 DEF Document
      <4> QED
        BY <1>10, <4>1
    <3>2. CASE p = leaf
      BY <1>10, <3>2
    <3> QED
      BY <3>1, <3>2
  <2>3. Root \in S /\ (\A p \in S : Kid(p)' \subseteq S) => Attached' \subseteq S
    BY <1>9 DEF Document
  <2> QED
    BY <2>1, <2>2, <2>3
<1>12. OneParent'
  <2>1. Attached \subseteq 1..used /\ Root \in 1..used
    BY <1>1 DEF Document
  <2>2. \A x \in Attached : Kid(x) \subseteq 1..used
    BY <1>1 DEF Document
  <2>3. ASSUME NEW p \in Attached', NEW q \in Attached', NEW m \in Kid(p)', m \in Kid(q)'
        PROVE  p = q
    <3>1. p \in Attached /\ q \in Attached
      BY <1>10, <1>11, <2>3
    <3>2. CASE m = leaf
      BY <1>4, <1>10, <2>1, <2>2, <2>3, <3>1, <3>2
    <3>3. CASE m # leaf
      <4>1. m \in Kid(p) /\ m \in Kid(q)
        BY <1>10, <2>1, <2>3, <3>1, <3>3
      <4> QED
        BY <3>1, <4>1 DEF IInv, OneParent
    <3> QED
      BY <3>2, <3>3
  <2>4. ASSUME NEW p \in Attached'
        PROVE  Root \notin Kid(p)'
    BY <1>4, <1>10, <1>11, <2>1 DEF IInv, OneParent
  <2>5. ASSUME NEW p \in Attached'
        PROVE  IsInjective(kids'[p])
    <3>1. CASE p = n
      BY <1>5, <1>7, <3>1
    <3>2. CASE p = leaf
      <4>1. kids'[p] = <<>>
        BY <1>4, <1>7, <3>2 DEF IInv, BlankFresh
      <4> QED
        BY <4>1 DEF IsInjective
    <3>3. CASE p \in Attached /\ p # n
      <4>1. kids'[p] = kids[p]
        BY <1>1, <1>7, <3>3 DEF Document
      <4> QED
        BY <3>3, <4>1 DEF IInv, OneParent
    <3> QED
      BY <1>11, <3>1, <3>2, <3>3
  <2> QED
    BY <2>3, <2>4, <2>5 DEF OneParent
<1>13. BlankFresh'
  BY <1>3, <1>4, <1>7 DEF BlankFresh, IInv
<1>14. {leaf} \subseteq Fresh..used'
  BY <1>3
<1>15. IInv' /\ Attached' \subseteq Attached \cup (Fresh..used')
  BY <1>8, <1>11, <1>12, <1>13, <1>14 DEF IInv
<1>16. leaf = used' /\ leaf \notin 1..used
  BY <1>4
<1> QED
  BY <1>10, <1>11, <1>15, <1>16
-----------------------------------------------------------------------------
\* The documents to start from.
LEMMA ParsedTree ==
  ASSUME NEW f \in Formats
  PROVE  /\ \A n \in 1..4 : Shape(f)[n] \in Kinds
         /\ \A n \in 1..4 : Children(f)[n] \in Seq(1..4) /\ IsInjective(Children(f)[n])
         /\ \A n \in 1..4 : 1 \notin ToSet(Children(f)[n])
         /\ \A n, m \in 1..4 : ToSet(Children(f)[n]) \cap ToSet(Children(f)[m]) # {} => n = m
<1>1. f \in {"text", "json", "yaml", "markdown", "html", "xml"}
  BY TreeAssumption
<1>2. 1..4 = {1, 2, 3, 4}
  OBVIOUS
<1>3. \A n \in {1, 2, 3, 4} : Shape(f)[n] \in Kinds
  BY <1>1 DEF Shape, Kinds
<1>4. /\ ToSet(<<>>) = {} /\ IsInjective(<<>>)
      /\ \A a : ToSet(<<a>>) = {a} /\ IsInjective(<<a>>)
      /\ \A a, b : ToSet(<<a, b>>) = {a, b} /\ (a # b => IsInjective(<<a, b>>))
      /\ ToSet(<<2, 3, 4>>) = {2, 3, 4} /\ IsInjective(<<2, 3, 4>>)
  <2>1. ToSet(<<>>) = {} /\ IsInjective(<<>>)
    BY DEF ToSet, IsInjective
  <2>2. ASSUME NEW a
        PROVE  ToSet(<<a>>) = {a} /\ IsInjective(<<a>>)
    <3>1. DOMAIN <<a>> = {1} /\ <<a>>[1] = a
      OBVIOUS
    <3> QED
      BY <3>1 DEF ToSet, IsInjective
  <2>3. ASSUME NEW a, NEW b
        PROVE  ToSet(<<a, b>>) = {a, b} /\ (a # b => IsInjective(<<a, b>>))
    <3>1. DOMAIN <<a, b>> = {1, 2} /\ <<a, b>>[1] = a /\ <<a, b>>[2] = b
      OBVIOUS
    <3> QED
      BY <3>1 DEF ToSet, IsInjective
  <2>4. ToSet(<<2, 3, 4>>) = {2, 3, 4} /\ IsInjective(<<2, 3, 4>>)
    <3>1. /\ DOMAIN <<2, 3, 4>> = {1, 2, 3}
          /\ <<2, 3, 4>>[1] = 2 /\ <<2, 3, 4>>[2] = 3 /\ <<2, 3, 4>>[3] = 4
      OBVIOUS
    <3> QED
      BY <3>1 DEF ToSet, IsInjective
  <2> QED
    BY <2>1, <2>2, <2>3, <2>4
<1> DEFINE Fits(s) == s \in Seq(1..4) /\ IsInjective(s)
<1>5. /\ Fits(<<>>) /\ Fits(<<2>>) /\ Fits(<<4>>) /\ Fits(<<2, 3>>) /\ Fits(<<3, 4>>)
      /\ Fits(<<2, 3, 4>>)
  <2>1. <<>> \in Seq(1..4) /\ <<2, 3, 4>> \in Seq(1..4)
    OBVIOUS
  <2>2. \A a \in 1..4 : <<a>> \in Seq(1..4)
    OBVIOUS
  <2>3. \A a, b \in 1..4 : <<a, b>> \in Seq(1..4)
    OBVIOUS
  <2>4. 2 \in 1..4 /\ 3 \in 1..4 /\ 4 \in 1..4 /\ 2 # 3 /\ 3 # 4
    OBVIOUS
  <2> QED
    BY <1>4, <2>1, <2>2, <2>3, <2>4
<1> HIDE DEF Fits
<1>6. SUFFICES /\ \A n \in 1..4 : Fits(Children(f)[n])
               /\ \A n \in 1..4 : 1 \notin ToSet(Children(f)[n])
               /\ \A n, m \in 1..4 :
                    ToSet(Children(f)[n]) \cap ToSet(Children(f)[m]) # {} => n = m
  BY <1>2, <1>3 DEF Fits
<1>7. CASE f \in {"text", "json", "xml"}
  <2>1. /\ Children(f)[1] = <<2>> /\ Children(f)[2] = <<3, 4>>
        /\ Children(f)[3] = <<>> /\ Children(f)[4] = <<>>
    BY <1>7 DEF Children
  <2>2. \A n \in {1, 2, 3, 4} : Fits(Children(f)[n])
    BY <1>5, <2>1
  <2>3. /\ ToSet(Children(f)[1]) = {2}
        /\ ToSet(Children(f)[2]) = {3, 4}
        /\ ToSet(Children(f)[3]) = {}
        /\ ToSet(Children(f)[4]) = {}
    BY <1>4, <2>1
  <2> QED
    BY <1>2, <2>2, <2>3
<1>8. CASE f = "yaml"
  <2>1. /\ Children(f)[1] = <<2, 3, 4>> /\ Children(f)[2] = <<>>
        /\ Children(f)[3] = <<>> /\ Children(f)[4] = <<>>
    BY <1>8 DEF Children
  <2>2. \A n \in {1, 2, 3, 4} : Fits(Children(f)[n])
    BY <1>5, <2>1
  <2>3. /\ ToSet(Children(f)[1]) = {2, 3, 4}
        /\ ToSet(Children(f)[2]) = {}
        /\ ToSet(Children(f)[3]) = {}
        /\ ToSet(Children(f)[4]) = {}
    BY <1>4, <2>1
  <2> QED
    BY <1>2, <2>2, <2>3
<1>9. CASE f \in {"markdown", "html"}
  <2>1. /\ Children(f)[1] = <<2, 3>> /\ Children(f)[2] = <<>>
        /\ Children(f)[3] = <<4>> /\ Children(f)[4] = <<>>
    BY <1>9 DEF Children
  <2>2. \A n \in {1, 2, 3, 4} : Fits(Children(f)[n])
    BY <1>5, <2>1
  <2>3. /\ ToSet(Children(f)[1]) = {2, 3}
        /\ ToSet(Children(f)[2]) = {}
        /\ ToSet(Children(f)[3]) = {4}
        /\ ToSet(Children(f)[4]) = {}
    BY <1>4, <2>1
  <2> QED
    BY <1>2, <2>2, <2>3
<1> QED
  BY <1>1, <1>7, <1>8, <1>9

LEMMA InitInv == Init => IInv
<1> SUFFICES ASSUME Init
             PROVE  IInv
  OBVIOUS
<1>1. format \in Formats /\ used = 4 /\ 1..4 \subseteq Node /\ Node \subseteq Nat \ {0}
  BY TreeAssumption DEF Init
<1>2. /\ \A n \in 1..4 : Shape(format)[n] \in Kinds
      /\ \A n \in 1..4 : Children(format)[n] \in Seq(1..4) /\ IsInjective(Children(format)[n])
      /\ \A n \in 1..4 : 1 \notin ToSet(Children(format)[n])
      /\ \A n, m \in 1..4 :
           ToSet(Children(format)[n]) \cap ToSet(Children(format)[m]) # {} => n = m
  BY <1>1, ParsedTree
<1>3. \A n \in Node : n <= 4 <=> n \in 1..4
  BY <1>1
<1>4. kids \in [Node -> Seq(1..used)]
  <2>1. \A n \in Node : (IF n <= 4 THEN Children(format)[n] ELSE <<>>) \in Seq(1..4)
    BY <1>2, <1>3
  <2> QED
    BY <1>1, <2>1 DEF Init
<1>5. TypeOK
  <2>1. kind \in [Node -> Kinds]
    <3>1. \A n \in Node : (IF n <= 4 THEN Shape(format)[n] ELSE "none") \in Kinds
      BY <1>2, <1>3 DEF Kinds
    <3> QED
      BY <3>1 DEF Init
  <2>2. word \in [Node -> Node \cup {0}]
    BY DEF Init
  <2>3. key \in [Node -> BOOLEAN] /\ mute \in [Node -> BOOLEAN]
    BY DEF Init
  <2>4. source \in [Node -> Seq(Node)]
    <3>1. <<2, 3, 4>> \in Seq(Node) /\ <<3, 4>> \in Seq(Node) /\ <<>> \in Seq(Node)
      BY <1>1
    <3>2. \A n \in Node : <<n>> \in Seq(Node)
      OBVIOUS
    <3> QED
      BY <3>1, <3>2 DEF Init, Snapshot
  <2>5. used \in Node /\ index \subseteq 1..used /\ careless \in BOOLEAN
    <3>1. used = 4 /\ 4 \in Node /\ index = 1..4 /\ careless = FALSE
      BY TreeAssumption DEF Init
    <3> QED
      BY <3>1
  <2>6. ops \in 0..MaxOps
    BY TreeAssumption DEF Init
  <2> QED
    BY <1>1, <1>4, <2>1, <2>2, <2>3, <2>4, <2>5, <2>6 DEF TypeOK
<1>6. Document
  BY <1>5, DocumentNow
<1>7. \A n \in 1..4 : kids[n] = Children(format)[n] /\ Kid(n) = ToSet(Children(format)[n])
  BY <1>1, <1>3, <1>6 DEF Init, Document
<1>8. BlankFresh
  BY <1>1, <1>3 DEF BlankFresh, Init
<1>9. OneParent
  <2>1. Attached \subseteq 1..4
    BY <1>1, <1>6 DEF Document
  <2> QED
    BY <1>2, <1>7, <2>1 DEF OneParent, Root
<1> QED
  BY <1>5, <1>8, <1>9 DEF IInv

-----------------------------------------------------------------------------
LEMMA NextInv ==
  ASSUME IInv, [Next]_vars
  PROVE  IInv' /\ \A n \in (1..used) \ Attached : n \notin Attached'
<1>1. TypeOK /\ Document
  BY DocumentNow DEF IInv
<1>2. CASE Next
  <2>1. ops' \in 0..MaxOps
    BY <1>1, <1>2, TreeAssumption DEF Next, TypeOK
  <2>2. \A n \in 1..used : n \notin Fresh..used'
    BY <1>1 DEF Document, Fresh
  <2>3. Operate
    BY <1>2 DEF Next
  <2>4. CASE \E parent \in index, k \in NestKinds \cup {LeafKind} : Insert(parent, k)
    BY <2>1, <2>2, <2>4, InsertStep
  <2>5. CASE \E n \in index : Delete(n)
    BY <2>1, <2>5, DeleteStep
  <2>6. CASE \E n \in index : Move(n)
    BY <2>1, <2>6, MoveStep
  <2>7. CASE \E n \in index, k \in NestKinds \cup {LeafKind} : Replace(n, k)
    BY <2>1, <2>2, <2>7, ReplaceStep
  <2> QED
    BY <2>3, <2>4, <2>5, <2>6, <2>7 DEF Operate
<1>3. CASE UNCHANGED vars
  <2>1. Attached' = Attached
    BY <1>3 DEF vars, Attached, Below, Walked, Parental, Kid
  <2>2. \A x \in Node : Kid(x)' = Kid(x)
    BY <1>3 DEF vars, Kid
  <2>3. TypeOK' /\ BlankFresh'
    BY <1>1, <1>3 DEF vars, payload, TypeOK, BlankFresh, IInv
  <2>4. OneParent'
    <3>1. Attached \subseteq Node /\ kids' = kids
      BY <1>1, <1>3 DEF Document, vars
    <3> QED
      BY <2>1, <2>2, <3>1 DEF OneParent, IInv
  <2> QED
    BY <2>1, <2>3, <2>4 DEF IInv
<1> QED
  BY <1>2, <1>3

LEMMA Inductive == Spec => []IInv
<1>1. Init => IInv
  BY InitInv
<1>2. IInv /\ [Next]_vars => IInv'
  BY NextInv
<1> QED
  BY <1>1, <1>2, PTL DEF Spec

\* In a document every node but the root has a parent, and OneParent says
\* that it has no two: a walk would not come to it otherwise.
LEMMA TreeShape == IInv => AttachedIsTree
<1> SUFFICES ASSUME IInv
             PROVE  AttachedIsTree
  OBVIOUS
<1>1. Document
  BY DocumentNow DEF IInv
<1> DEFINE parents(n) == {p \in Attached : n \in Kid(p)}
           S == {n \in Attached : n = Root \/ parents(n) # {}}
<1>2. Attached \subseteq S
  <2>1. Root \in S
    BY <1>1 DEF Document
  <2>2. \A p \in S : Kid(p) \subseteq S
    BY <1>1 DEF Document
  <2> HIDE DEF S
  <2> QED
    BY <1>1, <2>1, <2>2 DEF Document
<1>3. ASSUME NEW n \in Attached \ {Root}
      PROVE  Cardinality(parents(n)) = 1
  <2>1. PICK p \in Attached : n \in Kid(p)
    BY <1>2
  <2>2. parents(n) = {p}
    BY <2>1 DEF IInv, OneParent
  <2> HIDE DEF parents
  <2> QED
    BY <2>2, FS_Singleton
<1>4. parents(Root) = {}
  BY DEF IInv, OneParent
<1>5. \A n \in Attached : IsInjective(kids[n])
  BY DEF IInv, OneParent
<1> QED
  BY <1>3, <1>4, <1>5 DEF AttachedIsTree

-----------------------------------------------------------------------------
(* The text.  A list of which every element is wanted is the list.          *)

\* A set of numbers has a least one.
LEMMA LeastNumber ==
  ASSUME NEW n \in Nat, NEW K \in SUBSET (0..n), K # {}
  PROVE  \E i \in K : \A j \in K : i <= j
<1> DEFINE Up(i) == 0..i
           Ups == {Up(i) : i \in K}
           Sets == SUBSET (0..n)
           R == StrictSubsetOrdering(0..n)
<1>1. IsWellFoundedOn(R, Sets)
  <2>1. IsFiniteSet(0..n)
    BY FS_Interval
  <2>2. FiniteSubsetsOf(0..n) = SUBSET (0..n)
    BY <2>1, FS_FiniteSubsetsOfFinite
  <2>3. QED BY <2>2, FS_StrictSubsetOrderingWellFounded
<1>2. Ups \subseteq Sets /\ Ups # {}
  <2>1. ASSUME NEW i \in K PROVE Up(i) \in Sets
    OBVIOUS
  <2>2. PICK k : k \in K
    OBVIOUS
  <2>3. Up(k) \in Ups
    BY <2>2
  <2> HIDE DEF Up, Sets
  <2>4. QED BY <2>1, <2>3
<1>3. \E x \in Ups : \A y \in Ups : ~(<<y, x>> \in R)
  <2> HIDE DEF Ups, R, Sets
  <2> QED BY <1>1, <1>2, WFMin
<1>4. PICK i \in K : \A y \in Ups : ~(<<y, Up(i)>> \in R)
  BY <1>3
<1>5. ASSUME NEW j \in K, ~(i <= j) PROVE FALSE
  <2>1. Up(j) \subseteq Up(i) /\ i \in Up(i) /\ i \notin Up(j) /\ i \in Nat /\ j \in Nat
    BY <1>5
  <2>2. <<Up(j), Up(i)>> \in R
    BY <2>1 DEF StrictSubsetOrdering
  <2>3. QED BY <1>4, <2>2
<1>6. QED BY <1>5

LEMMA AmongAll ==
  ASSUME NEW T, NEW s \in Seq(T), NEW S, \A i \in 1..Len(s) : s[i] \in S
  PROVE  Among(s, S) = s
<1> DEFINE Step(f) == [i \in 0..Len(s) |->
                        IF i = 0 THEN <<>>
                        ELSE f[i - 1] \o (IF s[i] \in S THEN <<s[i]>> ELSE <<>>)]
           among == CHOOSE f : f = Step(f)
           F == [i \in 0..Len(s) |-> SubSeq(s, 1, i)]
<1>1. Len(s) \in Nat
  OBVIOUS
<1>2. Among(s, S) = among[Len(s)]
  BY DEF Among
<1>3. ASSUME NEW i \in 0..Len(s)
      PROVE  F[i] = IF i = 0 THEN <<>>
                    ELSE F[i - 1] \o (IF s[i] \in S THEN <<s[i]>> ELSE <<>>)
  <2>1. CASE i = 0
    BY <2>1
  <2>2. CASE i # 0
    <3>1. i \in 1..Len(s) /\ i - 1 \in 0..Len(s) /\ s[i] \in S
      BY <1>1, <2>2
    <3>2. SubSeq(s, 1, i - 1) \o <<s[i]>> = SubSeq(s, 1, i)
      BY <3>1
    <3> QED
      BY <2>2, <3>1, <3>2
  <2> QED
    BY <2>1, <2>2
<1>4. F = Step(F)
  <2> HIDE DEF F
  <2> SUFFICES F = [i \in 0..Len(s) |->
                     IF i = 0 THEN <<>>
                     ELSE F[i - 1] \o (IF s[i] \in S THEN <<s[i]>> ELSE <<>>)]
    OBVIOUS
  <2> QED
    BY <1>3 DEF F
<1> HIDE DEF F
<1>5. among = Step(among)
  BY <1>4
<1> HIDE DEF among
<1> DEFINE K == {i \in 0..Len(s) : among[i] # F[i]}
<1>6. K = {}
  <2> SUFFICES ASSUME K # {}
               PROVE  FALSE
    OBVIOUS
  <2>1. PICK i \in K : \A j \in K : i <= j
    BY <1>1, LeastNumber
  <2>2. i \in 0..Len(s) /\ among[i] # F[i]
    OBVIOUS
  <2>3. among[i] = IF i = 0 THEN <<>>
                   ELSE among[i - 1] \o (IF s[i] \in S THEN <<s[i]>> ELSE <<>>)
    BY <1>5, <2>2
  <2>4. i # 0
    BY <1>3, <2>2, <2>3
  <2>5. i - 1 \in 0..Len(s) /\ ~(i <= i - 1)
    BY <1>1, <2>2, <2>4
  <2>6. among[i - 1] = F[i - 1]
    BY <2>1, <2>5
  <2> QED
    BY <1>3, <2>2, <2>3, <2>4, <2>6
<1>7. among[Len(s)] = F[Len(s)]
  BY <1>1, <1>6
<1>8. F[Len(s)] = s
  BY <1>1 DEF F
<1> QED
  BY <1>2, <1>7, <1>8

-----------------------------------------------------------------------------
(* The documents of a client that keeps to live addresses and fitting       *)
(* places have the shape of a text of their format, and no node of a format *)
(* that renders its tree keeps what it was parsed from.                     *)
FormatKinds ==
  CASE format = "text" -> {"root", "paragraph", "line"}
    [] format = "json" -> {"root", "mapping", "sequence", "scalar"}
    [] OTHER -> {"root", "element"}

NothingKept == format \in {"text", "json", "xml"} => \A n \in Node : source[n] = <<>>

Regular ==
  format \in {"text", "json", "xml"} /\ ~careless =>
    /\ \A n \in Attached : kind[n] \in FormatKinds /\ (kind[n] = "root" <=> n = Root)
    /\ format = "text" => \A n \in Attached : \A m \in Kid(n) : Suits(n, kind[m])
    /\ format = "json" => \A n \in Attached :
         /\ kind[n] = "mapping" => \A m \in Kid(n) : key[m]
         /\ kind[n] = "scalar" => Kid(n) = {}
    /\ format # "text" => \A a, b \in Kid(Root) : a = b

\* A node of the document other than its root hangs below another.
LEMMA ParentInTree ==
  ASSUME IInv, NEW n \in Attached, n # Root
  PROVE  HasParent(n)
<1>1. Document
  BY DocumentNow DEF IInv
<1> DEFINE S == {m \in Attached : m = Root \/ \E p \in Attached : m \in Kid(p)}
<1>2. Attached \subseteq S
  <2>1. Root \in S
    BY <1>1 DEF Document
  <2>2. \A p \in S : Kid(p) \subseteq S
    BY <1>1 DEF Document
  <2> HIDE DEF S
  <2> QED
    BY <1>1, <2>1, <2>2 DEF Document
<1> QED
  BY <1>2 DEF HasParent, Parents

\* A block of source is a leaf, or what may nest with one leaf below it.
LEMMA KindsOfBlocks ==
  ASSUME format \in {"text", "json", "xml"}, NEW k \in NestKinds \cup {LeafKind}
  PROVE  /\ k \in FormatKinds /\ k # "root" /\ LeafKind \in FormatKinds /\ LeafKind # "root"
         /\ format = "text" => LeafKind = "line" /\ (k # LeafKind => k = "paragraph")
         /\ format = "json" => LeafKind = "scalar" /\ (k # LeafKind => k \in {"sequence", "mapping"})
         /\ format = "xml" => k = LeafKind
BY DEF NestKinds, LeafKind, FormatKinds

LEMMA RegularInit == Init => NothingKept /\ Regular
<1> SUFFICES ASSUME Init
             PROVE  NothingKept /\ Regular
  OBVIOUS
<1>1. IInv /\ Document
  BY InitInv, DocumentNow DEF IInv
<1>2. NothingKept
  BY DEF Init, NothingKept, Snapshot
<1>3. ASSUME format \in {"text", "json", "xml"}
      PROVE  Regular
  <2>1. used = 4 /\ 1..4 = {1, 2, 3, 4} /\ {1, 2, 3, 4} \subseteq Node /\ Attached \subseteq {1, 2, 3, 4}
    BY <1>1 DEF Init, Document
  <2>2. kids[1] = <<2>> /\ kids[2] = <<3, 4>> /\ kids[3] = <<>> /\ kids[4] = <<>>
    BY <1>3, <2>1 DEF Init, Children
  <2>3. Kid(1) = {2} /\ Kid(2) = {3, 4} /\ Kid(3) = {} /\ Kid(4) = {}
    <3>1. /\ DOMAIN <<2>> = {1} /\ <<2>>[1] = 2
          /\ DOMAIN <<3, 4>> = {1, 2} /\ <<3, 4>>[1] = 3 /\ <<3, 4>>[2] = 4
          /\ DOMAIN <<>> = {}
      OBVIOUS
    <3> QED
      BY <2>2, <3>1 DEF Kid
  <2>4. /\ kind[1] = Shape(format)[1] /\ kind[2] = Shape(format)[2]
        /\ kind[3] = Shape(format)[3] /\ kind[4] = Shape(format)[4]
    BY <2>1 DEF Init
  <2>5. format = "json" => key[3] /\ key[4]
    BY <2>1 DEF Init
  <2>6. CASE format = "text"
    BY <2>1, <2>3, <2>4, <2>6 DEF Regular, Shape, FormatKinds, Suits, Root
  <2>7. CASE format = "json"
    BY <2>1, <2>3, <2>4, <2>5, <2>7 DEF Regular, Shape, FormatKinds, Root
  <2>8. CASE format = "xml"
    BY <2>1, <2>3, <2>4, <2>8 DEF Regular, Shape, FormatKinds, Root
  <2> QED
    BY <1>3, <2>6, <2>7, <2>8
<1>4. format \notin {"text", "json", "xml"} => Regular
  BY DEF Regular
<1> QED
  BY <1>2, <1>3, <1>4

LEMMA NothingKeptStep ==
  ASSUME IInv, NothingKept, [Next]_vars
  PROVE  NothingKept'
<1>1. TypeOK /\ Document /\ source \in [Node -> Seq(Node)]
  BY DocumentNow DEF IInv, TypeOK
<1>2. format' = format
  BY DEF Next, Operate, Insert, Delete, Move, Replace, vars
<1> SUFFICES ASSUME format \in {"text", "json", "xml"}
             PROVE  \A n \in Node : source'[n] = <<>>
  BY <1>2 DEF NothingKept
<1>3. \A n \in Node : source[n] = <<>>
  BY DEF NothingKept
<1>4. CASE UNCHANGED source
  BY <1>3, <1>4
<1>5. CASE \E n \in index : source' = [source EXCEPT ![n] = <<>>]
  BY <1>1, <1>3, <1>5
<1>6. UNCHANGED source \/ \E n \in index : source' = [source EXCEPT ![n] = <<>>]
  <2>1. CASE UNCHANGED vars
    BY <2>1 DEF vars, payload
  <2>2. CASE \E parent \in index, k \in NestKinds \cup {LeafKind} : Insert(parent, k)
    BY <2>2 DEF Insert, Block
  <2>3. CASE \E n \in index : Delete(n)
    BY <2>3 DEF Delete, payload
  <2>4. CASE \E n \in index : Move(n)
    BY <2>4 DEF Move, payload
  <2>5. CASE \E n \in index, k \in NestKinds \cup {LeafKind} : Replace(n, k)
    BY <2>5 DEF Replace
  <2> QED
    BY <2>1, <2>2, <2>3, <2>4, <2>5 DEF Next, Operate
<1> QED
  BY <1>4, <1>5, <1>6

\* What the block gives its nodes, and what it leaves as it was.
LEMMA BlockKinds ==
  ASSUME TypeOK, NEW k \in NestKinds \cup {LeafKind}, Block(k),
         NEW new \in Node, NEW leaf \in Node, new = Fresh, leaf = used',
         new \notin 1..used, leaf \notin 1..used
  PROVE  /\ kind'[new] = k /\ kind'[leaf] = LeafKind
         /\ k = LeafKind <=> leaf = new
         /\ k = "mapping" => key'[leaf]
         /\ \A n \in Node \cap (1..used) : kind'[n] = kind[n] /\ key'[n] = key[n]
<1>1. used \in Nat /\ (k = LeafKind <=> leaf = new)
  BY KidsTyped DEF Block, Fresh
<1>2. kind' = [kind EXCEPT ![new] = k, ![leaf] = LeafKind] /\ kind \in [Node -> Kinds]
  BY DEF Block, TypeOK
<1>3. \E b : key' = [key EXCEPT ![leaf] = b] /\ (k = "mapping" => b) /\ key \in [Node -> BOOLEAN]
  BY DEF Block, TypeOK
<1>4. kind'[new] = k /\ kind'[leaf] = LeafKind
  BY <1>1, <1>2
<1>5. k = "mapping" => key'[leaf]
  BY <1>3
<1>6. \A n \in Node \cap (1..used) : kind'[n] = kind[n] /\ key'[n] = key[n]
  BY <1>2, <1>3
<1> QED
  BY <1>1, <1>4, <1>5, <1>6

LEMMA RegularInsert ==
  ASSUME IInv, Regular, ops' \in 0..MaxOps,
         NEW parent \in index, NEW k \in NestKinds \cup {LeafKind}, Insert(parent, k)
  PROVE  Regular'
<1>1. TypeOK /\ Document
  BY DocumentNow DEF IInv
<1>2. format' = format
  BY DEF Insert
<1> SUFFICES ASSUME format \in {"text", "json", "xml"}, ~careless'
             PROVE  Regular'
  BY <1>2 DEF Regular
<1>3. parent \in Attached /\ Suits(parent, k) /\ ~careless
  BY DEF Insert
<1>4. PICK new \in Node, leaf \in Node :
        /\ new = Fresh /\ leaf = used' /\ new \notin 1..used /\ leaf \notin 1..used
        /\ Attached' \subseteq Attached \cup {new, leaf}
        /\ Kid(parent)' = Kid(parent) \cup {new}
        /\ Kid(new)' \subseteq {leaf} /\ (leaf = new => Kid(new)' = {})
        /\ \A n \in 1..used : n # parent => Kid(n)' = Kid(n)
        /\ leaf # new => Kid(leaf)' = {}
  BY InsertStep
<1>5. /\ kind'[new] = k /\ kind'[leaf] = LeafKind
      /\ k = LeafKind <=> leaf = new
      /\ k = "mapping" => key'[leaf]
      /\ \A n \in Node \cap (1..used) : kind'[n] = kind[n] /\ key'[n] = key[n]
  BY <1>1, <1>4, BlockKinds DEF Insert
<1>6. /\ \A n \in Attached : n \in 1..used /\ n \in Node
      /\ \A n \in Attached : \A m \in Kid(n) : m \in Attached
      /\ Root \in 1..used
  BY <1>1 DEF Document
<1>7. /\ \A n \in Attached : kind'[n] = kind[n] /\ key'[n] = key[n]
      /\ \A n \in Attached : n # parent => Kid(n)' = Kid(n)
      /\ \A n \in Attached' : n \in Attached \/ n = new \/ n = leaf
      /\ \A n \in Attached' : n = leaf => n = new \/ Kid(n)' = {}
  BY <1>4, <1>5, <1>6
<1>8. /\ k \in FormatKinds /\ k # "root" /\ LeafKind \in FormatKinds /\ LeafKind # "root"
      /\ format = "text" => LeafKind = "line" /\ (k # LeafKind => k = "paragraph")
      /\ format = "json" => LeafKind = "scalar" /\ (k # LeafKind => k \in {"sequence", "mapping"})
      /\ format = "xml" => k = LeafKind
  BY KindsOfBlocks
<1>9. \A n \in Attached' : kind'[n] \in FormatKinds' /\ (kind'[n] = "root" <=> n = Root)
  <2>1. FormatKinds' = FormatKinds
    BY <1>2 DEF FormatKinds
  <2>2. \A n \in Attached : kind[n] \in FormatKinds /\ (kind[n] = "root" <=> n = Root)
    BY <1>3 DEF Regular
  <2> QED
    BY <1>4, <1>5, <1>6, <1>7, <1>8, <2>1, <2>2
<1>10. ASSUME format = "text", NEW n \in Attached', NEW m \in Kid(n)'
       PROVE  Suits(n, kind[m])'
  <2>1. SUFFICES \/ kind'[n] = "root" /\ kind'[m] = "paragraph"
                 \/ kind'[n] = "paragraph" /\ kind'[m] = "line"
    BY <1>2, <1>10 DEF Suits
  <2>2. \A p \in Attached : \A c \in Kid(p) :
          \/ kind[p] = "root" /\ kind[c] = "paragraph"
          \/ kind[p] = "paragraph" /\ kind[c] = "line"
    BY <1>3, <1>10 DEF Regular, Suits
  <2>3. \/ kind[parent] = "root" /\ k = "paragraph"
        \/ kind[parent] = "paragraph" /\ k = "line"
    BY <1>3, <1>10 DEF Suits
  <2>4. CASE n \in Attached /\ m \in Kid(n)
    BY <1>6, <1>7, <2>2, <2>4
  <2>5. CASE n = parent /\ m = new
    BY <1>3, <1>5, <1>7, <2>3, <2>5
  <2>6. CASE n = new
    <3>1. m = leaf /\ leaf # new
      BY <1>4, <1>10, <2>6
    <3> QED
      BY <1>5, <1>8, <1>10, <2>6, <3>1
  <2> QED
    BY <1>4, <1>7, <1>10, <2>4, <2>5, <2>6
<1>11. ASSUME format = "json", NEW n \in Attached'
       PROVE  /\ kind'[n] = "mapping" => \A m \in Kid(n)' : key'[m]
              /\ kind'[n] = "scalar" => Kid(n)' = {}
  <2>1. \A p \in Attached :
          /\ kind[p] = "mapping" => \A c \in Kid(p) : key[c]
          /\ kind[p] = "scalar" => Kid(p) = {}
    BY <1>3, <1>11 DEF Regular
  <2>2. kind[parent] = "sequence"
    BY <1>3, <1>11 DEF Suits
  <2>3. CASE n \in Attached /\ n # parent
    BY <1>6, <1>7, <2>1, <2>3
  <2>4. CASE n = parent
    BY <1>3, <1>7, <2>2, <2>4
  <2>5. CASE n = new
    BY <1>4, <1>5, <1>8, <1>11, <2>5
  <2>6. CASE n = leaf /\ n # new
    BY <1>7, <2>6
  <2> QED
    BY <1>7, <2>3, <2>4, <2>5, <2>6
<1>12. ASSUME format # "text"
       PROVE  \A a, b \in Kid(Root)' : a = b
  <2>1. kind[parent] # "root"
    BY <1>3, <1>12 DEF Suits
  <2>2. parent # Root
    BY <1>3, <2>1 DEF Regular
  <2>3. Kid(Root)' = Kid(Root)
    BY <1>1, <1>7, <2>2 DEF Document
  <2> QED
    BY <1>3, <1>12, <2>3 DEF Regular
<1> QED
  BY <1>2, <1>9, <1>10, <1>11, <1>12 DEF Regular

LEMMA RegularDelete ==
  ASSUME IInv, Regular, ops' \in 0..MaxOps, NEW n \in index, Delete(n)
  PROVE  Regular'
<1>1. Document
  BY DocumentNow DEF IInv
<1>2. Attached' \subseteq Attached /\ \A x \in Node : Kid(x)' \subseteq Kid(x)
  BY DeleteStep
<1>3. UNCHANGED <<format, kind, key, careless>> /\ Attached \subseteq Node /\ Root \in Node
  BY <1>1 DEF Delete, payload, Document
<1>4. \A x \in Attached' : \A k : Suits(x, k)' = Suits(x, k)
  BY <1>3 DEF Suits
<1>5. FormatKinds' = FormatKinds
  BY <1>3 DEF FormatKinds
<1> QED
  BY <1>2, <1>3, <1>4, <1>5 DEF Regular

LEMMA RegularMove ==
  ASSUME IInv, Regular, ops' \in 0..MaxOps, NEW n \in index, Move(n)
  PROVE  Regular'
<1>1. Document
  BY DocumentNow DEF IInv
<1>2. UNCHANGED <<format, kind, key>> /\ Attached \subseteq Node /\ Root \in Node
  BY <1>1 DEF Move, payload, Document
<1> SUFFICES ASSUME format \in {"text", "json", "xml"}, ~careless'
             PROVE  Regular'
  BY <1>2 DEF Regular
<1>3. Attached' \subseteq Attached
  BY MoveStep
<1>4. PICK target \in index :
        /\ careless' = (careless \/ target = n \/ target \notin Attached \/ ~Suits(target, kind[n]))
        /\ \A x \in Node : x # target => Kid(x)' \subseteq Kid(x)
        /\ Kid(target)' \subseteq Kid(target) \cup {n}
  BY MoveStep
<1>5. ~careless /\ target \in Attached /\ Suits(target, kind[n])
  BY <1>4
<1>6. FormatKinds' = FormatKinds
  BY <1>2 DEF FormatKinds
<1>7. \A x \in Attached' : kind'[x] \in FormatKinds' /\ (kind'[x] = "root" <=> x = Root)
  BY <1>2, <1>3, <1>5, <1>6 DEF Regular
<1>8. ASSUME format = "text", NEW x \in Attached', NEW m \in Kid(x)'
      PROVE  Suits(x, kind[m])'
  <2>1. SUFFICES Suits(x, kind[m])
    BY <1>2 DEF Suits
  <2>2. m \in Kid(x) \/ (x = target /\ m = n)
    BY <1>2, <1>3, <1>4, <1>8
  <2> QED
    BY <1>3, <1>5, <1>8, <2>2 DEF Regular
<1>9. ASSUME format = "json", NEW x \in Attached'
      PROVE  /\ kind'[x] = "mapping" => \A m \in Kid(x)' : key'[m]
             /\ kind'[x] = "scalar" => Kid(x)' = {}
  <2>1. kind[target] = "sequence"
    BY <1>5, <1>9 DEF Suits
  <2>2. CASE x = target
    BY <1>2, <2>1, <2>2
  <2>3. CASE x # target
    <3>1. Kid(x)' \subseteq Kid(x) /\ x \in Attached
      BY <1>2, <1>3, <1>4, <2>3
    <3> QED
      BY <1>2, <1>5, <1>9, <3>1 DEF Regular
  <2> QED
    BY <2>2, <2>3
<1>10. ASSUME format # "text"
       PROVE  \A a, b \in Kid(Root)' : a = b
  <2>1. kind[target] # "root"
    BY <1>5, <1>10 DEF Suits
  <2>2. target # Root
    BY <1>5, <2>1 DEF Regular
  <2>3. Kid(Root)' \subseteq Kid(Root)
    BY <1>2, <1>4, <2>2
  <2> QED
    BY <1>5, <1>10, <2>3 DEF Regular
<1> QED
  BY <1>2, <1>7, <1>8, <1>9, <1>10 DEF Regular

\* What the block gives the replaced node, and what it leaves as it was.
LEMMA ReplacedKinds ==
  ASSUME TypeOK, NEW n \in index, NEW k \in NestKinds \cup {LeafKind}, Replace(n, k),
         NEW leaf \in Node, leaf = used', leaf \notin 1..used, n \in Node
  PROVE  /\ kind'[n] = k /\ (k # LeafKind => kind'[leaf] = LeafKind)
         /\ k = "mapping" => key'[leaf]
         /\ \A x \in Node \cap (1..used) : x # n => kind'[x] = kind[x] /\ key'[x] = key[x]
<1>1. PICK own : kind' = [kind EXCEPT ![leaf] = own, ![n] = k] /\ (k # LeafKind => own = LeafKind)
  BY DEF Replace
<1>2. \E b : key' = [key EXCEPT ![n] = FALSE, ![leaf] = b] /\ (k = "mapping" => b)
  BY DEF Replace
<1>3. kind \in [Node -> Kinds] /\ key \in [Node -> BOOLEAN] /\ n \in 1..used /\ n # leaf
  BY DEF TypeOK
<1>4. kind'[n] = k /\ (k # LeafKind => kind'[leaf] = LeafKind)
  BY <1>1, <1>3
<1>5. k = "mapping" => key'[leaf]
  BY <1>2, <1>3
<1>6. \A x \in Node \cap (1..used) : x # n => kind'[x] = kind[x] /\ key'[x] = key[x]
  BY <1>1, <1>2, <1>3
<1> QED
  BY <1>4, <1>5, <1>6

LEMMA RegularReplace ==
  ASSUME IInv, Regular, ops' \in 0..MaxOps,
         NEW n \in index, NEW k \in NestKinds \cup {LeafKind}, Replace(n, k)
  PROVE  Regular'
<1>1. TypeOK /\ Document
  BY DocumentNow DEF IInv
<1>2. format' = format
  BY DEF Replace
<1> SUFFICES ASSUME format \in {"text", "json", "xml"}, ~careless'
             PROVE  Regular'
  BY <1>2 DEF Regular
<1>3. ~careless /\ n \in Attached /\ n # Root /\ Suits(ParentOf(n), k)
  BY DEF Replace
<1>4. PICK up \in Attached : up = ParentOf(n) /\ n \in Kid(up)
  BY <1>3, ParentInTree, ParentKnown
<1>5. PICK leaf \in Node :
        /\ leaf = used' /\ leaf \notin 1..used
        /\ Attached' \subseteq Attached \cup (IF k = LeafKind THEN {} ELSE {leaf})
        /\ Kid(n)' \subseteq {leaf} /\ (k = LeafKind => Kid(n)' = {})
        /\ Kid(leaf)' = {}
        /\ \A x \in 1..used : x # n => Kid(x)' = Kid(x)
  BY ReplaceStep
<1>6. /\ \A x \in Attached : x \in 1..used /\ x \in Node
      /\ \A x \in Attached : \A m \in Kid(x) : m \in Attached
      /\ Root \in 1..used /\ Root \in Node
  BY <1>1 DEF Document
<1>7. /\ kind'[n] = k /\ (k # LeafKind => kind'[leaf] = LeafKind)
      /\ k = "mapping" => key'[leaf]
      /\ \A x \in Node \cap (1..used) : x # n => kind'[x] = kind[x] /\ key'[x] = key[x]
  BY <1>1, <1>3, <1>5, <1>6, ReplacedKinds
<1>8. /\ \A x \in Attached : x # n => kind'[x] = kind[x] /\ key'[x] = key[x] /\ Kid(x)' = Kid(x)
      /\ \A x \in Attached' : x \in Attached \/ (x = leaf /\ k # LeafKind)
      /\ \A x \in Attached : n \in Kid(x) => x = up
  <2>1. \A x \in Attached : n \in Kid(x) => x = up
    BY <1>4 DEF IInv, OneParent
  <2> QED
    BY <1>5, <1>6, <1>7, <2>1
<1>9. /\ k \in FormatKinds /\ k # "root" /\ LeafKind \in FormatKinds /\ LeafKind # "root"
      /\ format = "text" => LeafKind = "line" /\ (k # LeafKind => k = "paragraph")
      /\ format = "json" => LeafKind = "scalar" /\ (k # LeafKind => k \in {"sequence", "mapping"})
      /\ format = "xml" => k = LeafKind
  BY KindsOfBlocks
<1>10. \A x \in Attached' : kind'[x] \in FormatKinds' /\ (kind'[x] = "root" <=> x = Root)
  <2>1. FormatKinds' = FormatKinds
    BY <1>2 DEF FormatKinds
  <2>2. \A x \in Attached : kind[x] \in FormatKinds /\ (kind[x] = "root" <=> x = Root)
    BY <1>3 DEF Regular
  <2> QED
    BY <1>3, <1>5, <1>6, <1>7, <1>8, <1>9, <2>1, <2>2
<1>11. ASSUME format = "text", NEW x \in Attached', NEW m \in Kid(x)'
       PROVE  Suits(x, kind[m])'
  <2>1. SUFFICES \/ kind'[x] = "root" /\ kind'[m] = "paragraph"
                 \/ kind'[x] = "paragraph" /\ kind'[m] = "line"
    BY <1>2, <1>11 DEF Suits
  <2>2. \A p \in Attached : \A c \in Kid(p) :
          \/ kind[p] = "root" /\ kind[c] = "paragraph"
          \/ kind[p] = "paragraph" /\ kind[c] = "line"
    BY <1>3, <1>11 DEF Regular, Suits
  <2>3. \/ kind[up] = "root" /\ k = "paragraph"
        \/ kind[up] = "paragraph" /\ k = "line"
    BY <1>3, <1>4, <1>11 DEF Suits
  <2>4. CASE x \in Attached /\ x # n /\ m # n
    BY <1>6, <1>8, <1>11, <2>2, <2>4
  <2>5. CASE x \in Attached /\ x # n /\ m = n
    BY <1>7, <1>8, <1>11, <2>3, <2>5
  <2>6. CASE x = n
    <3>1. m = leaf /\ k # LeafKind
      BY <1>5, <1>11, <2>6
    <3> QED
      BY <1>7, <1>9, <1>11, <2>6, <3>1
  <2>7. CASE x = leaf
    BY <1>5, <1>11, <2>7
  <2> QED
    BY <1>8, <2>4, <2>5, <2>6, <2>7
<1>12. ASSUME format = "json", NEW x \in Attached'
       PROVE  /\ kind'[x] = "mapping" => \A m \in Kid(x)' : key'[m]
              /\ kind'[x] = "scalar" => Kid(x)' = {}
  <2>1. \A p \in Attached :
          /\ kind[p] = "mapping" => \A c \in Kid(p) : key[c]
          /\ kind[p] = "scalar" => Kid(p) = {}
    BY <1>3, <1>12 DEF Regular
  <2>2. kind[up] = "sequence"
    BY <1>3, <1>4, <1>12 DEF Suits
  <2>3. CASE x \in Attached /\ x # n
    <3>1. kind'[x] = kind[x] /\ Kid(x)' = Kid(x)
      BY <1>8, <2>3
    <3>2. ASSUME kind[x] = "mapping", NEW m \in Kid(x)
          PROVE  key'[m]
      <4>1. m \in Attached /\ m # n /\ key[m]
        BY <1>6, <1>8, <2>1, <2>2, <2>3, <3>2
      <4> QED
        BY <1>8, <4>1
    <3> QED
      BY <2>1, <2>3, <3>1, <3>2
  <2>4. CASE x = n
    BY <1>5, <1>7, <1>9, <1>12, <2>4
  <2>5. CASE x = leaf
    BY <1>5, <2>5
  <2> QED
    BY <1>8, <2>3, <2>4, <2>5
<1>13. ASSUME format # "text"
       PROVE  \A a, b \in Kid(Root)' : a = b
  <2>1. Kid(Root)' = Kid(Root)
    BY <1>3, <1>5, <1>6
  <2> QED
    BY <1>3, <1>13, <2>1 DEF Regular
<1> QED
  BY <1>2, <1>10, <1>11, <1>12, <1>13 DEF Regular

LEMMA RegularStep ==
  ASSUME IInv, Regular, [Next]_vars
  PROVE  Regular'
<1>1. TypeOK /\ Document
  BY DocumentNow DEF IInv
<1>2. CASE Next
  <2>1. ops' \in 0..MaxOps
    BY <1>1, <1>2, TreeAssumption DEF Next, TypeOK
  <2>2. CASE \E parent \in index, k \in NestKinds \cup {LeafKind} : Insert(parent, k)
    BY <2>1, <2>2, RegularInsert
  <2>3. CASE \E n \in index : Delete(n)
    BY <2>1, <2>3, RegularDelete
  <2>4. CASE \E n \in index : Move(n)
    BY <2>1, <2>4, RegularMove
  <2>5. CASE \E n \in index, k \in NestKinds \cup {LeafKind} : Replace(n, k)
    BY <2>1, <2>5, RegularReplace
  <2> QED
    BY <1>2, <2>2, <2>3, <2>4, <2>5 DEF Next, Operate
<1>3. CASE UNCHANGED vars
  <2>1. /\ Attached' = Attached /\ FormatKinds' = FormatKinds
        /\ UNCHANGED <<format, kind, key, careless, kids>>
    BY <1>3 DEF vars, payload, Attached, Below, Walked, Parental, Kid, FormatKinds
  <2>2. \A x \in Attached' : Kid(x)' = Kid(x) /\ \A k : Suits(x, k)' = Suits(x, k)
    BY <2>1 DEF Kid, Suits
  <2>3. Kid(Root)' = Kid(Root)
    BY <2>1 DEF Kid, Root
  <2> QED
    BY <2>1, <2>2, <2>3 DEF Regular
<1> QED
  BY <1>2, <1>3

LEMMA RegularInductive == Spec => [](IInv /\ NothingKept /\ Regular)
<1>1. Init => IInv /\ NothingKept /\ Regular
  BY InitInv, RegularInit
<1>2. IInv /\ NothingKept /\ Regular /\ [Next]_vars => (IInv /\ NothingKept /\ Regular)'
  BY NextInv, NothingKeptStep, RegularStep
<1> QED
  BY <1>1, <1>2, PTL DEF Spec

\* A document of that shape is rendered in full: a format that renders its
\* tree goes down to every child of a node and leaves out no word.
LEMMA AllShown ==
  ASSUME IInv, NothingKept, Regular, format \in {"text", "json", "xml"}, ~careless,
         \A n \in Attached : ~mute[n],
         NEW n \in Attached
  PROVE  Own(n) = Word(n) /\ Shown(n) = kids[n]
<1>1. TypeOK /\ Document
  BY DocumentNow DEF IInv
<1>2. /\ n \in Node /\ kids[n] \in Seq(1..used) /\ Kid(n) \subseteq Attached /\ Attached \subseteq Node
      /\ Len(kids[n]) \in Nat /\ DOMAIN kids[n] = 1..Len(kids[n])
      /\ \A i \in 1..Len(kids[n]) : kids[n][i] \in Kid(n)
      /\ Kid(n) = {} => kids[n] = <<>>
  <2>1. n \in Node /\ kids[n] \in Seq(1..used) /\ Kid(n) \subseteq Attached /\ Attached \subseteq Node
    BY <1>1 DEF Document
  <2> QED
    BY <2>1 DEF Kid
<1>3. Kept(n) = <<>>
  BY <1>2 DEF Kept, NothingKept
<1>4. kind[n] \in FormatKinds /\ (kind[n] = "root" <=> n = Root)
  BY DEF Regular
<1>5. Own(n) = Word(n)
  BY <1>3, <1>4 DEF Own, Word, Worded
<1>6. ASSUME NEW S, Kid(n) \subseteq S
      PROVE  Among(kids[n], S) = kids[n]
  BY <1>2, <1>6, AmongAll
<1>7. CASE format = "text"
  <2>1. \A m \in Kid(n) :
          \/ kind[n] = "root" /\ kind[m] = "paragraph"
          \/ kind[n] = "paragraph" /\ kind[m] = "line"
    <3>1. \A m \in Kid(n) : Suits(n, kind[m])
      BY <1>7 DEF Regular
    <3> QED
      BY <1>7, <3>1 DEF Suits
  <2>2. n = Root => Kid(n) \subseteq {m \in Node : kind[m] = "paragraph"}
    BY <1>2, <1>4, <2>1
  <2>3. kind[n] = "line" => kids[n] = <<>>
    BY <1>2, <2>1
  <2>4. TextShown(n) = kids[n]
    <3>1. CASE n = Root
      BY <1>6, <2>2, <3>1 DEF TextShown
    <3>2. CASE n # Root
      BY <2>3, <3>2 DEF TextShown
    <3> QED
      BY <3>1, <3>2
  <2> QED
    BY <1>3, <1>5, <1>7, <2>4 DEF Shown
<1>8. n = Root /\ format # "text" => FirstKid(n) = kids[n]
  <2> SUFFICES ASSUME n = Root, format # "text", kids[n] # <<>>
               PROVE  <<kids[n][1]>> = kids[n]
    BY DEF FirstKid
  <2>1. \A a, b \in Kid(n) : a = b
    BY DEF Regular
  <2>2. \A i, j \in 1..Len(kids[n]) : kids[n][i] = kids[n][j] => i = j
    BY <1>2 DEF IInv, OneParent, IsInjective
  <2>3. \A i, j \in 1..Len(kids[n]) : i = j
    BY <1>2, <2>1, <2>2
  <2> DEFINE len == Len(kids[n])
  <2>4. len = 1
    <3>1. len \in Nat /\ len # 0 /\ \A i, j \in 1..len : i = j
      BY <1>2, <2>3
    <3> HIDE DEF len
    <3>2. len > 1 => 1 \in 1..len /\ 2 \in 1..len
      BY <3>1
    <3>3. ~(len > 1)
      BY <3>1, <3>2
    <3> QED
      BY <3>1, <3>3
  <2> QED
    BY <1>2, <2>4
<1>9. CASE format = "json"
  <2>1. /\ kind[n] = "mapping" => \A m \in Kid(n) : key[m]
        /\ kind[n] = "scalar" => kids[n] = <<>>
    BY <1>2, <1>9 DEF Regular
  <2>2. kind[n] = "mapping" => Members(n) = kids[n]
    BY <1>2, <2>1 DEF Members
  <2> QED
    BY <1>3, <1>4, <1>5, <1>8, <1>9, <2>1, <2>2 DEF Shown, JsonShown
<1>10. CASE format = "xml"
  <2>1. Kid(n) \subseteq {m \in Node : ~mute[m]}
    BY <1>2
  <2>2. XmlShown(n) = kids[n]
    <3>1. CASE n = Root
      BY <1>8, <1>10, <3>1 DEF XmlShown
    <3>2. CASE n # Root
      BY <1>6, <2>1, <3>2 DEF XmlShown
    <3> QED
      BY <3>1, <3>2
  <2> QED
    BY <1>3, <1>5, <1>10, <2>2 DEF Shown
<1> QED
  BY <1>7, <1>9, <1>10

LEMMA WholeTree == IInv /\ NothingKept /\ Regular => TextIsTree
<1> SUFFICES ASSUME IInv, NothingKept, Regular,
                    ~careless, format \in {"text", "json", "xml"}, \A n \in Attached : ~mute[n]
             PROVE  Rendered[Root] = Listed[Root]
  BY DEF TextIsTree
<1>1. \A n \in Attached : Own(n) = Word(n) /\ Shown(n) = kids[n]
  BY AllShown
<1>2. /\ [n \in Attached |-> Own(n)] = [n \in Attached |-> Word(n)]
      /\ [n \in Attached |-> Shown(n)] = [n \in Attached |-> kids[n]]
  BY <1>1
<1> QED
  BY <1>2 DEF Rendered, Listed

-----------------------------------------------------------------------------
(* Every variable keeps its type: an id is given out before it is in a list *)
(* of children or in the index (_assign_stable_ids), and only a block of    *)
(* source brings new ones.                                                  *)
THEOREM TreeTypeCorrect == Spec => []TypeOK
BY Inductive, PTL DEF IInv

(* Whatever addresses a client gives insert, move, delete and replace_node, *)
(* also those of nodes that have left the document, which the index still   *)
(* has, the document stays a tree.                                          *)
THEOREM DocumentStaysTree == Spec => []AttachedIsTree
BY Inductive, TreeShape, PTL

(* What a delete, a replacement or a move has taken out of the document no  *)
(* later operation brings back: _find_parent_of looks for a node to be      *)
(* moved in the document only, and a block of source has ids of its own.    *)
THEOREM DeletedStayDeleted == Spec => DeletedStaysDeleted
<1>1. IInv /\ [Next]_vars => [\A n \in (1..used) \ Attached : n \notin Attached']_vars
  BY NextInv
<1> QED
  BY <1>1, Inductive, PTL DEF Spec, DeletedStaysDeleted

(* A client that uses live addresses and fitting places loses no content    *)
(* from sight, and sees none twice or out of order: what the text, JSON and *)
(* XML formatters render is the tree, after any number of operations; of    *)
(* XML a tree of elements with no text between them.  What else XML holds,  *)
(* comments, instructions, entities, its renderer leaves out.               *)
THEOREM RenderedInFull == Spec => []TextIsTree
BY RegularInductive, WholeTree, PTL
=============================================================================
