-------------------------- MODULE MCAddressedEdits --------------------------
(* Documents of up to seven nodes, nine at first, with members a and b,     *)
(* addresses of one or two chunks, and texts of three lines at first.       *)
EXTENDS AddressedContents

One == Leaf(1)
Two == Leaf(2)
A(v) == Map([k \in {"a"} |-> v])
\* Objects that have two places; and a mapping with a key that is a number.
Alias == Object("x", List(<<One, A(Two)>>))
Both(v) == Map([k \in {"a", "b"} |-> v])
Shared == Object("x", A(Two))
Numbered(v) == Map([k \in {"a", "int 1"} |-> v])
MCFits(doc) == Size(doc) <= 7  \* nodes
MCForm == Forms
MCPayload == {One, A(One)}
MCStart ==
  [f \in Forms |->
     CASE f = "text" -> {Missing, Text(<<1, 2, 1>>, TRUE), Text(<<2, Blank>>, TRUE)}
       [] f = "file" -> {Missing, A(List(<<One, Two>>)), Both(Alias), Numbered(Two), Null}
       [] f = "jfile" -> {Missing, A(One), A(Two)}
       [] f = "json" -> {A(List(<<Null, Two>>)), A(List(<<A(One), A(Two)>>)), A(A(List(<<One>>)))}
       [] f = "yaml" -> {List(<<Shared, Shared, A(One)>>), List(<<One, A(Two)>>),
                        A(List(<<A(One), A(One)>>)), A(A(List(<<Two>>)))}]
Plain(k) == Chunk(k, "")
MCAddress ==
  {<<>>} \cup {<<Plain(k)>> : k \in {"a", "b"}}
    \cup {<<Chunk("a", b)>> : b \in {"0", "1", Filters}}
    \cup {<<Plain("a"), Chunk("a", "0")>>, <<Plain("a"), Plain("b")>>,
          <<Chunk("a", "1"), Plain("a")>>, <<Chunk("a", Filters), Plain("b")>>}
MCPointer == {<<"a">>, <<"1">>, <<"b", "0">>, <<"a", "0">>, <<"a", "b", "a">>}
Range1(low, high, new) == [low |-> low, high |-> high, new |-> new]
MCRange == {Range1(low, high, new) : low \in 1..3, high \in 1..4, new \in {<<>>, <<2, Blank>>}}
MCRanges == {<<r>> : r \in MCRange} \cup {<<r, s>> : r \in MCRange, s \in {x \in MCRange : x.new # <<>>}}
\* Callers differ in nothing but their names.
Callers == Permutations(Caller)
=============================================================================
