------------------------------- MODULE Values -------------------------------
(* Nested values (what JSON and YAML parse to), the addresses clients edit  *)
(* them by, and what an edit computes: formatters/json and formatters/yaml, *)
(* ported/file_handlers/yaml_handler.py, and the line ranges of             *)
(* text_ranges.py.  Every edit works on a deep copy, so each is a function  *)
(* from a value to a value, or to Missing when it is refused.               *)
EXTENDS Naturals, SequencesExt

Leaf(n) == [leaf |-> n]
Map(f) == [map |-> f]
List(s) == [list |-> s]
Missing == [missing |-> TRUE]
Null == Leaf(0)
EmptyMap == Map([k \in {} |-> Null])
IsMap(v) == "map" \in DOMAIN v
IsList(v) == "list" \in DOMAIN v
Parts(v) == IF IsMap(v) THEN {v.map[k] : k \in DOMAIN v.map} ELSE ToSet(v.list)

(* YAML makes one object of an anchor and its aliases, and copy.deepcopy    *)
(* keeps it one: a container with several places has the object's name.     *)
Object(name, v) == [same |-> name] @@ v
IsObject(v) == "same" \in DOMAIN v
Nameless(v) == IF IsMap(v) THEN Map(v.map) ELSE IF IsList(v) THEN List(v.list) ELSE v

(* A key of a mapping that is a number in YAML is not the string a client   *)
(* can write; str makes one of it.                                          *)
Numbers == <<"int 0", "int 1", "int 2">>
IsNumber(k) == k \in ToSet(Numbers)

(* Indices as they are written in an address.                               *)
Digits == <<"0", "1", "2", "3", "4", "5">>
IsDigit(s) == s \in ToSet(Digits)
Position(s) == CHOOSE i \in DOMAIN Digits : Digits[i] = s
Str(k) == IF IsNumber(k) THEN Digits[CHOOSE i \in DOMAIN Numbers : Numbers[i] = k] ELSE k
Filters == "a=1"
IsFilter(s) == s = Filters

-----------------------------------------------------------------------------
(* An address of the two formatters is a sequence of chunks key or          *)
(* key[index] or key[field=value].  json/address.py makes of a chunk the    *)
(* segment of the key and that of the bracket; yaml/address.py looks at the *)
(* bracket and forgets the key.  A JSON pointer is a sequence of tokens.    *)
Chunk(k, b) == [key |-> k, at |-> b]
Segment(kind, name) == [kind |-> kind, name |-> name]
BracketKind(b) == IF IsFilter(b) THEN "filter" ELSE "index"
JsonSegments(address) ==
  FoldLeft(LAMBDA segs, c : segs \o <<Segment("key", c.key)>>
             \o (IF c.at = "" THEN <<>> ELSE <<Segment(BracketKind(c.at), c.at)>>),
           <<>>, address)
YamlSegments(address) ==
  [i \in DOMAIN address |->
     IF address[i].at = "" THEN Segment("key", address[i].key)
     ELSE Segment(BracketKind(address[i].at), address[i].at)]
Tokens(pointer) == [i \in DOMAIN pointer |-> Segment("token", pointer[i])]

(* The element a filter picks, if it picks one.                             *)
Matches(v) ==
  {i \in DOMAIN v.list : IsMap(v.list[i]) /\ "a" \in DOMAIN v.list[i].map
                          /\ v.list[i].map["a"] = Leaf(1)}

(* Where a segment leads in a container: the number of an element, or 0.    *)
Place(v, seg) ==
  CASE ~IsList(v) -> 0
    [] seg.kind = "filter" -> IF \E i \in Matches(v) : Matches(v) = {i}
                              THEN CHOOSE i \in Matches(v) : TRUE ELSE 0
    [] seg.kind # "key" /\ IsDigit(seg.name) ->
         IF Position(seg.name) <= Len(v.list) THEN Position(seg.name) ELSE 0
    [] OTHER -> 0
Names(v, seg) == IsMap(v) /\ seg.kind \in {"key", "token"}

Child(v, seg) ==
  IF Names(v, seg) /\ seg.name \in DOMAIN v.map THEN v.map[seg.name]
  ELSE IF Place(v, seg) # 0 THEN v.list[Place(v, seg)] ELSE Missing
(* set_at_path makes the mappings that are missing on its way.              *)
ChildOrNew(v, seg) ==
  IF Names(v, seg) /\ seg.name \notin DOMAIN v.map THEN EmptyMap ELSE Child(v, seg)

Walk(v, segs) == FoldLeft(Child, v, segs)
Follow(v, segs, making) ==
  IF making THEN FoldLeft(ChildOrNew, v, segs) ELSE Walk(v, segs)

(* parent[key] = w: a mapping takes any key, of JSON an index too, which    *)
(* the tree's _node_to_value makes a string: no deletion by index finds it. *)
(* A list takes only the index of an element.                               *)
Put(v, seg, w) ==
  IF IsMap(v) /\ seg.kind # "filter"
  THEN [v EXCEPT !.map = [k \in DOMAIN v.map \cup {seg.name} |->
                            IF k = seg.name THEN w ELSE v.map[k]]]
  ELSE IF Place(v, seg) # 0 THEN [v EXCEPT !.list[Place(v, seg)] = w]
  ELSE Missing

(* A slip in Drop: the element is emptied and keeps its place.              *)
DropKeepsPlace(v, seg) ==
  IF Names(v, seg)
  THEN IF seg.name \in DOMAIN v.map
       THEN [v EXCEPT !.map = [k \in DOMAIN v.map \ {seg.name} |-> v.map[k]]] ELSE Missing
  ELSE IF Place(v, seg) # 0 THEN [v EXCEPT !.list[Place(v, seg)] = Null]
  ELSE Missing

(* del parent[key], parent.pop(index).                                      *)
Drop(v, seg) ==
  IF Names(v, seg)
  THEN IF seg.name \in DOMAIN v.map
       THEN [v EXCEPT !.map = [k \in DOMAIN v.map \ {seg.name} |-> v.map[k]]] ELSE Missing
  ELSE IF Place(v, seg) # 0 THEN [v EXCEPT !.list = RemoveAt(@, Place(v, seg))]
  ELSE Missing

(* Every value within v, and v with each of them that Rule changes changed. *)
Depth == 5  \* how deep an object with several places may lie (bound)
Within(v) ==
  LET in[n \in 0..Depth] ==
        IF n = 0 THEN {v}
        ELSE in[n - 1] \cup UNION {Parts(w) : w \in {u \in in[n - 1] : IsMap(u) \/ IsList(u)}}
  IN in[Depth]
Rewritten(v, Rule(_)) ==
  LET made[n \in 0..Depth, w \in Within(v)] ==
        CASE n = 0 \/ Rule(w) # w -> Rule(w)
          [] IsMap(w)  -> [w EXCEPT !.map = [k \in DOMAIN w.map |-> made[n - 1, w.map[k]]]]
          [] IsList(w) -> [w EXCEPT !.list = [i \in DOMAIN w.list |-> made[n - 1, w.list[i]]]]
          [] OTHER     -> w
  IN made[Depth, v]

(* An object that changes at one of its places changes at all of them.      *)
Spread(doc, v) ==
  IF IsObject(v)
  THEN Rewritten(doc, LAMBDA w : IF IsObject(w) /\ w.same = v.same THEN v ELSE w)
  ELSE doc

(* A copy of a value is no object of the document.  Its own objects have    *)
(* one place in it: those of an instance have theirs right under the root,  *)
(* and no call copies that.                                                 *)
Copied(v) == Rewritten(v, Nameless)

(* The document with the container at segs replaced, and with it those it   *)
(* is in.                                                                   *)
Rebuilt(doc, segs, new, making) ==
  LET n == Len(segs)
      chain[i \in 1..n + 1] ==
        IF i = n + 1 THEN new
        ELSE Put(Follow(doc, SubSeq(segs, 1, i - 1), making), segs[i], chain[i + 1])
  IN IF new = Missing THEN Missing
     ELSE FoldLeft(Spread, chain[1], [i \in 1..n |-> chain[i + 1]])
Parent(doc, segs, making) == IF segs = <<>> THEN Missing ELSE Follow(doc, Front(segs), making)
Assigned(doc, segs, w, making) ==
  IF Parent(doc, segs, making) = Missing THEN Missing
  ELSE Rebuilt(doc, Front(segs), Put(Parent(doc, segs, making), Last(segs), w), making)
Removed(doc, segs) ==
  IF Parent(doc, segs, FALSE) = Missing THEN Missing
  ELSE Rebuilt(doc, Front(segs), Drop(Parent(doc, segs, FALSE), Last(segs)), FALSE)

-----------------------------------------------------------------------------
(* json/mutations.py                                                        *)
JsonSet(doc, address, w) == Assigned(doc, JsonSegments(address), w, FALSE)
JsonReplaceBlock(doc, address, w) == IF address = <<>> THEN w ELSE JsonSet(doc, address, w)
JsonDelete(doc, address) == Removed(doc, JsonSegments(address))
JsonAppend(doc, address, w, dedupe) ==
  LET segs == JsonSegments(address) target == Walk(doc, segs)
  IN CASE IsList(target) ->
            Rebuilt(doc, segs, IF dedupe /\ w \in ToSet(target.list) THEN target
                               ELSE List(Append(target.list, w)), FALSE)
       [] IsMap(target) /\ IsMap(w) -> Rebuilt(doc, segs, Map(w.map @@ target.map), FALSE)
       [] OTHER -> Missing
(* _insert_into_target                                                      *)
JsonInsert(doc, address, w, position) ==
  LET segs == JsonSegments(address) target == Walk(doc, segs)
  IN CASE IsList(target) ->
            Rebuilt(doc, segs, List(IF position = "first" THEN <<w>> \o target.list
                                    ELSE Append(target.list, w)), FALSE)
       [] IsMap(target) /\ IsMap(w) -> Rebuilt(doc, segs, Map(w.map @@ target.map), FALSE)
       [] OTHER -> Missing

(* A fragment that is null cannot be told from an empty clipboard.          *)
JsonPasted(doc, address, clip, position) ==
  IF clip = Null THEN Missing ELSE JsonInsert(doc, address, clip, position)

OwnSubtree(source, target) == source # <<>> /\ IsPrefix(source, target)

(* A slip in JsonMove: the value is inserted before the source goes.        *)
JsonMoveInsertsFirst(doc, source, target, position) ==
  LET value == Walk(doc, JsonSegments(source)) with == JsonInsert(doc, target, value, position)
  IN IF OwnSubtree(source, target) \/ value = Missing \/ with = Missing THEN Missing
     ELSE JsonDelete(with, source)

(* The target is resolved when the source is gone.                          *)
JsonMove(doc, source, target, position) ==
  LET value == Walk(doc, JsonSegments(source)) rest == JsonDelete(doc, source)
  IN IF OwnSubtree(source, target) \/ rest = Missing THEN Missing
     ELSE JsonInsert(rest, target, value, position)

-----------------------------------------------------------------------------
(* yaml/mutations.py.  The last chunk may not be a filter; a key that is    *)
(* not there to delete, an index of a list that is not there and a key for  *)
(* a list raise Python's own errors.                                        *)
YamlLeaf(address) ==
  IF address # <<>> /\ IsFilter(Last(address).at) THEN Missing
  ELSE IF address # <<>> /\ Last(address).at # "" THEN [index |-> TRUE] ELSE [key |-> TRUE]
YamlParentFits(doc, address) ==
  /\ YamlLeaf(address) # Missing
  /\ YamlLeaf(address) = [index |-> TRUE] => IsList(Walk(doc, Front(YamlSegments(address))))
YamlSet(doc, address, w) ==
  IF address = <<>> THEN w
  ELSE IF YamlParentFits(doc, address) THEN Assigned(doc, YamlSegments(address), w, FALSE)
  ELSE Missing
YamlDelete(doc, address) ==
  IF address = <<>> THEN EmptyMap
  ELSE IF YamlParentFits(doc, address) THEN Removed(doc, YamlSegments(address)) ELSE Missing
YamlAppend(doc, address, w, dedupe) ==
  LET segs == YamlSegments(address) target == Walk(doc, segs)
  IN CASE IsList(target) ->
            IF dedupe /\ w \in {Copied(u) : u \in ToSet(target.list)} THEN doc
            ELSE Rebuilt(doc, segs, [target EXCEPT !.list = Append(@, w)], FALSE)
       [] IsMap(target) /\ IsMap(w) /\ (\E k \in DOMAIN w.map : DOMAIN w.map = {k}) ->
            Rebuilt(doc, segs, [target EXCEPT !.map = w.map @@ @], FALSE)
       [] OTHER -> Missing
(* The value of a fragment or a move is that of another deep copy than the  *)
(* document it is put into.                                                 *)
YamlValue(doc, address) ==
  IF address = <<>> THEN Missing ELSE Copied(Walk(doc, YamlSegments(address)))
YamlMove(doc, source, target) ==
  LET value == YamlValue(doc, source) rest == YamlDelete(doc, source)
  IN IF value = Missing \/ rest = Missing THEN Missing ELSE YamlSet(rest, target, value)

-----------------------------------------------------------------------------
(* yaml_handler.py                                                          *)
PointerGet(doc, pointer) == Walk(doc, Tokens(pointer))
PointerSet(doc, pointer, w) == Assigned(doc, Tokens(pointer), w, TRUE)
PointerDelete(doc, pointer) == Removed(doc, Tokens(pointer))

-----------------------------------------------------------------------------
(* text_ranges.py: ranges of lines with the lines to put there.  A text is  *)
(* what splitlines gives, lines of which one may be blank, and whether the  *)
(* last of them ends in a line break.                                       *)
Blank == 0
Text(lines, ended) == [lines |-> lines, ended |-> ended]

(* join_lines_unix: the breaks are between the lines, so the last line has  *)
(* none, and a blank one at the end is nothing but the break before it.     *)
Joined(result) ==
  IF result = Missing THEN Missing
  ELSE LET cut == result.lines # <<>> /\ Last(result.lines) = Blank
           kept == IF cut THEN Front(result.lines) ELSE result.lines
       IN Text(kept, cut /\ kept # <<>>)

Overlap(r, s) == ~(r.high < s.low \/ s.high < r.low)
NonOverlapping(ranges) ==
  \A i, j \in DOMAIN ranges : i # j => ~Overlap(ranges[i], ranges[j])
InLength(r, n) == 1 <= r.low /\ r.low <= r.high /\ r.high <= n

(* A range in brackets: [n] and [a,b] have both ends, [:b] and [a:] one, an *)
(* open end being {}.  The end of [a:] is the end of the file, which has    *)
(* total lines.                                                             *)
Brackets(numbers) ==
  LET Ends == {{}} \cup {{n} : n \in numbers}
  IN {b \in [left : Ends, right : Ends] : b.left \cup b.right # {}}
ParsedRange(b, total) ==
  LET low == IF b.left = {} THEN 1 ELSE CHOOSE n \in b.left : TRUE
      high == IF b.right = {} THEN total ELSE CHOOSE n \in b.right : TRUE
  IN IF 1 <= low /\ low <= high THEN [low |-> low, high |-> high] ELSE Missing
ParsedRanges(bs, total) ==
  LET ranges == [i \in DOMAIN bs |-> ParsedRange(bs[i], total)]
  IN IF Missing \notin ToSet(ranges) /\ NonOverlapping(ranges) THEN ranges ELSE <<Missing>>

(* What a read of a range shows: a range that runs past the end of the file *)
(* is cut there, and one that starts behind it shows the last line.         *)
Clamped(r, n) ==
  LET within(line) == IF line > n THEN n ELSE line
  IN IF n = 0 THEN [low |-> 1, high |-> 0] ELSE [low |-> within(r.low), high |-> within(r.high)]
Shown(lines, r) ==
  LET cut == Clamped(r, Len(lines))
  IN IF 1 <= r.low /\ r.low <= r.high THEN [lines |-> SubSeq(lines, cut.low, cut.high)]
     ELSE Missing

Earlier(r, s) == r.low < s.low \/ (r.low = s.low /\ r.high < s.high)

(* A slip in BottomUp: from the top down.                                   *)
TopDown(r, s) == Earlier(r, s)

BottomUp(r, s) == r.low > s.low \/ (r.low = s.low /\ r.high > s.high)
(* merge_adjacent_ranges_for_replace: a line list, or none.                 *)
Replaced(lines, ranges) ==
  LET ordered == SortSeq(ranges, BottomUp)
      step(work, r) ==
        IF work # Missing /\ InLength(r, Len(work.lines))
        THEN [lines |-> SubSeq(work.lines, 1, r.low - 1) \o r.new
                          \o SubSeq(work.lines, r.high + 1, Len(work.lines))]
        ELSE Missing
  IN IF NonOverlapping(ranges) THEN FoldLeft(step, [lines |-> lines], ordered) ELSE Missing
(* diff_support.py: what a client is told of a change.  difflib takes some  *)
(* lines of the new text for lines of the old one, in their order; the      *)
(* others are new, in runs.  That the text changed is told from the texts,  *)
(* the end of the last line among them; the ranges are those of the lines.  *)
ChangedSpans(kept, n) ==
  LET new == (1..n) \ kept
      starts == SelectSeq([i \in 1..n |-> i], LAMBDA i : i \in new /\ i - 1 \notin new)
      end(i) == CHOOSE j \in new : i <= j /\ i..j \subseteq new /\ j + 1 \notin new
  IN [k \in DOMAIN starts |-> [low |-> starts[k], high |-> end(starts[k])]]
(* Spans that overlap or touch become one.                                  *)
MergedSpans(spans) ==
  LET join(out, r) ==
        IF out # <<>> /\ r.low <= Last(out).high + 1
        THEN Append(Front(out), [low |-> Last(out).low,
                                 high |-> Max({Last(out).high, r.high})])
        ELSE Append(out, r)
  IN FoldLeft(join, <<>>, SortSeq(spans, Earlier))
Reported(before, after, kept, diff) ==
  [changed |-> before # after,
   ranges |-> IF diff THEN MergedSpans(ChangedSpans(kept, Len(after.lines))) ELSE <<>>]

LinesDeleted(lines, r) == Replaced(lines, <<[r EXCEPT !.new = <<>>]>>)
=============================================================================
