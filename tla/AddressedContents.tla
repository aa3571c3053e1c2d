------------------------- MODULE AddressedContents -------------------------
(* What the edits of AddressedEdits do to what is in a document.            *)
EXTENDS AddressedEdits, FiniteSets

RECURSIVE Size(_)
Size(v) ==
  CASE IsMap(v)  -> 1 + FoldLeft(LAMBDA n, k : n + Size(v.map[k]), 0, SetToSeq(DOMAIN v.map))
    [] IsList(v) -> 1 + FoldLeft(LAMBDA n, w : n + Size(w), 0, v.list)
    [] OTHER     -> 1

RECURSIVE Sound(_)
Sound(v) ==
  CASE IsMap(v)  -> \A k \in DOMAIN v.map : Sound(v.map[k])
    [] IsList(v) -> \A i \in DOMAIN v.list : Sound(v.list[i])
    [] OTHER     -> DOMAIN v = {"leaf"} /\ v.leaf \in Nat

(* Beside the shape of the requests: documents and clipboards are values,   *)
(* texts are lines, without a blank one at the end that no break follows.   *)
ContentsOK ==
  /\ TypeOK
  /\ IF form = "text"
     THEN body = Missing \/ /\ DOMAIN body = {"lines", "ended"}
                            /\ IF body.lines = <<>> THEN ~body.ended
                               ELSE Last(body.lines) = Blank => body.ended
     ELSE (form \in {"file", "jfile"} /\ body = Missing) \/ Sound(body)
  /\ ~IsFile => Fits(body)
  /\ (form = "yaml" /\ clip = Missing) \/ Sound(clip)
-----------------------------------------------------------------------------
(* A document as the paths of its leaves, empty containers among them.      *)
RECURSIVE Leaves(_)
Leaves(v) ==
  LET below(name, w) == {<<<<name>> \o l[1], l[2]>> : l \in Leaves(w)}
  IN CASE IsMap(v) /\ DOMAIN v.map # {} -> UNION {below(k, v.map[k]) : k \in DOMAIN v.map}
       [] IsList(v) /\ v.list # <<>>    -> UNION {below(Digits[i], v.list[i]) : i \in DOMAIN v.list}
       [] OTHER                         -> {<<<<>>, Nameless(v)>>}

PathOf(doc, segs) ==
  [i \in DOMAIN segs |->
     LET place == Place(Walk(doc, SubSeq(segs, 1, i - 1)), segs[i])
     IN IF place # 0 THEN Digits[place] ELSE segs[i].name]

(* The places of the objects of a document that may have several, and those *)
(* a path below one of them has below the others.                           *)
RECURSIVE Places(_)
Places(v) ==
  LET below(name, w) == {[p EXCEPT !.path = <<name>> \o @] : p \in Places(w)}
  IN (IF IsObject(v) THEN {[path |-> <<>>, same |-> v.same]} ELSE {})
       \cup (CASE IsMap(v)  -> UNION {below(k, v.map[k]) : k \in DOMAIN v.map}
               [] IsList(v) -> UNION {below(Digits[i], v.list[i]) : i \in DOMAIN v.list}
               [] OTHER     -> {})
Alike(doc, path) ==
  LET within == {p \in Places(doc) : IsStrictPrefix(p.path, path)}
      as(p, q) == q.path \o SubSeq(path, Len(p.path) + 1, Len(path))
  IN {path} \cup UNION {{as(p, q) : q \in {x \in Places(doc) : x.same = p.same}} : p \in within}

(* The leaves once w is at a path, and once nothing is: what comes later in *)
(* a list moves up, and a container may be left empty.  In an object with   *)
(* several places it is so at each of them.                                 *)
Overlaid(doc, path, w) ==
  {l \in Leaves(doc) : \A p \in Alike(doc, path) : ~IsPrefix(p, l[1]) /\ ~IsPrefix(l[1], p)}
    \cup {<<p \o l[1], l[2]>> : p \in Alike(doc, path), l \in Leaves(w)}
Struck(doc, path) ==
  LET n == Len(path)
      holder == Walk(doc, Tokens(Front(path)))
      rest == {l \in Leaves(doc) : \A p \in Alike(doc, path) : ~IsPrefix(p, l[1])}
      later(q, p) == /\ IsList(holder) /\ IsStrictPrefix(Front(p), q)
                     /\ Position(q[Len(p)]) > Position(Last(p))
      up(q) == IF \E p \in Alike(doc, path) : later(q, p)
               THEN LET p == CHOOSE p \in Alike(doc, path) : later(q, p)
                    IN [q EXCEPT ![Len(p)] = Digits[Position(@) - 1]]
               ELSE q
      emptied == IF IsList(holder) THEN List(<<>>) ELSE EmptyMap
      emptiedAt == {p \in Alike(doc, path) : \A l \in rest : ~IsStrictPrefix(Front(p), l[1])}
  IN {<<up(l[1]), l[2]>> : l \in rest} \cup {<<Front(p), emptied>> : p \in emptiedAt}

(* The paths a read of a YAML file lists, that of the root among them, and  *)
(* whether all keys on the way are strings.                                 *)
RECURSIVE Paths(_)
Paths(v) ==
  LET below(name, w) == {[path |-> <<Str(name)>> \o p.path, plain |-> p.plain /\ ~IsNumber(name)] :
                           p \in Paths(w)}
  IN {[path |-> <<>>, plain |-> TRUE]}
       \cup (CASE IsMap(v)  -> UNION {below(k, v.map[k]) : k \in DOMAIN v.map}
               [] IsList(v) -> UNION {below(Digits[i], v.list[i]) : i \in DOMAIN v.list}
               [] OTHER     -> {})

(* Each node of the document has a path of its own (YamlFileHandler.read).  *)
(* Below string keys it leads to a value that an edit can take away; the    *)
(* path of a key that is no string is refused, or is that of the member     *)
(* whose key is the string (_collect_paths makes a string of every key,     *)
(* delete_at_path looks that up).                                           *)
YamlRead == IF body = Missing THEN Missing ELSE Paths(body)
PathsLead ==
  LET plain == {p.path : p \in {q \in YamlRead : q.plain}}
      leads(path) == PointerGet(body, path) # Missing /\ PointerDelete(body, path) # Missing
  IN /\ Cardinality(YamlRead) = Size(body)
     /\ \A p \in YamlRead : p.path # <<>> => (leads(p.path) <=> p.path \in plain)

(* Setting and deleting by an address change what is at the address and     *)
(* nothing else, in all three interfaces (document_mutate_set, _delete,     *)
(* yaml_mutate_set, _delete, set_at_path, delete_at_path), or are refused;  *)
(* but in a YAML document a change in what an alias stands for is one at    *)
(* every place that has it.  No path that a read lists is refused, unless a *)
(* key on the way is no string.                                             *)
EditsStayAtAddress ==
  form # "text" /\ body # Missing /\ (\A c \in Caller : call[c] = Idle) =>
    LET right(result, leaves) == result = Missing \/ Leaves(result) = leaves
    IN /\ PathsLead
       /\ \A a \in Address \ {<<>>} :
            LET json == PathOf(body, JsonSegments(a)) yaml == PathOf(body, YamlSegments(a))
            IN /\ \A w \in Payload : /\ right(JsonSet(body, a, w), Overlaid(body, json, w))
                                     /\ right(YamlSet(body, a, w), Overlaid(body, yaml, w))
               /\ right(JsonDelete(body, a), Struck(body, json))
               /\ right(YamlDelete(body, a), Struck(body, yaml))
       /\ \A p \in Pointer :
            /\ \A w \in Payload : right(PointerSet(body, p, w), Overlaid(body, p, w))
            /\ right(PointerDelete(body, p), Struck(body, p))

(* A move loses no value and makes none, unless it is told to put a value   *)
(* where one is, or members into a mapping that has members of their names, *)
(* or it takes from or puts into what a YAML alias stands for, which is at  *)
(* several places (document_mutate_move, yaml_mutate_move).                 *)
MovesKeepValues ==
  form \in {"json", "yaml"} =>
    LET count(leaves) == [n \in 0..2 |-> Cardinality({l \in leaves : l[2] = Leaf(n)})]
        values == count(Leaves(body))
        kept(result) == result = Missing \/ count(Leaves(result)) = values
        single(doc, a) == LET path == PathOf(doc, YamlSegments(a)) IN Alike(doc, path) = {path}
    IN \A s, t \in Address :
         IF form = "json"
         THEN LET target == Walk(JsonDelete(body, s), JsonSegments(t))
                  moved == Walk(body, JsonSegments(s))
              IN \/ IsMap(target) /\ IsMap(moved) /\ DOMAIN target.map \cap DOMAIN moved.map # {}
                 \/ \A position \in {"first", "last"} : kept(JsonMove(body, s, t, position))
         ELSE \/ t = <<>> \/ ~single(body, s) \/ ~single(YamlDelete(body, s), t)
              \/ Walk(YamlDelete(body, s), YamlSegments(t)) # Missing
              \/ kept(YamlMove(body, s, t))

(* Several ranges are replaced as if at once: the lines between them stay,  *)
(* whatever the ranges add or take away, and a request with a range that    *)
(* overlaps another or leaves the file is refused as a whole                *)
(* (compute_replace_lines_multi).                                           *)
ReplacedAtOnce(lines, ranges) ==
  LET fits == NonOverlapping(ranges) /\ \A i \in DOMAIN ranges : InLength(ranges[i], Len(lines))
      inside(n, r) == r.low <= n /\ n <= r.high
      instead(n) ==
        IF \E r \in ToSet(ranges) : inside(n, r)
        THEN LET r == CHOOSE r \in ToSet(ranges) : inside(n, r)
             IN IF n = r.low THEN r.new ELSE <<>>
        ELSE <<lines[n]>>
  IN Replaced(lines, ranges) =
       IF fits THEN [lines |-> FlattenSeq([n \in DOMAIN lines |-> instead(n)])] ELSE Missing

(* What a read of the file shows: lines, or every path.                     *)
TextRead(r) == IF body = Missing THEN Missing ELSE Shown(body.lines, r)

(* The lines a read shows for a range, written back to that range, leave    *)
(* the lines as they were, or are refused, as they are when the read cut    *)
(* the range to the file (read_lines_range_ok clamps, a replacement does    *)
(* not); but the text loses the break after its last line, and that line if *)
(* it is blank (join_lines_unix).                                           *)
WritesBack(lines, r) ==
  LET shown == TextRead(r)
      new == Joined(Replaced(lines, <<[r EXCEPT !.new = shown.lines]>>))
  IN IF shown = Missing THEN Replaced(lines, <<r>>) = Missing
     ELSE \/ new = Missing
          \/ new.lines = lines /\ ~new.ended
          \/ Last(lines) = Blank /\ new.lines = Front(lines)

(* A range in brackets that is open to the end of the file, parsed with the *)
(* file's length, can be read and deleted, and the deletion takes away what *)
(* the read shows (parse_bracket_range).                                    *)
OpenRangeFits(lines, b) ==
  LET r == ParsedRange(b, Len(lines))
      kept == LinesDeleted(lines, [low |-> r.low, high |-> r.high, new |-> <<>>])
  IN b.right = {} /\ r # Missing =>
       kept # Missing /\ kept.lines \o Shown(lines, r).lines = lines

(* Ranges parsed together are refused by a replacement only when one of     *)
(* them leaves the file (parse_bracket_ranges, validate_non_overlapping).   *)
ParsedTogether(lines, bs) ==
  LET ranges == ParsedRanges(bs, Len(lines))
      request == [i \in DOMAIN ranges |-> [low |-> ranges[i].low, high |-> ranges[i].high,
                                            new |-> <<>>]]
  IN Missing \notin ToSet(ranges) =>
       (Replaced(lines, request) = Missing <=> \E r \in ToSet(ranges) : r.high > Len(lines))

(* Whatever lines difflib takes for old ones, the lines outside the ranges  *)
(* a client is told of are lines of the old text, in their order, and two   *)
(* ranges have such a line between them.  A client that asked for the       *)
(* difference and is told of a change with no ranges has seen lines taken   *)
(* away or the break after the last line come or go, and of no change that  *)
(* no line did change (save_preview, diff_data_for_text_mutation).          *)
ChangesReported(before, after) ==
  LET lines == after.lines
      at(some) == SelectSeq([i \in DOMAIN lines |-> i], LAMBDA i : i \in some)
      found(n, line, some) ==
        IF n < Len(at(some)) /\ lines[at(some)[n + 1]] = line THEN n + 1 ELSE n
      old(some) == FoldLeft(LAMBDA n, line : found(n, line, some), 0, before.lines) = Len(at(some))
  IN \A kept \in SUBSET DOMAIN lines :
       old(kept) =>
         LET report == Reported(before, after, kept, TRUE)
             spans == report.ranges
             told == UNION {spans[i].low..spans[i].high : i \in DOMAIN spans}
         IN /\ told \subseteq DOMAIN lines /\ old(DOMAIN lines \ told)
            /\ \A i \in DOMAIN spans : spans[i].low <= spans[i].high
            /\ \A i \in DOMAIN spans \ {1} : spans[i - 1].high + 1 < spans[i].low
            /\ report.changed /\ spans = <<>> =>
                 Len(lines) < Len(before.lines) \/ after = [before EXCEPT !.ended = ~@]
            /\ ~report.changed => before = after

(* Line ranges mean the same lines to whoever reads, replaces and deletes.  *)
RangesReplaced ==
  form = "text" /\ body # Missing /\ (\A c \in Caller : call[c] = Idle) =>
    /\ \A ranges \in Ranges : ReplacedAtOnce(body.lines, ranges)
    /\ \A r \in {ranges[1] : ranges \in Ranges} :
         LET new == Joined(Replaced(body.lines, <<r>>))
         IN WritesBack(body.lines, r) /\ (new # Missing => ChangesReported(body, new))
    /\ \A b \in Brackets(0..Len(body.lines) + 1) : OpenRangeFits(body.lines, b)
    /\ \A b \in Brackets(1..2), c \in Brackets(2..3) : ParsedTogether(body.lines, <<b, c>>)
=============================================================================
