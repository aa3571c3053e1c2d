-------------------------- MODULE MCFormatterTree --------------------------
(* Documents of four nodes in each of the formats, with room for three      *)
(* more: a block nested below a block counts for two.                       *)
EXTENDS ReopenedTree
MCNode == 1..7
MCFormats == {"text", "json", "yaml", "markdown", "html", "xml"}
=============================================================================
