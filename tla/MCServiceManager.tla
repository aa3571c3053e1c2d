-------------------------- MODULE MCServiceManager --------------------------
(* Two terminals, two processes to spawn.  By hand, the operator names      *)
(* another port, blanks the editor's sections, or gets one of them wrong.   *)
EXTENDS ServiceManager

Handmade ==
  LET right == Merged("https")
  IN {[right EXCEPT !.port = 8081], [Bare EXCEPT !.sections = "null"],
      [right EXCEPT !.formatter = "word"]}
=============================================================================
