------------------------------ MODULE MCShell -------------------------------
(***************************************************************************)
(* TLC's instances of Shell: a few lines, and three programs.  src writes  *)
(* more than a pipe holds, cat reads to the end and writes, true does      *)
(* neither.                                                                *)
(***************************************************************************)
EXTENDS Shell

Writes == ("src" :> 2) @@ ("cat" :> 1) @@ ("true" :> 0)
ReadToEnd == {"cat"}

Name(s) == [type |-> "argument", lexem |-> s]
Op(t) == [type |-> t, lexem |-> t]

AndOr == <<Name("src"), Op("and"), Name("true"), Name("x"), Op("or"), Name("true")>>
Piped == <<Name("src"), Op("pipe"), Name("cat"), Op("pipe"), Name("cat")>>
PipesAndOr == <<Name("true"), Op("or"), Name("src"), Op("pipe"), Name("cat"), Op("and"), Name("true")>>
Files == <<Name("src"), Op("output"), Name("f"), Op("and"),
           Name("cat"), Op("input"), Name("f"), Op("output"), Name("g"), Op("pipe"), Name("cat")>>
Missing == <<Name("nosuch"), Op("or"), Name("true")>>
Background == <<Name("src"), Op("pipe"), Name("cat"), Op("subprocess")>>
Job == <<Name("true"), Op("subprocess")>>
Plain == <<Name("true")>>

SomeScripts == {<<AndOr>>, <<Piped, <<>>, Plain>>, <<PipesAndOr>>, <<Files>>, <<Missing>>, <<Background, Plain>>,
                <<Job, Job, Plain>>, <<Plain, Job>>}

BackgroundFirst == {<<Job, Plain>>}
=============================================================================
