------------------------------ MODULE MCBashCall ------------------------------
(***************************************************************************)
(* HOME, a variable of the runner, a recipe variable, one whose name no    *)
(* shell can assign, a variable of the step's env block, and an inherited  *)
(* one.                                                                    *)
(***************************************************************************)
EXTENDS BashCall, TLC

CONSTANTS home, tree, recipe, option, word, ambient

MCNames     == {home, tree, recipe, option, word, ambient}
MCProtected == {home, tree, recipe, word}
MCSpillable == {recipe, option, ambient}
MCOwn       == {tree}
MCFallbacks == {home}
MCRank      == home :> 1 @@ tree :> 2 @@ recipe :> 3 @@ option :> 4 @@ word :> 5
               @@ ambient :> 6
MCAllowed   == MCNames \ {tree}
Env(h, r, o, w, a) == home :> h @@ tree :> 0 @@ recipe :> r @@ option :> o @@ word :> w
                      @@ ambient :> a
MCParents   == {Env(h, 0, o, 0, a) : h \in {0, 1, 5}, o \in {0, 3}, a \in {0, 3, 4, 6}}
MCSteps     == {Env(0, r, o, w, 0) : r \in {0, 1, 2, 6}, o \in {0, 3, 4, 5}, w \in {0, 4, 6}}

=============================================================================
