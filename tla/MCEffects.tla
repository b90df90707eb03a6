------------------------------ MODULE MCEffects ------------------------------
(* Effects with the plans of a small site: a page built from a seed, and an *)
(* effect beside it.                                                        *)
EXTENDS Effects

Lit(v) == <<"lit", v>>
Ref(n) == <<"ref", n>>
Eff(n, x, in) == [name |-> n, exec |-> x, inputs |-> in]
In(v) == [value |-> v]

\* Declared in an order that is not topological.
Chain(seed) == <<Eff("page", "html", In(Ref("src"))),
                 Eff("src", "cmd", In(Lit(seed))),
                 Eff("solo", "cmd", In(Lit("x")))>>

\* Two effects with one identity, and a dependent of the first.
Twins == <<Eff("src", "cmd", In(Lit("a"))),
           Eff("solo", "cmd", In(Lit("a"))),
           Eff("page", "html", In(Ref("src")))>>

\* Two inputs, three levels.
Deep == <<Eff("src", "cmd", In(Lit("a"))),
          Eff("page", "html", In(Ref("src"))),
          Eff("solo", "file", [content |-> Ref("page"), path |-> Ref("src")])>>

Cyclic == <<Eff("src", "cmd", In(Ref("page"))),
            Eff("page", "html", In(Ref("src")))>>

Twice == <<Eff("src", "cmd", In(Lit("a"))), Eff("src", "cmd", In(Lit("b")))>>

Dangling == <<Eff("page", "html", In(Ref("src")))>>

\* An executor that is not registered, needed beside one that is.
Gap == <<Eff("src", "cmd", In(Lit("b"))), Eff("solo", "ovh", In(Lit("x")))>>

Sites == {Chain("a"), Chain("b"), Twins, Deep, Cyclic, Dangling, Twice, Gap}

=============================================================================
