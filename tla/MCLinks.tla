------------------------------- MODULE MCLinks -------------------------------
(* Small instances of Links: three concepts in two directories, one of them *)
(* moved into a directory of its own, and one former path.                  *)
EXTENDS Links

Kept == {<<"c", "a">>, <<"d", "a">>, <<"d", "b">>}

\* c/b.md is a former path of d/a.md.
OldHome == (<<"c", "b">> :> <<"d", "a">>)

OneMove == (<<"d", "a">> :> <<"e", "f", "a">>)

First == Link(Target("relative", <<".", "a">>, TRUE))          \* [x](./a.md#h)
Second == Link(Target("relative", <<"b">>, FALSE))             \* [x](b.md)
Across == Link(Target("relative", <<"..", "d", "a">>, FALSE))  \* [x](../d/a.md)
Direct == Link(Target("absolute", <<"d", "a">>, FALSE))        \* [x](/d/a.md)
Named == Bare(<<"d", "a">>)                                    \* d/a.md
Web == Link(Target("url", <<"d", "a">>, FALSE))                \* [x](https://d/a)

Texts(title, description, resource, body) ==
    [title |-> title, description |-> description, resource |-> resource,
     tags |-> {}, body |-> body]

LinkTokens ==
    Texts({Web}, {Across}, {Named},
          {Newline, Tick, Ticks, Tildes, Indent, First, Second, Direct, Named})

TickTokens == Texts({Tick}, {Tick}, {}, {Newline, Tick, First})
=============================================================================
