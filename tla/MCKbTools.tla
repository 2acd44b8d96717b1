----------------------------- MODULE MCKbTools ------------------------------
(* Small instances of KbTools and Search.                                  *)
EXTENDS Search

CONSTANTS i1, i2, i3, apple, pear, red, note, tool, notes, tools, drafts

Concept(i, links, aliases) ==
    [id |-> i, parses |-> TRUE, links |-> links, aliases |-> aliases]

Flat == [p \in Path |-> {}]

NoTargets == [p \in Path |-> << >>]

\* One concept that links to itself, and free paths.
OneSeed == [p \in Path |-> IF p = 1 THEN Concept(i1, {1}, {}) ELSE None]

\* Two concepts, the second linking to the first.
TwoSeed ==
    [p \in Path |-> CASE p = 1 -> Concept(i1, {}, {})
                      [] p = 2 -> Concept(i2, {1}, {})
                      [] OTHER -> None]

Called(word) == [word |-> word, casing |-> "registered"]
Shouted(word) == [word |-> word, casing |-> "other"]

\* Two types; the folder drafts belongs to none.
TwoTypes ==
    <<[name |-> Called(note), folder |-> notes], [name |-> Called(tool), folder |-> tools]>>

\* Path 2 is in a folder that is not registered (any more).
Folders == [p \in Path |-> CASE p = 2 -> drafts [] p = 3 -> tools [] OTHER -> notes]

OneFolder == [p \in Path |-> notes]

\* The files were written before the registry: their type is in any casing.
OldTypes == [p \in Path |-> Shouted(note)]

AnyRequest == {{}, {Shouted(note)}, {Called(tool)}}

NoteOrNone == {{}, {Called(note)}}

\* The second is deprecated; on "apple pear" it scores most, the others equal.
Texts ==
    [i \in Id |->
        CASE i = i1 -> [title |-> {apple}, description |-> {}, body |-> {},
                        tags |-> {red}, deprecated |-> FALSE]
          [] i = i2 -> [title |-> {apple}, description |-> {pear}, body |-> {apple, pear},
                        tags |-> {}, deprecated |-> TRUE]
          [] OTHER  -> [title |-> {}, description |-> {pear}, body |-> {apple},
                        tags |-> {red}, deprecated |-> FALSE]]

Ask(words, filter, tags) == [words |-> words, types |-> filter, tags |-> tags]

\* kb_list with and without a type, and searches by words and by tag.
Asked ==
    {Ask(<< >>, {}, {}), Ask(<< >>, {Called(note)}, {}), Ask(<<apple, pear>>, {}, {}),
     Ask(<<pear, pear>>, {}, {}), Ask(<<apple>>, {Shouted(tool)}, {red})}

NoQueries == {}
=============================================================================
