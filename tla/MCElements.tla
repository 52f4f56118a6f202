----------------------------- MODULE MCElements -----------------------------
(* Instances of ElementManager for TLC.                                      *)
EXTENDS ElementManager

New(id, name, biflowId) == [id |-> id, name |-> name, type |-> "u8", biflowId |-> biflowId]
Retyped(id) == [id |-> id, name |-> NoName, type |-> "u16", biflowId |-> NoId]
Renamed(id, name, biflowId) == [id |-> id, name |-> name, type |-> NoType, biflowId |-> biflowId]
File(pen, name, mode, bid, elems) == [pen |-> pen, name |-> name, biflow |-> [mode |-> mode, id |-> bid], elems |-> elems]
Extension(pen, elems) == [pen |-> pen, name |-> NoName, biflow |-> NoBiflow, elems |-> elems]

\* A scope of each mode, and extensions that add elements before and behind
\* the known ones, rename them, give them another type, or are wrong half way.
PenFile == File(20, 110, "PEN", 21, <<New(2, 20, NoId), New(5, 10, NoId)>>)
PenMore == Extension(20, <<New(3, 30, NoId), Retyped(2)>>)
PenNames == Extension(20, <<Renamed(5, 50, NoId), New(7, 10, NoId)>>)
PenBad == File(40, 130, "PEN", 41, <<New(2, 20, NoId), Renamed(3, 30, NoId)>>)
SplitFile == File(10, 120, "SPLIT", 3, <<New(2, 20, NoId), New(1, 10, NoId)>>)
SplitMore == Extension(10, <<Renamed(1, 30, NoId), New(3, 10, NoId)>>)
SplitBad == Extension(10, <<Retyped(2), New(6, 40, NoId)>>)
OwnFile == File(30, 100, "INDIVIDUAL", 0, <<New(1, 20, 4), New(3, 10, NoId)>>)
OwnMore == Extension(30, <<Renamed(1, 40, 4), New(2, 30, 5)>>)
OwnOver == Extension(30, <<Renamed(3, 50, 6)>>)

None == [files |-> {}, aliases |-> NoFile, mappings |-> NoFile]
Alias(name, aliased, sources) == [name |-> <<100, name>>, aliased |-> aliased, sources |-> sources]
Aliased == <<Alias(60, <<60, 70>>, <<<<100, 20>>, <<110, 20>>>>)>>
Mapped == <<[match |-> <<<<100, 60>>, <<110, 10>>>>, keys |-> {"tcp"}]>>
MCDirs == {[system |-> [files |-> {PenFile, OwnFile}, aliases |-> Aliased, mappings |-> Mapped],
            user |-> [None EXCEPT !.files = {PenNames}]],
           [system |-> [None EXCEPT !.files = {SplitFile, PenFile}],
            user |-> [None EXCEPT !.files = {SplitMore, PenMore}]]}
MCFiles == {PenFile, PenMore, PenNames, PenBad, SplitFile, SplitMore, SplitBad, OwnFile, OwnMore, OwnOver}
MCAdded == {<<30, New(6, 60, NoId)>>, <<20, Renamed(2, 60, NoId)>>, <<50, New(2, 10, NoId)>>}
MCReversed == {<<30, 3, 7>>, <<30, 1, 8>>}
=============================================================================
