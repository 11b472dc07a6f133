--------------------------- MODULE MCUserRuntime ---------------------------
(***************************************************************************)
(* Instance of UserRuntime for TLC: pages of four words, and every image   *)
(* of up to two segments out of a few that share pages, leave pages out,   *)
(* end in the middle of one, hold nothing, or are not in the file.         *)
(***************************************************************************)
EXTENDS UserRuntime

FileSize == 6

Header(vaddr, memsz, filesz, offset, flags) ==
  [type |-> "load", vaddr |-> vaddr, memsz |-> memsz, filesz |-> filesz,
   offset |-> offset, flags |-> flags]

Note == [Header(4, 2, 2, 0, {}) EXCEPT !.type = "note"]

Text == {Header(4, 4, 4, 0, {"R", "X"}), Header(5, 2, 2, 1, {"R", "X"}),
         Header(4, 8, 5, 0, {"R", "X"}), Header(0, 2, 2, 0, {"R", "X"})}
Data == {Header(7, 3, 2, 3, {"R", "W"}), Header(8, 4, 1, 4, {"R", "W"}),
         Header(13, 2, 0, 0, {"R", "W"}), Header(9, 0, 0, 0, {"R", "W"}),
         Header(8, 1, 2, 0, {"R", "W"}), Header(14, 2, 2, 5, {"R"}),
         Header(6, 6, 3, 2, {"R", "W", "X"})}

Files ==
  {<<>>, <<Note>>, <<Note, Header(8, 2, 2, 1, {"R", "X"})>>, <<Header(8, 0, 0, 0, {"R"})>>}
    \cup {<<d>> : d \in Data}
    \cup {<<t, d>> : t \in Text, d \in Data}
    \cup {<<d, t>> : t \in Text, d \in Data}

\* A module's id is the list of its headers here.
Malformed == <<Note, Note>>
Missing == <<Note, Note, Note>>

Module(headers, wellFormed) ==
  [id |-> headers, wellFormed |-> wellFormed, size |-> FileSize, headers |-> headers]

MCBootModules ==
  {Module(headers, TRUE) : headers \in Files} \cup {Module(Malformed, FALSE)}

MCRequestedIds == Files \cup {Malformed, Missing}

\* Nothing, or all Loader has.
MCRequestedCaps == {{}, Capabilities}
=============================================================================
