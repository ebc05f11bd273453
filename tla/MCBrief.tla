-------------------------------- MODULE MCBrief --------------------------------
(* Answers of the reflector with each field missing, blank, padded or of   *)
(* two lines, and what an operator may make of each.                       *)
EXTENDS Brief

One == <<<<"a">>>>
Two == <<<<"a">>, <<"b">>>>
Padded == <<<<>>, <<"c">>, <<>>>>
BlankText == <<<<>>>>

\* a field that is given and one that is not, blanks where a name is missing
Answers ==
    [proposedTitle : {Absent, Two}, title : {Absent, One}, summary : {Absent, One},
     restatement : {Absent, BlankText, Two}, brief : {Absent, One}, goal : {Absent, Padded},
     lists : [ListFields -> {Absent, <<>>, <<BlankText>>, <<Two, BlankText>>, <<One, Padded>>}]]

\* what is typed: nothing, a word, two lines with blanks around, the "yes" of the CLI
Texts == {Empty, <<<<"x">>>>, <<<<"x">>, <<>>, <<"y">>, <<>>>>, <<<<"yes">>>>}
===============================================================================
