----------------------------- MODULE MCConvert -----------------------------
(* Small instances of Convert: what the constants are for each run. *)
EXTENDS Convert

\* Two files in one call of the program; one file; standard input.
TwoFiles == {<<"f1", "f2">>}
OneFile == {<<"f1">>}
StdinOnly == {<<Std>>}
FileOrStdin == {<<"f1">>, <<Std>>}

\* Contents of less than one buffer, of exactly one, of more than one; with
\* a character split between two buffers, one whose image overflows the
\* buffer, malformed and cut off input.
Bytes == {<<>>, <<"a">>, <<"w", "w">>, <<"a", "l", "t">>, <<"a", "a", "x">>}
MoreBytes == Bytes \cup {<<"l", "t", "a">>, <<"a", "a", "l">>, <<"x", "a">>,
                         <<"a", "w", "a", "l", "t">>, <<"x", "a", "a">>,
                         <<"a", "l", "t", "a">>}

Internal == {<<"builtin", "iconv">>, <<"recode", "iconv">>, <<>>}
BuiltinIconv == {<<"builtin", "iconv">>, <<"iconv", "builtin">>}
ExternLast == {<<"extern">>, <<"builtin", "extern">>, <<"iconv", "extern">>}
ExternFirst == {<<"extern">>, <<"extern", "builtin">>}
RecodeOnly == {<<"recode">>}
AnyList == Internal \cup BuiltinIconv \cup ExternLast \cup ExternFirst

F12 == {"f1", "f2"}
F1 == {"f1"}

\* Every fault; all but those that nobody reports; all under which a copy to
\* standard output still works.
AllFaults == FaultKinds
LoudFaults == FaultKinds \ {"flush", "unlink"}
CopyWorks == FaultKinds \ {"read", "write", "flush"}
EveryFault == {AllFaults, LoudFaults, CopyWorks}
Loud == {LoudFaults}
ReadFault == {{"read"}}
NoFaults == {{}}
=============================================================================
