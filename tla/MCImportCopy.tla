----------------------------- MODULE MCImportCopy -----------------------------
(***************************************************************************)
(* Instances of ImportCopy for TLC: the content T of the download          *)
(* directory d is a file, or a directory of a file and a directory.        *)
(***************************************************************************)
EXTENDS ImportCopy, TLC

Downloads == <<"d">>

File   == <<"d", "T">> :> "x"
Folder == <<"d", "T">> :> "dir" @@ <<"d", "T", "a">> :> "x"
            @@ <<"d", "T", "b">> :> "dir" @@ <<"d", "T", "b", "a">> :> "y"

Media == {
  <<>>,                                                      \* no media directory yet
  <<"m">> :> "other",                                        \* a file in the way
  <<"m">> :> "dir" @@ <<"m", "T">> :> "dir" @@ <<"m", "T", "a">> :> "other",
  <<"m">> :> "dir" @@ <<"m", "T">> :> "dir" @@ <<"m", "T", "a">> :> "dir",
  <<"m">> :> "dir" @@ <<"m", "T">> :> "other" }

Disk(content, rest) == With(With([p \in {<<"d">>} |-> "dir"], content), rest)

\* The target is apart from the content, in it, or a directory of it.
Elsewhere ==
  {[fs |-> Disk(c, r), target |-> <<"m">>] : c \in {File, Folder}, r \in Media}
    \cup {[fs |-> Disk(c, <<>>), target |-> t] :
            c \in {File, Folder}, t \in {<<"d", "T">>, <<"d", "T", "b">>}}

\* The condition of the theorems about ImportCopy, which the next starts break.
ASSUME ElsewhereIsApart == \A start \in Elsewhere : Apart(start.fs, start.target)

\* The target is the download directory.
Same == {[fs |-> Disk(Folder, <<>>), target |-> <<"d">>]}

ASSUME SameIsNotApart == \A start \in Same : ~Apart(start.fs, start.target)

=============================================================================
