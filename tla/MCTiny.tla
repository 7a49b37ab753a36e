------------------------------- MODULE MCTiny -------------------------------
(***************************************************************************)
(* Two clients, one of which may misbehave.                                *)
(***************************************************************************)
EXTENDS Tiny

File(mode, data) == [mode |-> mode, data |-> data]
MCDisk == [f \in {"page", "empty", "dir", "cgi"} |->
             CASE f = "page" -> File("read", <<"p1", "p2">>)
               [] f = "empty" -> File("read", <<>>)
               [] f = "dir" -> File("dir", <<>>)
               [] f = "cgi" -> File("exec", <<"c1", "c2">>)]
MCCgiUris == {"cgi"}

\* Two of the headers fill lines of four bytes before their ends.
Get(u, headers) == <<"GET", u, CR, LF>> \o headers \o Blank
Asked ==
    {Get(u, <<>>) : u \in {"page", "empty", "dir", "cgi", "none"}}
    \cup {Get("page", <<"h", CR, LF>>), Get("page", [k \in 1 .. 4 |-> "h"] \o Blank),
          Get("page", [k \in 1 .. 8 |-> "h"] \o Blank),
          <<"POST", "page", CR, LF>> \o Blank}

\* One client asks for the page, the other for anything.
MCScenarios == {<<r, Get("page", <<>>)>> : r \in Asked} \cup {<<Get("page", <<>>), r>> : r \in Asked}
=============================================================================
