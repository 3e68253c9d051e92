----------------------------- MODULE MCDownload -----------------------------
(* A small instance of Download for TLC.                                   *)
EXTENDS Download

CONSTANTS alice, bob, t1, t2

TwoUsers == {alice, bob}

Root == <<"cache">>
Files ==
  [path \in {<<"cache">>, <<"cache", "a">>, <<"cache", "my clip">>, <<"cache", "big">>,
             <<"cache", "link">>, <<"cache", "link", "a">>, <<"etc">>} |->
     CASE path \in {<<"cache">>, <<"etc">>} -> [kind |-> "directory", size |-> 0]
       [] path = <<"cache", "link">> -> [kind |-> "symlink", size |-> 0]
       [] path = <<"cache", "big">> -> [kind |-> "regular", size |-> 9]
       [] OTHER -> [kind |-> "regular", size |-> 1]]

Escaped == [name \in {"my%20clip"} |-> "my clip"]

URI(scheme, path, tail) == [scheme |-> scheme, host |-> "", path |-> path, tail |-> tail]
Local(path) == [kind |-> "local_file_uri", uri |-> URI("file://", path, "")]
Spelled(scheme, tail) ==
  [kind |-> "local_file_uri", uri |-> URI(scheme, <<"cache", "a">>, tail)]
FileId(id) == [kind |-> "telegram_file_id", value |-> id]

Op(id, type, source) ==
  [id |-> id, type |-> type, source |-> source, media |-> <<>>, text |-> 0,
   caption |-> 0, buttons |-> <<>>]
Group(id, items) == [Op(id, "media_group", NoSource) EXCEPT !.media = items]
Item(type, source) == [type |-> type, source |-> source]
Plan(ops) == [version |-> 1, jobID |-> 1, operations |-> ops]

Audio == [type |-> "audio", token |-> 32]
Link == [type |-> "url", scheme |-> "https", host |-> "h"]

Single == {Op("a", type, source) :
  type \in {"video", "photo", "audio", "document", "poll"},
  source \in {NoSource, FileId("f"), FileId(""), Local(<<"cache", "a">>),
              Local(<<"cache", "..", "etc">>), Local(<<"cache", "link", "a">>),
              Local(<<"cache", "big">>), Local(<<"cache", "b">>)}}

Groups == {Group("g", [i \in 1..n |-> Item(type, IF i = 1 THEN source ELSE FileId("f"))]) :
  n \in {1, 2, 10, 11}, type \in {"video", "audio", "photo"},
  source \in {FileId("e"), Local(<<"cache", "a">>), Local(<<"cache">>)}}

Texts == {[Op("t", "text", NoSource) EXCEPT !.text = n, !.buttons = b] :
  n \in {0, 1, 4096, 4097}, b \in {<<>>, <<Audio, Link>>, <<[Link EXCEPT !.host = ""]>>}}

Plans ==
  {Plan(<<op>>) : op \in Single \cup Groups \cup Texts}
  \cup {Plan(<<>>), Plan([i \in 1..21 |-> Op(<<i>>, "photo", FileId("f"))]),
        Plan(<<Op("a", "photo", FileId("f")), Op("a", "photo", FileId("f"))>>),
        Plan(<<Op("a", "video", Local(<<"cache", "a">>)), Op("b", "audio", FileId("f"))>>)}

\* Plans whose local file is written in one of the other ways validateSource
\* takes, and one it does not.
OddPlans ==
  {Plan(<<Op("a", "video", source)>>) :
     source \in {Local(<<"cache", "my%20clip">>), Local(<<"cache", "x", "..", "a">>),
                 Local(<<"cache", "", ".", "a">>), Spelled("file:", ""), Spelled("FILE://", ""),
                 Spelled("file://", "?v=1"), Spelled("https://", "")}}
=============================================================================
