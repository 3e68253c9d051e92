----------------------------- MODULE PlanRules ------------------------------
(***************************************************************************)
(* What ValidatePlan (internal/vido/plan.go) accepts of a delivery plan,   *)
(* and what sendOperation (internal/bot/delivery.go) then makes of each of *)
(* its operations: two lists of cases in two packages that have to agree.  *)
(*                                                                         *)
(* A text is its length, 0 if it is empty.  A path is the sequence of its  *)
(* components; Disk maps the paths that exist to what Lstat says of them.  *)
(* The URI of a local source is kept as it is written: its scheme with the *)
(* slashes, its host, the components of its path, and its query or         *)
(* fragment.                                                               *)
(***************************************************************************)
EXTENDS Integers, SequencesExt

CONSTANTS
  CacheRoot,             \* the path of the shared cache
  Disk,                  \* [path -> [kind, size]]: what is on the disk (external)
  Escapes,               \* [component as written -> component]: %-escapes
  MaxTelegramFileBytes   \* 2 GiB in the code

NoSource == [kind |-> "none"]

\* filepath.Clean of an absolute path
Clean(path) ==
  FoldLeft(LAMBDA acc, part : CASE part \in {"", "."} -> acc
                                [] part = ".." /\ acc = <<>> -> acc
                                [] part = ".." /\ acc # <<>> -> Front(acc)
                                [] OTHER -> Append(acc, part), <<>>, path)

\* The spellings in which url.Parse reads the scheme file of an absolute path.
FileSchemes == {"file://", "file:", "FILE://"}

\* The Path of a parsed URI: without query and fragment, and unescaped.
URLPath(uri) ==
  [i \in DOMAIN uri.path |->
     IF uri.path[i] \in DOMAIN Escapes THEN Escapes[uri.path[i]] ELSE uri.path[i]]

\* Inside the root, with nothing on the way that is missing or a symlink.
ValidateLocal(path) ==
  /\ IsPrefix(CacheRoot, path)
  /\ \A n \in (Len(CacheRoot) + 1)..Len(path) :
       LET part == SubSeq(path, 1, n)
       IN  part \in DOMAIN Disk /\ Disk[part].kind # "symlink"
  /\ path \in DOMAIN Disk
  /\ Disk[path].kind = "regular"
  /\ Disk[path].size <= MaxTelegramFileBytes

ValidateSource(source) ==
  \/ source.kind = "telegram_file_id" /\ source.value # ""
  \/ /\ source.kind = "local_file_uri"
     /\ source.uri.scheme \in FileSchemes
     /\ source.uri.host = ""
     /\ ValidateLocal(Clean(URLPath(source.uri)))

SingleTypes == {"video", "photo", "audio", "document"}

GroupTypes == {"video", "photo", "document"}

ValidateButton(button) ==
  \/ button.type = "audio" /\ button.token = 32
  \/ button.type = "url" /\ button.scheme = "https" /\ button.host # ""

ValidateOperation(op) ==
  /\ \/ op.type \in SingleTypes /\ op.source # NoSource /\ ValidateSource(op.source)
     \/ /\ op.type = "media_group"
        /\ Len(op.media) \in 2..10
        /\ \A item \in ToSet(op.media) : item.type \in GroupTypes /\ ValidateSource(item.source)
     \/ op.type = "text" /\ op.text \in 1..4096
  /\ op.caption <= 1024
  /\ \A button \in ToSet(op.buttons) : ValidateButton(button)

ValidatePlan(plan, expectedJobID) ==
  /\ plan.version = 1 /\ plan.jobID = expectedJobID /\ plan.jobID > 0
  /\ Len(plan.operations) \in 1..20
  /\ \A i \in DOMAIN plan.operations :
       /\ plan.operations[i].id # ""
       /\ \A j \in 1..(i - 1) : plan.operations[j].id # plan.operations[i].id
       /\ ValidateOperation(plan.operations[i])

-----------------------------------------------------------------------------
(* What is sent of an operation                                            *)

\* A local file is asked for by the URI as written, less a leading "file://".
InputFile(source) ==
  IF source.kind = "local_file_uri"
  THEN [local |-> TRUE,
        data |-> [scheme |-> IF source.uri.scheme = "file://" THEN "" ELSE source.uri.scheme,
                  host |-> source.uri.host, path |-> source.uri.path, tail |-> source.uri.tail]]
  ELSE [local |-> FALSE, data |-> source.value]

\* A button that is not for audio becomes a link.
OperationMarkup(buttons) ==
  [i \in DOMAIN buttons |-> IF buttons[i].type = "audio" THEN "callback" ELSE "url"]

\* The items of these types, in order.
Taken(media, types) ==
  LET positions == {i \in DOMAIN media : media[i].type \in types}
  IN  [n \in 1..Cardinality(positions) |->
         media[CHOOSE i \in positions : Cardinality({j \in positions : j <= i}) = n]]

\* The message Telegram is asked for.  A group goes out with neither caption
\* nor buttons, whatever its operation has, and without the items that are none
\* of the three types; an operation of another type is an error.
SendOperation(op) ==
  CASE op.type \in SingleTypes ->
         [ok |-> TRUE, media |-> <<InputFile(op.source)>>, text |-> 0,
          caption |-> op.caption, markup |-> OperationMarkup(op.buttons)]
    [] op.type = "media_group" ->
         LET taken == Taken(op.media, {"photo", "video", "document"})
         IN  [ok |-> TRUE, media |-> [i \in DOMAIN taken |-> InputFile(taken[i].source)],
              text |-> 0, caption |-> 0, markup |-> <<>>]
    [] op.type = "text" ->
         [ok |-> TRUE, media |-> <<>>, text |-> op.text,
          caption |-> 0, markup |-> OperationMarkup(op.buttons)]
    [] OTHER -> [ok |-> FALSE]

\* The file_ids a failed send invalidates: all of the operation's if Telegram
\* calls a file identifier bad, else none.
InvalidFileIDSources(op, refusal) ==
  {s.value : s \in {t \in {op.source} \cup {item.source : item \in ToSet(op.media)} :
                      refusal = "bad file identifier" /\ t.kind = "telegram_file_id"}}

-----------------------------------------------------------------------------
(* What was accepted against what is sent                                  *)

\* The sources an operation of its type has, in order.
Sources(op) ==
  CASE op.type = "media_group" -> [i \in DOMAIN op.media |-> op.media[i].source]
    [] op.type \in SingleTypes -> <<op.source>>
    [] OTHER -> <<>>

\* The file validateSource looked at, by its path alone, or the file_id.
ValidatedFile(source) ==
  IF source.kind = "local_file_uri"
  THEN [local |-> TRUE,
        data |-> [scheme |-> "", host |-> "", path |-> Clean(URLPath(source.uri)), tail |-> ""]]
  ELSE [local |-> FALSE, data |-> source.value]

\* A URI that says its path outright: file:// and a clean path with no escapes,
\* query or fragment.
Canonical(uri) ==
  /\ uri.scheme = "file://" /\ uri.tail = ""
  /\ uri.path = Clean(URLPath(uri))

CanonicalSource(source) == source.kind = "local_file_uri" => Canonical(source.uri)

\* Every file of the message is asked for as the one that was validated.
SentAsValidated(op) ==
  SendOperation(op).media = [i \in DOMAIN Sources(op) |-> ValidatedFile(Sources(op)[i])]
=============================================================================
