-------------------------------- MODULE Grid --------------------------------
(***************************************************************************)
(* A page of results as one picture of numbered tiles with a keyboard      *)
(* (internal/bot/grid.go): posting it, paging in place, picking a number,  *)
(* closing it.  Anyone in the chat may tap, several at once; a session may *)
(* be evicted from its cache at any time.                                  *)
(*                                                                         *)
(* A picture is the sequence of the numbers on its tiles.                  *)
(***************************************************************************)
EXTENDS Integers, Sequences

CONSTANTS
  Totals,    \* the numbers of results a search may have
  PageSize,  \* gridPageSize
  Tappers    \* bound: taps handled at once

ASSUME GridAssumption == PageSize \in Nat \ {0} /\ Totals \subseteq Nat \ {0}

VARIABLES
  total,    \* len(sess.results)
  alive,    \* the session is in its cache
  memo,     \* sess.pages: the pictures rendered so far
  message,  \* the photo message in the chat
  tapper,   \* the handlers of the search and of the taps
  picks     \* ghost: the number last tapped and the result it sent

gridVars == <<total, alive, memo, message, tapper, picks>>

TotalPages == (total + PageSize - 1) \div PageSize
Pages == 0..(TotalPages - 1)

Smaller(a, b) == IF a < b THEN a ELSE b
PageLen(page) == Smaller(PageSize, total - page * PageSize)

\* collage.Cell.Number: numbers start at 1.
Picture(page) == [i \in 1..PageLen(page) |-> page * PageSize + i]

\* MUTANTS of Keyboard: the buttons start at the first result on every page;
\* Next leads past the last page.
BugKeyboard(page) ==
  [items |-> [i \in 1..PageLen(page) |-> i - 1],
   nav   |-> {p \in {page - 1, page + 1} : p \in Pages}]

BugNav(page) ==
  [items |-> [i \in 1..PageLen(page) |-> page * PageSize + i - 1],
   nav   |-> {p \in {page - 1, page + 1} : p \in 0..TotalPages}]

\* gridKeyboard: the indexes of the number buttons, the pages of ◀ and Next.
Keyboard(page) ==
  [items |-> [i \in 1..PageLen(page) |-> page * PageSize + i - 1],
   nav   |-> {p \in {page - 1, page + 1} : p \in Pages}]

NoMessage == [shown |-> FALSE, picture |-> <<>>, keyboard |-> [items |-> <<>>, nav |-> {}]]
Shown(picture, page) == [shown |-> TRUE, picture |-> picture, keyboard |-> Keyboard(page)]

\* "get": looks the session up.  "page": does so again, in editGridPage.
\* "render": has missed the memo.  "show": has the picture.
TapperPCs == {"idle", "get", "page", "render", "show"}
IdleTapper == [pc |-> "idle", action |-> "p", arg |-> 0, seen |-> 0, picture |-> <<>>]

GridTypeOK ==
  /\ total \in Totals
  /\ alive \in BOOLEAN
  /\ DOMAIN memo \subseteq Pages
  /\ message.shown \in BOOLEAN /\ message.keyboard.nav \subseteq Pages
  /\ \A t \in Tappers :
       /\ tapper[t].pc \in TapperPCs
       /\ tapper[t].action \in {"send", "p", "i", "x"}
       /\ tapper[t].action # "i" => tapper[t].arg \in Pages
  /\ picks \subseteq (Nat \X Nat)

\* The handlers are alike.
Searcher == CHOOSE t \in Tappers : TRUE

\* The search has found its results and added the session; one handler is
\* about to post the first page.
GridInit ==
  /\ total \in Totals
  /\ alive = TRUE
  /\ memo = <<>>
  /\ message = NoMessage
  /\ tapper = [t \in Tappers |-> IF t # Searcher THEN IdleTapper
                ELSE [IdleTapper EXCEPT !.pc = "page", !.action = "send"]]
  /\ picks = {}

At(t, pc) == tapper' = [tapper EXCEPT ![t].pc = pc]
Finish(t) == tapper' = [tapper EXCEPT ![t] = IdleTapper]

-----------------------------------------------------------------------------
(* The taps: what a user sees then is what they mean                       *)

TapPage(t) ==
  /\ tapper[t].pc = "idle" /\ message.shown
  /\ \E p \in message.keyboard.nav :
       tapper' = [tapper EXCEPT ![t] = [IdleTapper EXCEPT !.pc = "get", !.arg = p]]
  /\ UNCHANGED <<total, alive, memo, message, picks>>

TapItem(t) ==
  /\ tapper[t].pc = "idle" /\ message.shown
  /\ \E i \in DOMAIN message.picture :
       tapper' = [tapper EXCEPT ![t] = [IdleTapper EXCEPT !.pc = "get", !.action = "i",
                    !.arg = message.keyboard.items[i], !.seen = message.picture[i]]]
  /\ UNCHANGED <<total, alive, memo, message, picks>>

\* Close works without the session.
Close(t) ==
  /\ tapper[t].pc = "idle" /\ message.shown
  /\ message' = NoMessage
  /\ UNCHANGED <<total, alive, memo, tapper, picks>>

-----------------------------------------------------------------------------
(* onGridCallback, sendGridPage, editGridPage and renderGrid               *)

\* The session is gone: the tap is answered "expired", or not at all.
SessionGone(t) ==
  /\ tapper[t].pc \in {"get", "page"} /\ ~alive
  /\ Finish(t)
  /\ UNCHANGED <<total, alive, memo, message, picks>>

GetForPage(t) ==
  /\ tapper[t].pc = "get" /\ alive /\ tapper[t].action = "p"
  /\ At(t, "page")
  /\ UNCHANGED <<total, alive, memo, message, picks>>

\* sendGridPick: an index that is out of range sends nothing, nor does one
\* whose download or post fails.
Pick(t) ==
  /\ tapper[t].pc = "get" /\ alive /\ tapper[t].action = "i"
  /\ picks' \in {picks} \cup
       (IF tapper[t].arg \in 0..(total - 1)
        THEN {{<<tapper[t].seen, tapper[t].arg + 1>>}} ELSE {})
  /\ Finish(t)
  /\ UNCHANGED <<total, alive, memo, message>>

\* A page past the results is not rendered; one in the memo is taken as it is.
Lookup(t) ==
  LET page == tapper[t].arg
  IN  /\ tapper[t].pc = "page" /\ alive
      /\ IF page * PageSize >= total THEN Finish(t)
         ELSE IF page \in DOMAIN memo
         THEN tapper' = [tapper EXCEPT ![t].pc = "show", ![t].picture = memo[page]]
         ELSE At(t, "render")
      /\ UNCHANGED <<total, alive, memo, message, picks>>

\* The covers are fetched, a tile for each whether its cover came or not, and
\* the picture is remembered.
Render(t) ==
  LET page == tapper[t].arg
  IN  /\ tapper[t].pc = "render"
      /\ memo' = [p \in DOMAIN memo \cup {page} |-> IF p = page THEN Picture(page) ELSE memo[p]]
      /\ tapper' = [tapper EXCEPT ![t].pc = "show", ![t].picture = Picture(page)]
      /\ UNCHANGED <<total, alive, message, picks>>

\* collage.Render fails: a search is answered "load failed", a tap not at all.
RenderFails(t) ==
  /\ tapper[t].pc = "render"
  /\ Finish(t)
  /\ UNCHANGED <<total, alive, memo, message, picks>>

\* SendPhoto for a search, EditMessageMedia for a tap: picture and keyboard
\* change together.  A message that is closed by then stays closed.
Show(t) ==
  /\ tapper[t].pc = "show"
  /\ message' \in {message} \cup
       (IF message.shown \/ tapper[t].action = "send"
        THEN {Shown(tapper[t].picture, tapper[t].arg)} ELSE {})
  /\ Finish(t)
  /\ UNCHANGED <<total, alive, memo, picks>>

\* The cache drops the session: a thousand newer ones, or an hour.
Evict ==
  /\ alive
  /\ alive' = FALSE
  /\ UNCHANGED <<total, memo, message, tapper, picks>>

GridNext ==
  \/ \E t \in Tappers :
       \/ TapPage(t) \/ TapItem(t) \/ Close(t) \/ SessionGone(t) \/ GetForPage(t) \/ Pick(t)
       \/ Lookup(t) \/ Render(t) \/ RenderFails(t) \/ Show(t)
  \/ Evict
=============================================================================
