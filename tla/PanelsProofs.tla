---------------------------- MODULE PanelsProofs ----------------------------
(***************************************************************************)
(* Theorems about Panels: the grid, for every number of results, page size *)
(* and set of handlers, and the statistics, for every TTL and timeout the  *)
(* assumptions allow.                                                      *)
(***************************************************************************)
EXTENDS Panels, TLAPS

\* A picture is that of its page, wherever it is kept, and goes with the page's
\* keyboard; the number a handler was tapped with goes with its index.
MemoOK == \A p \in DOMAIN memo : memo[p] = Picture(p)

TapperOK(s) ==
  /\ s.pc \in {"page", "render", "show"} => s.action # "i"
  /\ s.pc = "show" => s.picture = Picture(s.arg)
  /\ s.action = "i" => s.seen = s.arg + 1

Pictures == {<<>>} \cup {Picture(p) : p \in Pages}
Shapes == [pc : TapperPCs, action : {"send", "p", "i", "x"}, arg : Nat, seen : Nat,
           picture : Pictures]

TappersOK ==
  /\ tapper \in [Tappers -> Shapes]
  /\ \A t \in Tappers : TapperOK(tapper[t])

MessageOK ==
  message = NoMessage \/ \E p \in Pages : message = Shown(Picture(p), p)

GridInv == GridTypeOK /\ MemoOK /\ TappersOK /\ MessageOK /\ PickIsWhatWasSeen

-----------------------------------------------------------------------------

Fetching(v, k) == viewer[v].pc \in {"fetch", "put"} /\ viewer[v].key = k

SnapOK(k) ==
  /\ snaps[k].by = "nobody" => snaps[k] = NoSnap
  /\ snaps[k].by # "nobody" => snaps[k].expiresAt = snaps[k].updatedAt + TTL
  /\ snaps[k].data <= clock

\* A view waits for the database no longer than the timeout.
ViewOK(v) ==
  /\ viewer[v].pc \in {"fetch", "put"} =>
       viewer[v].since <= clock /\ clock <= viewer[v].since + FetchTime
  /\ viewer[v].pc = "put" => viewer[v].got <= clock

\* A first view that is still under way when there is a snapshot began at most a
\* timeout after the one that put it.
FirstOK(k) ==
  snaps[k].by = "view" =>
    \A v \in Viewers : Fetching(v, k) => viewer[v].since <= snaps[k].updatedAt + FetchTime

\* By the time anybody sees a snapshot expire, no first view is under way.
Renewing(k) ==
  \/ \E v \in Viewers : viewer[v].pc = "stale" /\ viewer[v].key = k
  \/ refresher[k].pc # "idle"
  \/ snaps[k].by = "refresh"

RenewOK(k) ==
  /\ Renewing(k) => snaps[k].by # "nobody" /\ \A v \in Viewers : ~Fetching(v, k)
  /\ refresher[k].pc = "put" =>
       /\ refresher[k].got <= clock
       /\ refresher[k].got # Empty => snaps[k].data <= refresher[k].got

StatsInv ==
  /\ StatsTypeOK
  /\ \A k \in StatsKeys : SnapOK(k) /\ FirstOK(k) /\ RenewOK(k)
  /\ \A v \in Viewers : ViewOK(v)

PanelsInv == GridInv /\ StatsInv /\ kind \in {"stats", "grid"}

USE GridAssumption, StatsAssumption DEF GridAssumption, StatsAssumption

-----------------------------------------------------------------------------
(* Pages                                                                   *)

LEMMA Products ==
  ASSUME NEW p \in Nat
  PROVE  /\ p * PageSize \in Nat /\ (p + 1) * PageSize = p * PageSize + PageSize
         /\ 0 * PageSize = 0
         /\ p > 0 => (p - 1) * PageSize = p * PageSize - PageSize /\ p * PageSize >= PageSize
  OBVIOUS

LEMMA Growing ==
  ASSUME NEW a \in Nat, NEW b \in Nat, a <= b
  PROVE  a * PageSize <= b * PageSize
  OBVIOUS

\* The pages are those that begin within the results.
LEMMA PagesBegin ==
  ASSUME total \in Totals
  PROVE  \A p \in Nat : p \in Pages <=> p * PageSize < total
  <1> DEFINE q == TotalPages
  <1>1. total \in Nat /\ total > 0 /\ PageSize \in Nat /\ PageSize > 0
    OBVIOUS
  <1>2. q \in Nat /\ q * PageSize <= total + PageSize - 1 /\ total + PageSize - 1 < (q + 1) * PageSize
    BY <1>1 DEF TotalPages
  <1> HIDE DEF q
  <1>3. q * PageSize >= total
    BY <1>1, <1>2, Products
  <1> SUFFICES ASSUME NEW p \in Nat PROVE p <= q - 1 <=> p * PageSize < total
    BY <1>2 DEF Pages, q
  <1>4. CASE p <= q - 1
    <2>1. (p + 1) * PageSize <= q * PageSize
      BY <1>2, <1>4, Growing
    <2>2. p * PageSize \in Nat /\ (p + 1) * PageSize = p * PageSize + PageSize
      BY Products
    <2>3. QED
      BY <1>1, <1>2, <1>4, <2>1, <2>2
  <1>5. CASE p > q - 1
    <2>1. q * PageSize <= p * PageSize
      BY <1>2, <1>5, Growing
    <2>2. p * PageSize \in Nat /\ q * PageSize \in Nat
      BY <1>2, Products
    <2>3. QED
      BY <1>1, <1>2, <1>3, <1>5, <2>1, <2>2
  <1>6. QED
    BY <1>2, <1>4, <1>5

LEMMA PageFacts ==
  ASSUME total \in Totals
  PROVE  /\ total \in Nat /\ 0 \in Pages /\ Pages \subseteq Nat
         /\ \A p \in Pages :
              /\ p * PageSize \in Nat /\ PageLen(p) \in Nat /\ PageLen(p) > 0
              /\ p * PageSize + PageLen(p) <= total
              /\ p * PageSize + PageLen(p) < total => PageLen(p) = PageSize
  <1>1. total \in Nat /\ total > 0
    OBVIOUS
  <1>2. Pages \subseteq Nat
    BY DEF Pages
  <1>3. 0 \in Pages
    BY <1>1, PagesBegin, Products
  <1>4. ASSUME NEW p \in Pages
        PROVE  /\ p * PageSize \in Nat /\ PageLen(p) \in Nat /\ PageLen(p) > 0
               /\ p * PageSize + PageLen(p) <= total
               /\ p * PageSize + PageLen(p) < total => PageLen(p) = PageSize
    <2>1. p \in Nat /\ p * PageSize \in Nat /\ p * PageSize < total
      BY <1>2, PagesBegin, Products
    <2> DEFINE b == p * PageSize
    <2>2. b \in Nat /\ b < total /\ PageLen(p) = Smaller(PageSize, total - b)
      BY <2>1 DEF PageLen
    <2> HIDE DEF b
    <2>3. /\ PageLen(p) \in Nat /\ PageLen(p) > 0 /\ b + PageLen(p) <= total
          /\ b + PageLen(p) < total => PageLen(p) = PageSize
      BY <1>1, <2>2 DEF Smaller
    <2>4. QED
      BY <2>1, <2>3 DEF b
  <1>5. QED
    BY <1>1, <1>2, <1>3, <1>4

LEMMA OnPicture ==
  ASSUME total \in Totals, NEW p \in Pages
  PROVE  /\ DOMAIN Picture(p) = 1..PageLen(p) /\ Len(Picture(p)) = PageLen(p)
         /\ \A i \in 1..PageLen(p) : Picture(p)[i] = p * PageSize + i
         /\ DOMAIN Keyboard(p).items = 1..PageLen(p) /\ Len(Keyboard(p).items) = PageLen(p)
         /\ \A i \in 1..PageLen(p) : Keyboard(p).items[i] = p * PageSize + i - 1
         /\ Keyboard(p).nav = {n \in {p - 1, p + 1} : n \in Pages}
  BY PageFacts DEF Picture, Keyboard

-----------------------------------------------------------------------------
(* The grid                                                                *)

LEMMA IdleShape ==
  ASSUME total \in Totals
  PROVE  /\ IdleTapper \in Shapes /\ TapperOK(IdleTapper) /\ IdleTapper.pc = "idle"
         /\ IdleTapper.action = "p" /\ IdleTapper.arg \in Pages
  BY PageFacts DEF IdleTapper, Shapes, TapperPCs, TapperOK, Pictures

\* One handler moves.
LEMMA TapperMoves ==
  ASSUME TappersOK, GridTypeOK, NEW t \in Tappers, NEW x \in Shapes, TapperOK(x),
         x.action # "i" => x.arg \in Pages,
         tapper' = [tapper EXCEPT ![t] = x], UNCHANGED total
  PROVE  /\ TappersOK'
         /\ \A r \in Tappers : /\ tapper'[r].pc \in TapperPCs
                               /\ tapper'[r].action \in {"send", "p", "i", "x"}
                               /\ tapper'[r].action # "i" => tapper'[r].arg \in Pages'
  <1>1. \A r \in Tappers : tapper'[r] = IF r = t THEN x ELSE tapper[r]
    BY DEF TappersOK
  <1>2. /\ Pages' = Pages /\ Pictures' = Pictures /\ Shapes' = Shapes
        /\ \A q \in Shapes : TapperOK(q)' <=> TapperOK(q)
    BY DEF Pages, TotalPages, Pictures, Picture, PageLen, Smaller, Shapes, TapperOK
  <1>3. tapper' \in [Tappers -> Shapes]'
    BY <1>2 DEF TappersOK
  <1>4. \A r \in Tappers : TapperOK(tapper[r])'
    BY <1>1, <1>2, <1>3 DEF TappersOK
  <1>5. QED
    BY <1>1, <1>2, <1>3, <1>4 DEF TappersOK, GridTypeOK, Shapes

LEMMA InitGrid == GridInit => GridInv
  <1> SUFFICES ASSUME GridInit PROVE GridInv
    OBVIOUS
  <1>1. total \in Totals
    BY DEF GridInit
  <1> DEFINE x == [IdleTapper EXCEPT !.pc = "page", !.action = "send"]
  <1>2. x \in Shapes /\ TapperOK(x) /\ x.action = "send" /\ x.arg \in Pages
    BY <1>1, PageFacts DEF IdleTapper, Shapes, TapperPCs, TapperOK, Pictures
  <1>3. \A t \in Tappers : tapper[t] = IdleTapper \/ tapper[t] = x
    BY DEF GridInit
  <1> HIDE DEF x
  <1>4. TappersOK
    BY <1>1, <1>2, <1>3, IdleShape DEF GridInit, TappersOK, x
  <1>5. GridTypeOK
    <2>1. message.shown \in BOOLEAN /\ message.keyboard.nav = {} /\ DOMAIN memo = {}
      BY DEF GridInit, NoMessage
    <2>2. \A t \in Tappers :
            /\ tapper[t].pc \in TapperPCs /\ tapper[t].action \in {"send", "p", "i", "x"}
            /\ tapper[t].action # "i" => tapper[t].arg \in Pages
      BY <1>1, <1>2, <1>3, IdleShape DEF Shapes
    <2>3. alive \in BOOLEAN /\ picks = {}
      BY DEF GridInit
    <2>4. QED
      BY <1>1, <2>1, <2>2, <2>3 DEF GridTypeOK
  <1>6. MemoOK /\ MessageOK /\ PickIsWhatWasSeen
    BY DEF GridInit, MemoOK, MessageOK, PickIsWhatWasSeen
  <1>7. QED
    BY <1>4, <1>5, <1>6 DEF GridInv

\* A handler moves, and the memo, the message and the picks keep to their rules.
LEMMA GridFrame ==
  ASSUME GridInv, NEW t \in Tappers, NEW x \in Shapes, TapperOK(x),
         x.action # "i" => x.arg \in Pages,
         tapper' = [tapper EXCEPT ![t] = x], UNCHANGED total,
         alive' \in BOOLEAN,
         memo' = memo \/ (DOMAIN memo' \subseteq Pages /\ \A p \in DOMAIN memo' : memo'[p] = Picture(p)),
         \/ message' = message \/ message' = NoMessage
         \/ \E p \in Pages : message' = Shown(Picture(p), p),
         picks' = picks \/ \E n \in Nat : picks' = {<<n, n>>}
  PROVE  GridInv'
  <1> USE DEF GridInv
  <1>1. Pages' = Pages /\ \A p \in Pages : Picture(p)' = Picture(p) /\ Shown(Picture(p), p)' = Shown(Picture(p), p)
    BY DEF Pages, TotalPages, Picture, PageLen, Smaller, Shown, Keyboard
  <1>2. MemoOK' /\ DOMAIN memo' \subseteq Pages
    <2>1. DOMAIN memo' \subseteq Pages /\ \A p \in DOMAIN memo' : memo'[p] = Picture(p)
      BY DEF MemoOK, GridTypeOK
    <2>2. QED
      BY <1>1, <2>1 DEF MemoOK
  <1>3. MessageOK'
    <2>1. message' = NoMessage \/ \E p \in Pages : message' = Shown(Picture(p), p)
      BY DEF MessageOK
    <2>2. QED
      BY <1>1, <2>1 DEF MessageOK
  <1>4. message'.shown \in BOOLEAN /\ message'.keyboard.nav \subseteq Pages
    <2>1. message' = NoMessage \/ \E p \in Pages : message' = Shown(Picture(p), p)
      BY DEF MessageOK
    <2>2. CASE message' = NoMessage
      BY <2>2 DEF NoMessage
    <2>3. ASSUME NEW p \in Pages, message' = Shown(Picture(p), p)
          PROVE  message'.shown \in BOOLEAN /\ message'.keyboard.nav \subseteq Pages
      BY <2>3 DEF Shown, Keyboard
    <2>4. QED
      BY <2>1, <2>2, <2>3
  <1>5. picks' \subseteq (Nat \X Nat) /\ PickIsWhatWasSeen'
    BY DEF GridTypeOK, PickIsWhatWasSeen
  <1>6. /\ TappersOK'
        /\ \A r \in Tappers : /\ tapper'[r].pc \in TapperPCs
                              /\ tapper'[r].action \in {"send", "p", "i", "x"}
                              /\ tapper'[r].action # "i" => tapper'[r].arg \in Pages'
    BY TapperMoves
  <1>7. GridTypeOK'
    BY <1>1, <1>2, <1>4, <1>5, <1>6 DEF GridTypeOK
  <1>8. QED
    BY <1>2, <1>3, <1>5, <1>6, <1>7

LEMMA GridStep == GridInv /\ [GridNext]_gridVars => GridInv'
  <1> SUFFICES ASSUME GridInv, [GridNext]_gridVars PROVE GridInv'
    OBVIOUS
  <1> USE DEF GridInv
  <1>1. total \in Totals /\ alive \in BOOLEAN
    BY DEF GridTypeOK
  <1>2. IdleTapper \in Shapes /\ TapperOK(IdleTapper) /\ IdleTapper.arg \in Pages
    BY <1>1, IdleShape
  <1>3. ASSUME NEW t \in Tappers
        PROVE  /\ tapper[t] \in Shapes /\ TapperOK(tapper[t])
               /\ tapper[t].action # "i" => tapper[t].arg \in Pages
    BY DEF TappersOK, GridTypeOK
  <1>4. message.shown => \E p \in Pages : message = Shown(Picture(p), p)
    BY DEF MessageOK, NoMessage
  <1>5. ASSUME NEW t \in Tappers, TapPage(t) PROVE GridInv'
    <2>1. PICK p \in message.keyboard.nav :
            tapper' = [tapper EXCEPT ![t] = [IdleTapper EXCEPT !.pc = "get", !.arg = p]]
      BY <1>5 DEF TapPage
    <2> DEFINE x == [IdleTapper EXCEPT !.pc = "get", !.arg = p]
    <2>2. p \in Pages /\ p \in Nat
      BY <1>1, PageFacts DEF GridTypeOK
    <2>3. x \in Shapes /\ TapperOK(x) /\ x.arg \in Pages
      BY <2>2 DEF IdleTapper, Shapes, TapperPCs, TapperOK, Pictures
    <2>4. UNCHANGED <<total, alive, memo, message, picks>>
      BY <1>5 DEF TapPage
    <2>5. QED
      BY <1>1, <2>1, <2>3, <2>4, GridFrame
  <1>6. ASSUME NEW t \in Tappers, TapItem(t) PROVE GridInv'
    <2>1. PICK p \in Pages : message = Shown(Picture(p), p)
      BY <1>4, <1>6 DEF TapItem
    <2>2. message.picture = Picture(p) /\ message.keyboard = Keyboard(p)
      BY <2>1 DEF Shown
    <2>3. PICK i \in 1..PageLen(p) :
            tapper' = [tapper EXCEPT ![t] = [IdleTapper EXCEPT !.pc = "get", !.action = "i",
              !.arg = Keyboard(p).items[i], !.seen = Picture(p)[i]]]
      BY <1>1, <1>6, <2>2, OnPicture DEF TapItem
    <2> DEFINE x == [IdleTapper EXCEPT !.pc = "get", !.action = "i",
                       !.arg = Keyboard(p).items[i], !.seen = Picture(p)[i]]
    <2>4. /\ Keyboard(p).items[i] = p * PageSize + i - 1 /\ Picture(p)[i] = p * PageSize + i
          /\ p * PageSize \in Nat
      BY <1>1, OnPicture, PageFacts
    <2>5. Keyboard(p).items[i] \in Nat /\ Picture(p)[i] = Keyboard(p).items[i] + 1
      <3> DEFINE b == p * PageSize
      <3> HIDE DEF b
      <3>1. /\ Keyboard(p).items[i] = b + i - 1 /\ Picture(p)[i] = b + i /\ b \in Nat
            /\ i \in Nat /\ i >= 1
        BY <1>1, <2>4, PageFacts DEF b
      <3>2. QED
        BY <3>1
    <2>6. x \in Shapes /\ TapperOK(x) /\ x.action = "i"
      <3>1. ASSUME NEW a \in Nat, NEW b \in Nat, b = a + 1
            PROVE  LET y == [IdleTapper EXCEPT !.pc = "get", !.action = "i", !.arg = a, !.seen = b]
                   IN  y \in Shapes /\ TapperOK(y) /\ y.action = "i"
        BY <3>1 DEF IdleTapper, Shapes, TapperPCs, TapperOK, Pictures
      <3>2. Picture(p)[i] \in Nat
        BY <2>5
      <3>3. QED
        BY <2>5, <3>1, <3>2
    <2>7. UNCHANGED <<total, alive, memo, message, picks>>
      BY <1>6 DEF TapItem
    <2>8. QED
      BY <1>1, <2>3, <2>6, <2>7, GridFrame
  <1>7. ASSUME NEW t \in Tappers, Close(t) PROVE GridInv'
    <2>1. tapper' = [tapper EXCEPT ![t] = tapper[t]]
      BY <1>7 DEF Close, TappersOK
    <2>2. UNCHANGED <<total, alive, memo, picks>> /\ message' = NoMessage
      BY <1>7 DEF Close
    <2>3. QED
      BY <1>1, <1>3, <2>1, <2>2, GridFrame
  <1>8. ASSUME NEW t \in Tappers,
               Finish(t), UNCHANGED <<total, alive, memo>>,
               message' = message \/ \E p \in Pages : message' = Shown(Picture(p), p),
               picks' = picks \/ \E n \in Nat : picks' = {<<n, n>>}
        PROVE  GridInv'
    BY <1>1, <1>2, <1>8, GridFrame DEF Finish
  <1>9. ASSUME NEW t \in Tappers, SessionGone(t) \/ RenderFails(t) PROVE GridInv'
    BY <1>8, <1>9 DEF SessionGone, RenderFails
  <1>10. ASSUME NEW t \in Tappers, Pick(t) PROVE GridInv'
    <2>1. tapper[t].arg \in Nat /\ tapper[t].seen = tapper[t].arg + 1
      BY <1>3, <1>10 DEF Pick, Shapes, TapperOK
    <2>2. picks' = picks \/ picks' = {<<tapper[t].seen, tapper[t].arg + 1>>}
      BY <1>10 DEF Pick
    <2>3. Finish(t) /\ UNCHANGED <<total, alive, memo, message>>
      BY <1>10 DEF Pick
    <2>4. picks' = picks \/ \E n \in Nat : picks' = {<<n, n>>}
      BY <2>1, <2>2
    <2>5. QED
      BY <1>8, <2>3, <2>4
  <1>11. ASSUME NEW t \in Tappers, NEW pc \in {"page", "render"}, At(t, pc),
                tapper[t].action # "i",
                UNCHANGED <<total, alive, memo, message, picks>>
         PROVE  GridInv'
    <2> DEFINE x == [tapper[t] EXCEPT !.pc = pc]
    <2>1. tapper' = [tapper EXCEPT ![t] = x]
      BY <1>11 DEF At, TappersOK
    <2>2. x \in Shapes /\ TapperOK(x) /\ x.arg \in Pages
      BY <1>3, <1>11 DEF Shapes, TapperPCs, TapperOK
    <2>3. QED
      BY <1>1, <1>11, <2>1, <2>2, GridFrame
  <1>12. ASSUME NEW t \in Tappers, GetForPage(t) PROVE GridInv'
    BY <1>11, <1>12 DEF GetForPage
  <1>13. ASSUME NEW t \in Tappers, tapper[t].pc \in {"page", "render"},
                tapper' = [tapper EXCEPT ![t].pc = "show", ![t].picture = Picture(tapper[t].arg)],
                memo' = memo \/ (DOMAIN memo' \subseteq Pages
                                 /\ \A p \in DOMAIN memo' : memo'[p] = Picture(p)),
                UNCHANGED <<total, alive, message, picks>>
         PROVE  GridInv'
    <2> DEFINE picture == Picture(tapper[t].arg)
               x == [tapper[t] EXCEPT !.pc = "show", !.picture = picture]
    <2>1. tapper' = [tapper EXCEPT ![t] = x]
      BY <1>13 DEF TappersOK
    <2>2. tapper[t].action # "i" /\ tapper[t].arg \in Pages /\ picture \in Pictures
      BY <1>3, <1>13 DEF TapperOK, Pictures
    <2>3. x \in Shapes /\ TapperOK(x) /\ x.arg \in Pages
      BY <1>3, <1>13, <2>2 DEF Shapes, TapperPCs, TapperOK
    <2>4. QED
      BY <1>1, <1>13, <2>1, <2>3, GridFrame
  <1>14. ASSUME NEW t \in Tappers, Lookup(t) PROVE GridInv'
    <2> DEFINE page == tapper[t].arg
    <2>1. /\ tapper[t].pc = "page" /\ tapper[t].action # "i" /\ page \in Pages
          /\ UNCHANGED <<total, alive, memo, message, picks>>
      BY <1>3, <1>14 DEF Lookup, TapperOK
    <2>2. CASE Finish(t)
      BY <1>8, <2>1, <2>2
    <2>3. CASE /\ page \in DOMAIN memo
               /\ tapper' = [tapper EXCEPT ![t].pc = "show", ![t].picture = memo[page]]
      <3>1. memo[page] = Picture(page)
        BY <2>3 DEF MemoOK
      <3>2. tapper' = [tapper EXCEPT ![t].pc = "show", ![t].picture = Picture(page)]
        BY <2>3, <3>1
      <3>3. QED
        BY <1>13, <2>1, <3>2
    <2>4. CASE At(t, "render")
      BY <1>11, <2>1, <2>4
    <2>5. QED
      BY <1>14, <2>2, <2>3, <2>4 DEF Lookup
  <1>15. ASSUME NEW t \in Tappers, Render(t) PROVE GridInv'
    <2> DEFINE page == tapper[t].arg
    <2>1. /\ tapper[t].pc = "render" /\ page \in Pages
          /\ UNCHANGED <<total, alive, message, picks>>
          /\ tapper' = [tapper EXCEPT ![t].pc = "show", ![t].picture = Picture(page)]
      BY <1>3, <1>15 DEF Render, TapperOK
    <2>2. memo' = [p \in DOMAIN memo \cup {page} |-> IF p = page THEN Picture(page) ELSE memo[p]]
      BY <1>15 DEF Render
    <2>3. DOMAIN memo' \subseteq Pages /\ \A p \in DOMAIN memo' : memo'[p] = Picture(p)
      BY <2>1, <2>2 DEF GridTypeOK, MemoOK
    <2>4. QED
      BY <1>13, <2>1, <2>3
  <1>16. ASSUME NEW t \in Tappers, Show(t) PROVE GridInv'
    <2>1. /\ tapper[t].arg \in Pages /\ tapper[t].picture = Picture(tapper[t].arg)
          /\ Finish(t) /\ UNCHANGED <<total, alive, memo, picks>>
      BY <1>3, <1>16 DEF Show, TapperOK
    <2>2. message' = message \/ message' = Shown(tapper[t].picture, tapper[t].arg)
      BY <1>16 DEF Show
    <2>3. message' = message \/ \E p \in Pages : message' = Shown(Picture(p), p)
      BY <2>1, <2>2
    <2>4. QED
      BY <1>8, <2>1, <2>3
  <1>17. CASE (alive' \in BOOLEAN) /\ UNCHANGED <<total, memo, message, tapper, picks>>
    <2>1. /\ Pages' = Pages /\ Pictures' = Pictures /\ Shapes' = Shapes
          /\ \A q \in Shapes : TapperOK(q)' <=> TapperOK(q)
          /\ \A p \in Pages : Picture(p)' = Picture(p) /\ Shown(Picture(p), p)' = Shown(Picture(p), p)
      BY <1>17 DEF Pages, TotalPages, Pictures, Picture, PageLen, Smaller, Shapes, TapperOK,
                   Shown, Keyboard
    <2>2. GridTypeOK' /\ PickIsWhatWasSeen'
      BY <1>17, <2>1 DEF GridTypeOK, PickIsWhatWasSeen
    <2>3. MemoOK' /\ MessageOK'
      BY <1>17, <2>1 DEF MemoOK, MessageOK, GridTypeOK
    <2>4. TappersOK'
      BY <1>17, <2>1 DEF TappersOK
    <2>5. QED
      BY <2>2, <2>3, <2>4
  <1>18. QED
    BY <1>1, <1>5, <1>6, <1>7, <1>9, <1>10, <1>12, <1>14, <1>15, <1>16, <1>17
    DEF GridNext, Evict, gridVars

LEMMA PagesAreJoined == GridInv => GridTells
  <1> SUFFICES ASSUME GridInv, message.shown PROVE PagesJoin
    BY DEF GridInv, GridTells, PagesJoin
  <1> DEFINE picture == message.picture
             On(n) == \E p \in message.keyboard.nav : n \in {Picture(p)[i] : i \in 1..PageLen(p)}
  <1>1. total \in Totals
    BY DEF GridInv, GridTypeOK
  <1>2. PICK p \in Pages : message = Shown(Picture(p), p)
    BY DEF GridInv, MessageOK, NoMessage
  <1> DEFINE b == p * PageSize
             n == PageLen(p)
  <1>3. /\ picture = Picture(p) /\ message.keyboard = Keyboard(p)
        /\ Len(picture) = n /\ Len(message.keyboard.items) = n
        /\ \A i \in 1..n : picture[i] = b + i
        /\ message.keyboard.nav = {m \in {p - 1, p + 1} : m \in Pages}
    BY <1>1, <1>2, OnPicture DEF Shown
  <1>4. /\ p \in Nat /\ b \in Nat /\ n \in Nat /\ n > 0 /\ b + n <= total /\ total \in Nat
        /\ b + n < total => n = PageSize
    BY <1>1, PageFacts
  <1>5. 1 \in 1..n /\ n \in 1..n /\ picture[1] = b + 1 /\ picture[n] = b + n
    BY <1>3, <1>4
  <1>6. picture # <<>>
    BY <1>3, <1>4
  <1>7. ASSUME picture[Len(picture)] < total PROVE On(picture[Len(picture)] + 1)
    <2>1. n = PageSize /\ b + n < total
      BY <1>3, <1>4, <1>5, <1>7
    <2>2. (p + 1) * PageSize = b + PageSize
      BY <1>4, Products
    <2>3. p + 1 \in Pages
      BY <1>1, <1>4, <2>1, <2>2, PagesBegin
    <2>4. 1 \in 1..PageLen(p + 1) /\ Picture(p + 1)[1] = (b + PageSize) + 1
      <3>1. PageLen(p + 1) \in Nat /\ PageLen(p + 1) > 0
        BY <1>1, <2>3, PageFacts
      <3>2. 1 \in 1..PageLen(p + 1)
        BY <3>1
      <3>3. \A i \in 1..PageLen(p + 1) : Picture(p + 1)[i] = (p + 1) * PageSize + i
        BY <1>1, <2>3, OnPicture
      <3>4. Picture(p + 1)[1] = (p + 1) * PageSize + 1
        BY <3>2, <3>3
      <3>5. QED
        BY <2>2, <3>2, <3>4
    <2>5. picture[Len(picture)] + 1 = Picture(p + 1)[1]
      BY <1>3, <1>5, <2>1, <2>4
    <2>6. p + 1 \in message.keyboard.nav
      BY <1>3, <2>3
    <2>7. QED
      BY <2>4, <2>5, <2>6
  <1>8. ASSUME picture[1] > 1 PROVE On(picture[1] - 1)
    <2>1. p > 0
      <3>1. b > 0
        BY <1>4, <1>5, <1>8
      <3>2. QED
        BY <1>4, <3>1, Products
    <2>2. p - 1 \in Nat /\ (p - 1) * PageSize = b - PageSize /\ b >= PageSize
      BY <1>4, <2>1, Products
    <2>3. p - 1 \in Pages
      BY <1>1, <1>4, <2>2, PagesBegin
    <2>4. PageLen(p - 1) = PageSize
      <3>1. /\ (p - 1) * PageSize + PageLen(p - 1) < total => PageLen(p - 1) = PageSize
            /\ PageLen(p - 1) \in Nat
        BY <1>1, <2>3, PageFacts
      <3>2. PageLen(p - 1) = Smaller(PageSize, total - (b - PageSize))
        BY <2>2 DEF PageLen
      <3>3. QED
        BY <1>4, <2>2, <3>2 DEF Smaller
    <2>5. PageSize \in 1..PageLen(p - 1) /\ Picture(p - 1)[PageSize] = (b - PageSize) + PageSize
      BY <1>1, <2>2, <2>3, <2>4, OnPicture
    <2>6. picture[1] - 1 = Picture(p - 1)[PageSize]
      BY <1>4, <1>5, <2>5
    <2>7. p - 1 \in message.keyboard.nav
      BY <1>3, <2>3
    <2>8. QED
      BY <2>5, <2>6, <2>7
  <1>9. QED
    BY <1>3, <1>6, <1>7, <1>8 DEF PagesJoin

-----------------------------------------------------------------------------
(* The statistics                                                          *)

LEMMA Clocks ==
  /\ TTL \in Nat /\ FetchTime \in Nat /\ MaxClock \in Nat /\ 2 * FetchTime <= TTL
  /\ Empty = -1 /\ Empty \in Times /\ Times \subseteq Int /\ 0..MaxClock \subseteq Times
  BY DEF TTL, Empty, Times

LEMMA InitStats == StatsInit => StatsInv
  <1> SUFFICES ASSUME StatsInit PROVE StatsInv
    OBVIOUS
  <1>1. NoFetch \in Fetches /\ NoFetch.pc = "idle"
    BY Clocks DEF NoFetch, Fetches
  <1>2. NoSnap \in Snaps /\ NoSnap.by = "nobody" /\ NoSnap.data = Empty
    BY Clocks DEF NoSnap, Snaps
  <1>3. StatsTypeOK
    BY <1>1, <1>2, Clocks DEF StatsInit, StatsTypeOK
  <1>4. \A k \in StatsKeys : SnapOK(k) /\ FirstOK(k) /\ RenewOK(k)
    BY <1>1, <1>2, Clocks DEF StatsInit, SnapOK, FirstOK, RenewOK, Renewing
  <1>5. \A v \in Viewers : ViewOK(v)
    BY <1>1 DEF StatsInit, ViewOK
  <1>6. QED
    BY <1>3, <1>4, <1>5 DEF StatsInv

\* An expired snapshot has outlived every first view.
LEMMA NoneLate ==
  ASSUME StatsInv, NEW k \in StatsKeys, Expired(k)
  PROVE  snaps[k].by # "nobody" /\ \A v \in Viewers : ~Fetching(v, k)
  <1>1. snaps[k] \in Snaps /\ clock \in Nat
    BY DEF StatsInv, StatsTypeOK
  <1>2. snaps[k].by # "nobody" /\ clock > snaps[k].updatedAt + TTL
    BY DEF StatsInv, SnapOK, Expired
  <1>3. CASE snaps[k].by = "view"
    <2> SUFFICES ASSUME NEW v \in Viewers, Fetching(v, k) PROVE FALSE
      BY <1>2
    <2>1. viewer[v].since \in Nat /\ snaps[k].updatedAt \in Nat
      BY <1>1 DEF StatsInv, StatsTypeOK, Fetches, Snaps
    <2>2. clock <= viewer[v].since + FetchTime
      BY DEF StatsInv, ViewOK, Fetching
    <2>3. viewer[v].since <= snaps[k].updatedAt + FetchTime
      BY <1>3 DEF StatsInv, FirstOK
    <2>4. QED
      BY <1>1, <1>2, <2>1, <2>2, <2>3, Clocks
  <1>4. CASE snaps[k].by = "refresh"
    BY <1>2, <1>4 DEF StatsInv, RenewOK, Renewing
  <1>5. QED
    BY <1>1, <1>2, <1>3, <1>4 DEF Snaps

\* One view moves.
LEMMA ViewerStep ==
  ASSUME StatsInv, NEW v \in Viewers, NEW x \in Fetches,
         viewer' = [viewer EXCEPT ![v] = x],
         UNCHANGED <<clock, snaps>>,
         inflight' \subseteq StatsKeys, refresher' \in [StatsKeys -> Fetches],
         x.pc \in {"fetch", "put"} =>
           \/ Fetching(v, x.key) /\ x.since = viewer[v].since
           \/ snaps[x.key].by = "nobody" /\ x.since = clock,
         x.pc = "put" => x.got <= clock,
         x.pc = "stale" => Expired(x.key),
         \A k \in StatsKeys :
           \/ refresher'[k] = refresher[k]
           \/ refresher'[k].pc = "fetch" /\ viewer[v].pc = "stale" /\ viewer[v].key = k
  PROVE  StatsInv'
  <1> USE DEF StatsInv
  <1>1. \A w \in Viewers : viewer'[w] = IF w = v THEN x ELSE viewer[w]
    BY DEF StatsTypeOK
  <1>2. x.key \in StatsKeys /\ clock \in Nat /\ clock \in 0..MaxClock
    BY DEF Fetches, StatsTypeOK
  <1>3. StatsTypeOK'
    BY DEF StatsTypeOK
  <1>4. \A w \in Viewers : ViewOK(w)'
    BY <1>1, <1>2, Clocks DEF ViewOK, Fetching
  <1>5. ASSUME NEW k \in StatsKeys PROVE SnapOK(k)' /\ FirstOK(k)' /\ RenewOK(k)'
    <2>1. SnapOK(k)'
      BY DEF SnapOK
    <2>2. \A w \in Viewers : Fetching(w, k)' => Fetching(w, k) \/ (snaps[k].by = "nobody" /\ w = v)
      BY <1>1 DEF Fetching
    <2>3. FirstOK(k)'
      BY <1>1, <2>2 DEF FirstOK, Fetching
    <2>4. Renewing(k)' => Renewing(k) \/ Expired(k)
      BY <1>1 DEF Renewing
    <2>5. Renewing(k)' => snaps[k].by # "nobody" /\ \A w \in Viewers : ~Fetching(w, k)
      BY <2>4, NoneLate DEF RenewOK
    <2>6. RenewOK(k)'
      BY <2>2, <2>5 DEF RenewOK
    <2>7. QED
      BY <2>1, <2>3, <2>6
  <1>6. QED
    BY <1>3, <1>4, <1>5

LEMMA ViewSteps ==
  ASSUME StatsInv, NEW v \in Viewers, View(v) \/ BeginRefresh(v) \/ ViewFetches(v)
  PROVE  StatsInv'
  <1>1. viewer[v] \in Fetches /\ clock \in 0..MaxClock /\ refresher \in [StatsKeys -> Fetches]
        /\ inflight \subseteq StatsKeys
    BY DEF StatsInv, StatsTypeOK
  <1>2. CASE View(v)
    <2>1. PICK k \in StatsKeys :
            /\ snaps[k] = NoSnap \/ Expired(k)
            /\ viewer' = [viewer EXCEPT ![v] =
                 [pc |-> IF snaps[k] = NoSnap THEN "fetch" ELSE "stale", key |-> k,
                  since |-> clock, got |-> Empty]]
      BY <1>2 DEF View
    <2> DEFINE x == [pc |-> IF snaps[k] = NoSnap THEN "fetch" ELSE "stale", key |-> k,
                     since |-> clock, got |-> Empty]
    <2>2. x \in Fetches
      BY <1>1, Clocks DEF Fetches
    <2>3. x.pc = "fetch" => snaps[x.key].by = "nobody"
      BY DEF NoSnap
    <2>4. x.pc = "stale" => Expired(x.key)
      BY <2>1
    <2>5. UNCHANGED <<clock, snaps, inflight, refresher>>
      BY <1>2 DEF View
    <2>6. QED
      BY <1>1, <2>1, <2>2, <2>3, <2>4, <2>5, ViewerStep
  <1>3. CASE BeginRefresh(v)
    <2> DEFINE k == viewer[v].key
               f == [pc |-> "fetch", key |-> k, since |-> clock, got |-> Empty]
    <2>1. NoFetch \in Fetches /\ NoFetch.pc = "idle" /\ f \in Fetches /\ k \in StatsKeys
      BY <1>1, Clocks DEF NoFetch, Fetches
    <2>2. /\ viewer[v].pc = "stale" /\ viewer' = [viewer EXCEPT ![v] = NoFetch]
          /\ UNCHANGED <<clock, snaps>>
      BY <1>3 DEF BeginRefresh
    <2>3. /\ inflight' = inflight \/ inflight' = inflight \cup {k}
          /\ refresher' = refresher \/ refresher' = [refresher EXCEPT ![k] = f]
      BY <1>3 DEF BeginRefresh
    <2>4. /\ refresher' \in [StatsKeys -> Fetches] /\ inflight' \subseteq StatsKeys
          /\ \A l \in StatsKeys : refresher'[l] = refresher[l] \/ (refresher'[l].pc = "fetch" /\ l = k)
      BY <1>1, <2>1, <2>3
    <2>5. QED
      BY <2>1, <2>2, <2>4, ViewerStep
  <1>4. CASE ViewFetches(v)
    <2>1. PICK got \in {clock, Empty} : viewer' = [viewer EXCEPT ![v].pc = "put", ![v].got = got]
      BY <1>4 DEF ViewFetches
    <2> DEFINE x == [viewer[v] EXCEPT !.pc = "put", !.got = got]
    <2>2. viewer' = [viewer EXCEPT ![v] = x]
      BY <2>1 DEF StatsInv, StatsTypeOK
    <2>3. got \in Times /\ got <= clock
      BY <1>1, Clocks
    <2>4. x \in Fetches /\ x.pc = "put" /\ x.got = got /\ x.key = viewer[v].key
          /\ x.since = viewer[v].since
      BY <1>1, <2>3 DEF Fetches
    <2>5. Fetching(v, x.key)
      BY <1>4, <2>4 DEF ViewFetches, Fetching
    <2>6. UNCHANGED <<clock, snaps, inflight, refresher>>
      BY <1>4 DEF ViewFetches
    <2> HIDE DEF x
    <2>7. QED
      BY <1>1, <2>2, <2>3, <2>4, <2>5, <2>6, ViewerStep
  <1>5. QED
    BY <1>2, <1>3, <1>4

\* A first view stores what it has; nothing was stored for its key but by other
\* first views.
LEMMA ViewPutsStep ==
  ASSUME StatsInv, NEW v \in Viewers, ViewPuts(v)
  PROVE  StatsInv' /\ snaps[viewer[v].key].by # "refresh"
  <1> DEFINE k == viewer[v].key
             s == [by |-> "view", data |-> viewer[v].got, updatedAt |-> viewer[v].since,
                   expiresAt |-> viewer[v].since + TTL]
  <1> USE DEF StatsInv
  <1>1. /\ viewer[v] \in Fetches /\ k \in StatsKeys /\ clock \in 0..MaxClock
        /\ viewer[v].since \in 0..MaxClock /\ viewer[v].got \in Times
    BY DEF StatsTypeOK, Fetches
  <1>2. /\ viewer[v].pc = "put" /\ snaps' = [snaps EXCEPT ![k] = s]
        /\ viewer' = [viewer EXCEPT ![v] = NoFetch] /\ UNCHANGED <<clock, inflight, refresher>>
    BY DEF ViewPuts, Put
  <1>3. NoFetch \in Fetches /\ NoFetch.pc = "idle"
    BY Clocks DEF NoFetch, Fetches
  <1>4. Fetching(v, k) /\ ~Renewing(k)
    BY <1>1, <1>2 DEF Fetching, RenewOK
  <1>5. s \in Snaps
    BY <1>1, Clocks DEF Snaps
  <1>6. /\ \A w \in Viewers : viewer'[w] = IF w = v THEN NoFetch ELSE viewer[w]
        /\ \A l \in StatsKeys : snaps'[l] = IF l = k THEN s ELSE snaps[l]
    BY <1>2 DEF StatsTypeOK
  <1>7. StatsTypeOK'
    BY <1>2, <1>3, <1>5 DEF StatsTypeOK
  <1>8. \A w \in Viewers : ViewOK(w)'
    BY <1>2, <1>3, <1>6 DEF ViewOK
  <1>9. \A w \in Viewers, l \in StatsKeys : Fetching(w, l)' => Fetching(w, l) /\ viewer'[w] = viewer[w]
    BY <1>3, <1>6 DEF Fetching
  <1>10. \A l \in StatsKeys : Renewing(l)' => Renewing(l) /\ l # k
    <2>1. \A l \in StatsKeys :
            (\E w \in Viewers : viewer'[w].pc = "stale" /\ viewer'[w].key = l)
              => \E w \in Viewers : viewer[w].pc = "stale" /\ viewer[w].key = l
      BY <1>3, <1>6
    <2>2. QED
      BY <1>2, <1>4, <1>6, <2>1 DEF Renewing
  <1>11. ASSUME NEW l \in StatsKeys PROVE SnapOK(l)' /\ FirstOK(l)' /\ RenewOK(l)'
    <2>1. SnapOK(l)'
      BY <1>2, <1>6 DEF SnapOK, ViewOK
    <2>2. FirstOK(l)'
      <3>1. CASE l = k
        <4>1. \A w \in Viewers : Fetching(w, l)' => viewer'[w].since <= viewer[v].since + FetchTime
          <5> SUFFICES ASSUME NEW w \in Viewers, Fetching(w, l)'
                       PROVE  viewer'[w].since <= viewer[v].since + FetchTime
            OBVIOUS
          <5>1. viewer'[w] = viewer[w] /\ Fetching(w, l)
            BY <1>9
          <5>2. viewer[w].since <= clock /\ viewer[w].since \in Nat
            BY <5>1 DEF ViewOK, Fetching, StatsTypeOK, Fetches
          <5>3. clock <= viewer[v].since + FetchTime
            BY <1>4 DEF ViewOK, Fetching
          <5>4. QED
            BY <1>1, <5>1, <5>2, <5>3, Clocks
        <4>2. snaps'[l] = s
          BY <1>6, <3>1
        <4>3. QED
          BY <4>1, <4>2 DEF FirstOK
      <3>2. CASE l # k
        BY <1>6, <1>9, <3>2 DEF FirstOK
      <3>3. QED
        BY <3>1, <3>2
    <2>3. RenewOK(l)'
      <3>1. refresher[l].pc = "put" => Renewing(l) /\ l # k
        BY <1>4 DEF Renewing
      <3>2. QED
        BY <1>2, <1>6, <1>9, <1>10, <3>1 DEF RenewOK
    <2>4. QED
      BY <2>1, <2>2, <2>3
  <1>12. QED
    BY <1>4, <1>7, <1>8, <1>11 DEF Renewing

\* A refresh goes on.
LEMMA RefreshStep ==
  ASSUME StatsInv, NEW k \in StatsKeys, Refreshing(k)
  PROVE  /\ StatsInv'
         /\ snaps' # snaps =>
              /\ \A l \in StatsKeys : l # k => snaps'[l] = snaps[l]
              /\ snaps'[k].data = Empty \/ snaps'[k].data >= snaps[k].data
  <1> USE DEF StatsInv
  <1>1. /\ refresher[k] \in Fetches /\ clock \in 0..MaxClock /\ snaps[k] \in Snaps
        /\ refresher[k].got \in Times /\ snaps[k].data \in Times
    BY DEF StatsTypeOK, Fetches, Snaps
  <1>2. /\ viewer' = viewer /\ clock' = clock
        /\ refresher[k].pc \in {"fetch", "put", "end"}
    BY DEF Refreshing, RefreshFetches, RefreshPuts, EndRefresh
  <1>3. Renewing(k)
    BY <1>2 DEF Renewing
  <1>4. \A w \in Viewers : ViewOK(w)' /\ \A l \in StatsKeys : Fetching(w, l)' = Fetching(w, l)
    BY <1>2 DEF ViewOK, Fetching
  <1>5. ASSUME NEW x \in Fetches,
               refresher' = [refresher EXCEPT ![k] = x], snaps' = snaps,
               inflight' \subseteq StatsKeys,
               x.pc = "put" => x.got <= clock /\ (x.got # Empty => snaps[k].data <= x.got)
        PROVE  StatsInv'
    <2>1. \A l \in StatsKeys : refresher'[l] = IF l = k THEN x ELSE refresher[l]
      BY <1>5 DEF StatsTypeOK
    <2>2. StatsTypeOK'
      BY <1>2, <1>5 DEF StatsTypeOK
    <2>3. \A l \in StatsKeys : Renewing(l)' => Renewing(l)
      BY <1>2, <1>3, <1>5, <2>1 DEF Renewing
    <2>4. \A l \in StatsKeys : SnapOK(l)' /\ FirstOK(l)'
      BY <1>2, <1>5 DEF SnapOK, FirstOK, Fetching
    <2>5. \A l \in StatsKeys : RenewOK(l)'
      BY <1>2, <1>4, <1>5, <2>1, <2>3 DEF RenewOK
    <2>6. QED
      BY <1>4, <2>2, <2>4, <2>5
  <1>6. CASE RefreshFetches(k)
    <2>1. PICK got \in {clock, Empty} :
            refresher' = [refresher EXCEPT ![k].pc = "put", ![k].got = got]
      BY <1>6 DEF RefreshFetches
    <2> DEFINE x == [refresher[k] EXCEPT !.pc = "put", !.got = got]
    <2>2. refresher' = [refresher EXCEPT ![k] = x]
      BY <2>1 DEF StatsTypeOK
    <2>3. got \in Times /\ got <= clock
      BY <1>1, Clocks
    <2>4. x \in Fetches /\ x.got = got
      BY <1>1, <2>3 DEF Fetches
    <2>5. snaps[k].data <= clock
      BY DEF SnapOK
    <2>6. snaps' = snaps /\ inflight' \subseteq StatsKeys
      BY <1>6 DEF RefreshFetches, StatsTypeOK
    <2> HIDE DEF x
    <2>7. QED
      BY <1>5, <2>2, <2>3, <2>4, <2>5, <2>6
  <1>7. CASE EndRefresh(k)
    <2>1. NoFetch \in Fetches /\ NoFetch.pc = "idle"
      BY Clocks DEF NoFetch, Fetches
    <2>2. refresher' = [refresher EXCEPT ![k] = NoFetch] /\ snaps' = snaps
          /\ inflight' \subseteq StatsKeys
      BY <1>7 DEF EndRefresh, StatsTypeOK
    <2>3. QED
      BY <1>5, <2>1, <2>2
  <1>8. CASE RefreshPuts(k)
    <2> DEFINE s == [by |-> "refresh", data |-> refresher[k].got, updatedAt |-> clock,
                     expiresAt |-> clock + TTL]
               x == [refresher[k] EXCEPT !.pc = "end"]
    <2>1. /\ snaps' = [snaps EXCEPT ![k] = s] /\ refresher[k].pc = "put" /\ inflight' = inflight
      BY <1>8 DEF RefreshPuts, Put
    <2>2. refresher' = [refresher EXCEPT ![k] = x]
      BY <1>8 DEF RefreshPuts, StatsTypeOK
    <2>3. s \in Snaps /\ x \in Fetches /\ x.pc = "end"
      BY <1>1, Clocks DEF Snaps, Fetches
    <2>4. /\ \A l \in StatsKeys : snaps'[l] = IF l = k THEN s ELSE snaps[l]
          /\ \A l \in StatsKeys : refresher'[l] = IF l = k THEN x ELSE refresher[l]
      BY <2>1, <2>2 DEF StatsTypeOK
    <2>5. /\ refresher[k].got <= clock
          /\ refresher[k].got # Empty => snaps[k].data <= refresher[k].got
      BY <2>1 DEF RenewOK
    <2> HIDE DEF x
    <2>6. StatsTypeOK'
      BY <1>2, <2>1, <2>2, <2>3 DEF StatsTypeOK
    <2>7. \A w \in Viewers : ~Fetching(w, k)
      BY <1>3 DEF RenewOK
    <2>8. ASSUME NEW l \in StatsKeys PROVE SnapOK(l)' /\ FirstOK(l)' /\ RenewOK(l)'
      <3>1. CASE l = k
        <4>1. SnapOK(k)' /\ FirstOK(k)'
          BY <1>2, <2>4, <2>5 DEF SnapOK, FirstOK
        <4>2. RenewOK(k)'
          BY <1>4, <2>3, <2>4, <2>7 DEF RenewOK
        <4>3. QED
          BY <3>1, <4>1, <4>2
      <3>2. CASE l # k
        <4>1. snaps'[l] = snaps[l] /\ refresher'[l] = refresher[l]
          BY <2>4, <3>2
        <4>2. Renewing(l)' => Renewing(l)
          BY <1>2, <4>1 DEF Renewing
        <4>3. QED
          BY <1>2, <1>4, <4>1, <4>2 DEF SnapOK, FirstOK, RenewOK, Fetching
      <3>3. QED
        BY <3>1, <3>2
    <2>9. snaps'[k].data = Empty \/ snaps'[k].data >= snaps[k].data
      BY <1>1, <2>4, <2>5, Clocks
    <2>10. QED
      BY <1>4, <2>4, <2>6, <2>8, <2>9
  <1>9. QED
    BY <1>6, <1>7, <1>8 DEF Refreshing, RefreshFetches, EndRefresh

LEMMA TickStep ==
  ASSUME StatsInv, Tick
  PROVE  StatsInv'
  <1> USE DEF StatsInv
  <1>1. /\ clock' = clock + 1 /\ clock \in Nat /\ clock' \in 0..MaxClock
        /\ UNCHANGED <<snaps, inflight, viewer, refresher>>
    BY Clocks DEF Tick, StatsTypeOK
  <1>2. StatsTypeOK'
    BY <1>1 DEF StatsTypeOK
  <1>3. ASSUME NEW v \in Viewers PROVE ViewOK(v)'
    <2>1. viewer[v].since \in 0..MaxClock /\ viewer[v].got \in Times
      BY DEF StatsTypeOK, Fetches
    <2>2. viewer[v].since \in Nat
      BY <2>1
    <2>3. viewer[v].got \in Int
      BY <2>1, Clocks, Zenon
    <2>4. viewer[v].pc \in {"fetch", "put"} => clock < viewer[v].since + FetchTime
      BY DEF Tick, InTime
    <2>5. QED
      BY <1>1, <2>2, <2>3, <2>4, Clocks DEF ViewOK
  <1>4. ASSUME NEW k \in StatsKeys PROVE SnapOK(k)' /\ FirstOK(k)' /\ RenewOK(k)'
    <2>1. snaps[k].data \in Int /\ refresher[k].got \in Int
      BY Clocks DEF StatsTypeOK, Fetches, Snaps
    <2>2. SnapOK(k)'
      BY <1>1, <2>1 DEF SnapOK
    <2>3. FirstOK(k)'
      BY <1>1 DEF FirstOK, Fetching
    <2>4. Renewing(k)' = Renewing(k)
      BY <1>1 DEF Renewing
    <2>5. RenewOK(k)'
      BY <1>1, <2>1, <2>4 DEF RenewOK, Fetching
    <2>6. QED
      BY <2>2, <2>3, <2>5
  <1>5. QED
    BY <1>2, <1>3, <1>4

\* A step, and what it stores over what a refresh stored.
LEMMA StatsStep ==
  ASSUME StatsInv, [StatsNext]_statsVars
  PROVE  /\ StatsInv'
         /\ \A k \in StatsKeys : snaps[k].by = "refresh" /\ snaps'[k] # snaps[k] =>
              snaps'[k].data = Empty \/ snaps'[k].data >= snaps[k].data
  <1>1. ASSUME NEW v \in Viewers, View(v) \/ BeginRefresh(v) \/ ViewFetches(v)
        PROVE  StatsInv' /\ snaps' = snaps
    BY <1>1, ViewSteps DEF View, BeginRefresh, ViewFetches
  <1>2. ASSUME NEW v \in Viewers, ViewPuts(v)
        PROVE  /\ StatsInv'
               /\ \A k \in StatsKeys : snaps[k].by = "refresh" => snaps'[k] = snaps[k]
    <2>1. \A k \in StatsKeys : k # viewer[v].key => snaps'[k] = snaps[k]
      BY <1>2 DEF ViewPuts, Put, StatsInv, StatsTypeOK
    <2>2. QED
      BY <1>2, <2>1, ViewPutsStep
  <1>3. ASSUME NEW k \in StatsKeys, Refreshing(k)
        PROVE  /\ StatsInv'
               /\ \A l \in StatsKeys : snaps'[l] # snaps[l] =>
                    snaps'[l].data = Empty \/ snaps'[l].data >= snaps[l].data
    BY <1>3, RefreshStep
  <1>4. CASE Tick
    BY <1>4, TickStep DEF Tick
  <1>5. CASE UNCHANGED statsVars
    <2>1. StatsInv'
      BY <1>5 DEF statsVars, StatsInv, StatsTypeOK, SnapOK, FirstOK, RenewOK, Renewing,
                  Fetching, ViewOK
    <2>2. QED
      BY <1>5, <2>1 DEF statsVars
  <1>6. QED
    BY <1>1, <1>2, <1>3, <1>4, <1>5 DEF StatsNext, Viewing

-----------------------------------------------------------------------------
(* The properties                                                          *)

LEMMA PanelsInit == Init => PanelsInv
  BY InitGrid, InitStats DEF Init, PanelsInv

LEMMA PanelsStep ==
  ASSUME PanelsInv, [Next]_vars
  PROVE  PanelsInv' /\ [StatsNext]_statsVars
  <1>1. [StatsNext]_statsVars /\ [GridNext]_gridVars /\ kind' = kind
    BY DEF Next, vars
  <1>2. QED
    BY <1>1, GridStep, StatsStep DEF PanelsInv

\* The inductive invariant of both kinds of message.
THEOREM PanelsInvariant == Spec => []PanelsInv
  <1>1. PanelsInv /\ [Next]_vars => PanelsInv'
    BY PanelsStep
  <1>2. QED
    BY <1>1, PanelsInit, PTL DEF Spec

\* Snapshots, fetches, messages and handlers keep to their types.
THEOREM PanelsTypes == Spec => []TypeOK
  <1>1. PanelsInv => TypeOK
    BY DEF PanelsInv, GridInv, StatsInv, TypeOK
  <1>2. QED
    BY <1>1, PanelsInvariant, PTL

\* A tap sends the tile that was seen, and the pages on show join up, for every
\* number of results and every page size.
THEOREM GridIsTrue == Spec => []GridTells
  <1>1. PanelsInv => GridTells
    BY PagesAreJoined DEF PanelsInv
  <1>2. QED
    BY <1>1, PanelsInvariant, PTL

\* What a refresh stored is not replaced by anything older, for every TTL that
\* is at least twice the timeout of a query.
THEOREM RefreshOutlasts == Spec => RefreshStands
  <1> DEFINE Fresh == \A k \in StatsKeys : snaps[k].by = "refresh" /\ snaps'[k] # snaps[k] =>
                        snaps'[k].data = Empty \/ snaps'[k].data >= snaps[k].data
  <1>1. PanelsInv /\ [Next]_vars => [Fresh]_vars
    BY PanelsStep, StatsStep DEF PanelsInv
  <1>2. Spec => [][Fresh]_vars
    BY <1>1, PanelsInvariant, PTL DEF Spec
  <1>3. QED
    BY <1>2 DEF RefreshStands
=============================================================================
