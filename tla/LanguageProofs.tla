--------------------------- MODULE LanguageProofs ---------------------------
(***************************************************************************)
(* Theorems about Language, for every set of handlers and languages.       *)
(***************************************************************************)
EXTENDS Language, TLAPS

Clearing(h) == hs[h].pc \in {"delete", "drop"}

\* What a handler is for goes with where it is and with the code it carries.
HandlerOK(s) ==
  /\ s.job = "pick" => s.code \in Langs
  /\ s.pc = "set" => s.job = "pick"
  /\ s.pc \in {"delete", "drop"} => s.job = "follow"
  /\ s.job = "follow" /\ s.pc # "drop" => s.code = NoLang

HandlersOK == \A h \in Handlers : HandlerOK(hs[h])

\* Nothing keeps a handler that clears alone from taking the claim away: as long
\* as the cached value is there, no lookup gets to Core.
AloneOK ==
  \A h \in Handlers : calm[h] = "alone" /\ Clearing(h) =>
    /\ cache # Absent
    /\ \A g \in Handlers : ~LookingUp(g) /\ (Clearing(g) => g = h)
    /\ hs[h].pc = "delete" \/ hs[h].code # NoLang => \A g \in Handlers : pending[g] = NoRequest
    /\ hs[h].pc = "drop" /\ hs[h].code # NoLang => claim = NoLang

\* Nobody holds the removed choice any more: not the cache, not Core, no request
\* and no lookup.
ForgottenOK ==
  quiet = "alone" /\ removed \notin {NoLang, Hint} =>
    /\ removed # cache /\ removed # claim
    /\ \A h \in Handlers : /\ pending[h].lang # removed
                           /\ hs[h].pc = "store" => hs[h].got # removed

\* With the pick cached, no lookup begins.
PickedOK == picked # NoLang => cache = picked /\ \A h \in Handlers : ~LookingUp(h)

LanguageInv == TypeOK /\ HandlersOK /\ AloneOK /\ ForgottenOK /\ PickedOK

USE LanguageAssumption DEF LanguageAssumption

LEMMA InitLanguage == Init => LanguageInv
  <1> SUFFICES ASSUME Init PROVE LanguageInv
    OBVIOUS
  <1>1. Idle \in HandlerStates /\ HandlerOK(Idle) /\ Idle.pc = "idle"
    BY DEF Idle, HandlerStates, Jobs, PCs, MaybeLang, HandlerOK
  <1>2. \A h \in Handlers : hs[h] = Idle
    BY DEF Init
  <1>3. TypeOK
    BY <1>1 DEF Init, TypeOK, MaybeLang, Calms
  <1>4. HandlersOK /\ AloneOK /\ ForgottenOK /\ PickedOK
    BY <1>1, <1>2 DEF Init, HandlersOK, AloneOK, Clearing, ForgottenOK, PickedOK
  <1>5. QED
    BY <1>3, <1>4 DEF LanguageInv

\* One handler moves.
LEMMA Moves ==
  ASSUME LanguageInv, NEW h \in Handlers, NEW s \in HandlerStates, HandlerOK(s),
         hs' = [hs EXCEPT ![h] = s]
  PROVE  /\ hs' \in [Handlers -> HandlerStates]
         /\ \A g \in Handlers : hs'[g] = IF g = h THEN s ELSE hs[g]
         /\ HandlersOK'
  BY DEF LanguageInv, TypeOK, HandlersOK

\* A handler that neither begins to clear nor clears moves, no lookup gets
\* nearer to the cache unless the language is unknown, and nothing else changes.
LEMMA QuietStep ==
  ASSUME LanguageInv, NEW h \in Handlers, NEW s \in HandlerStates, HandlerOK(s),
         hs' = [hs EXCEPT ![h] = s],
         s.pc \notin {"delete", "drop"},
         s.pc \in {"read", "store"} => LookingUp(h) \/ cache = Absent,
         s.pc = "store" => s.got \in {NoLang, Hint, claim},
         UNCHANGED <<cache, core, pending, ghosts>>
  PROVE  LanguageInv'
  <1>1. /\ hs' \in [Handlers -> HandlerStates]
        /\ \A g \in Handlers : hs'[g] = IF g = h THEN s ELSE hs[g]
        /\ HandlersOK'
    BY Moves
  <1>2. TypeOK'
    BY <1>1 DEF LanguageInv, TypeOK, core, ghosts
  <1>3. AloneOK'
    BY <1>1 DEF LanguageInv, AloneOK, Clearing, LookingUp, core, ghosts
  <1>4. ForgottenOK'
    BY <1>1 DEF LanguageInv, ForgottenOK, core, ghosts
  <1>5. PickedOK'
    <2>1. picked # NoLang => cache # Absent
      BY DEF LanguageInv, PickedOK, TypeOK, MaybeLang
    <2>2. QED
      BY <1>1, <2>1 DEF LanguageInv, PickedOK, LookingUp, core, ghosts
  <1>6. QED
    BY <1>1, <1>2, <1>3, <1>4, <1>5 DEF LanguageInv

LEMMA ArriveStep ==
  ASSUME LanguageInv, NEW h \in Handlers, Arrive(h)
  PROVE  LanguageInv'
  <1>1. ASSUME NEW job \in {"look", "start", "follow"},
               hs' = [hs EXCEPT ![h] = [Idle EXCEPT !.job = job, !.pc = "load"]]
        PROVE  LanguageInv'
    <2> DEFINE s == [Idle EXCEPT !.job = job, !.pc = "load"]
    <2>1. s \in HandlerStates /\ HandlerOK(s) /\ s.pc = "load"
      BY DEF Idle, HandlerStates, Jobs, PCs, MaybeLang, HandlerOK
    <2>2. QED
      BY <1>1, <2>1, QuietStep DEF Arrive
  <1>2. ASSUME NEW l \in Langs,
               hs' = [hs EXCEPT ![h] =
                        [Idle EXCEPT !.job = "pick", !.pc = "load", !.code = l]]
        PROVE  LanguageInv'
    <2> DEFINE s == [Idle EXCEPT !.job = "pick", !.pc = "load", !.code = l]
    <2>1. s \in HandlerStates /\ HandlerOK(s) /\ s.pc = "load"
      BY DEF Idle, HandlerStates, Jobs, PCs, MaybeLang, HandlerOK
    <2>2. QED
      BY <1>2, <2>1, QuietStep DEF Arrive
  <1>3. QED
    BY <1>1, <1>2 DEF Arrive

LEMMA ReadStep ==
  ASSUME LanguageInv, NEW h \in Handlers, Read(h)
  PROVE  LanguageInv'
  <1>1. PICK l \in Answers : hs' = [hs EXCEPT ![h] = [hs[h] EXCEPT !.pc = "store", !.got = l]]
    BY DEF Read
  <1> DEFINE s == [hs[h] EXCEPT !.pc = "store", !.got = l]
  <1>2. hs[h] \in HandlerStates /\ HandlerOK(hs[h]) /\ l \in {NoLang, Hint, claim} /\ l \in MaybeLang
    BY DEF LanguageInv, TypeOK, HandlersOK, Answers, MaybeLang
  <1>3. s \in HandlerStates /\ s.pc = "store" /\ s.got = l
    BY <1>2 DEF HandlerStates, PCs
  <1>4. HandlerOK(s)
    BY <1>2 DEF HandlerStates, HandlerOK, Read
  <1>5. QED
    BY <1>1, <1>2, <1>3, <1>4, QuietStep DEF Read, LookingUp

\* Where a handler goes when it knows the language.
LEMMA ResolvedTo ==
  ASSUME LanguageInv, NEW h \in Handlers, hs[h].pc \in {"load", "store"}, Resolved(h)
  PROVE  \E s \in HandlerStates :
           /\ HandlerOK(s)
           /\ hs' = [hs EXCEPT ![h] = s]
           /\ s.pc \in {"idle", "set", "delete"}
           /\ IF s.pc = "delete" THEN BeginClear(h) ELSE UNCHANGED calm
           /\ UNCHANGED <<removed, quiet, picked>>
  <1>1. hs[h] \in HandlerStates /\ HandlerOK(hs[h])
    BY DEF LanguageInv, TypeOK, HandlersOK
  <1>2. CASE hs[h].job = "pick"
    <2> DEFINE s == [hs[h] EXCEPT !.pc = "set"]
    <2>1. s \in HandlerStates /\ HandlerOK(s) /\ s.pc = "set"
      BY <1>1, <1>2 DEF HandlerStates, HandlerOK, PCs
    <2>2. hs' = [hs EXCEPT ![h] = s]
      BY <1>2 DEF Resolved
    <2>3. UNCHANGED <<calm, removed, quiet, picked>>
      BY <1>2 DEF Resolved
    <2>4. QED
      BY <2>1, <2>2, <2>3
  <1>3. CASE hs[h].job = "follow"
    <2> DEFINE s == [hs[h] EXCEPT !.pc = "delete"]
    <2>1. s \in HandlerStates /\ HandlerOK(s) /\ s.pc = "delete"
      BY <1>1, <1>3 DEF HandlerStates, HandlerOK, PCs
    <2>2. hs' = [hs EXCEPT ![h] = s]
      BY <1>3 DEF Resolved
    <2>3. BeginClear(h) /\ UNCHANGED <<removed, quiet, picked>>
      BY <1>3 DEF Resolved
    <2>4. QED
      BY <2>1, <2>2, <2>3
  <1>4. CASE hs[h].job \notin {"pick", "follow"}
    <2>1. Idle \in HandlerStates /\ HandlerOK(Idle) /\ Idle.pc = "idle"
      BY DEF Idle, HandlerStates, Jobs, PCs, MaybeLang, HandlerOK
    <2>2. hs' = [hs EXCEPT ![h] = Idle] /\ UNCHANGED <<calm, removed, quiet, picked>>
      BY <1>4 DEF Resolved
    <2>3. QED
      BY <2>1, <2>2
  <1>5. QED
    BY <1>2, <1>3, <1>4

\* What must be so for a clear to count as alone.
LEMMA BeginsAlone ==
  ASSUME LanguageInv, NEW h \in Handlers, BeginClear(h)
  PROVE  /\ calm' \in [Handlers -> Calms]
         /\ \A g \in Handlers : calm'[g] = "alone" =>
              /\ g = h
              /\ \A f \in Handlers : pending[f] = NoRequest
              /\ \A f \in Handlers \ {h} : ~Clearing(f) /\ ~LookingUp(f)
  <1>1. \A g \in Handlers : calm'[g] \in Calms
    BY DEF BeginClear, Calms
  <1>2. calm' \in [Handlers -> Calms]
    BY <1>1 DEF BeginClear
  <1>3. \A g \in Handlers : calm'[g] = "alone" =>
          /\ g = h
          /\ \A f \in Handlers : pending[f] = NoRequest
          /\ \A f \in Handlers \ {h} : ~Clearing(f) /\ ~LookingUp(f)
    BY DEF BeginClear, Clearing
  <1>4. QED
    BY <1>2, <1>3

\* Load and Store: the language is known, and cached.
LEMMA ResolveStep ==
  ASSUME LanguageInv, NEW h \in Handlers, hs[h].pc \in {"load", "store"}, Resolved(h),
         cache' \in Langs,
         cache' # cache => hs[h].pc = "store" /\ cache' \in {Hint, hs[h].got},
         UNCHANGED <<core, pending>>
  PROVE  LanguageInv'
  <1>1. PICK s \in HandlerStates :
          /\ HandlerOK(s)
          /\ hs' = [hs EXCEPT ![h] = s]
          /\ s.pc \in {"idle", "set", "delete"}
          /\ IF s.pc = "delete" THEN BeginClear(h) ELSE UNCHANGED calm
          /\ UNCHANGED <<removed, quiet, picked>>
    BY ResolvedTo
  <1>2. /\ hs' \in [Handlers -> HandlerStates]
        /\ \A g \in Handlers : hs'[g] = IF g = h THEN s ELSE hs[g]
        /\ HandlersOK'
    BY <1>1, Moves
  <1>3. calm' \in [Handlers -> Calms]
    BY <1>1, BeginsAlone DEF LanguageInv, TypeOK
  <1>4. TypeOK'
    BY <1>1, <1>2, <1>3 DEF LanguageInv, TypeOK, core
  <1>5. AloneOK'
    <2>1. CASE s.pc = "delete"
      <3>1. \A g \in Handlers : calm'[g] = "alone" =>
              /\ g = h
              /\ \A f \in Handlers : pending[f] = NoRequest
              /\ \A f \in Handlers \ {h} : ~Clearing(f) /\ ~LookingUp(f)
        BY <1>1, <2>1, BeginsAlone
      <3>2. cache' # Absent
        OBVIOUS
      <3>3. QED
        BY <1>2, <2>1, <3>1, <3>2 DEF AloneOK, Clearing, LookingUp
    <2>2. CASE s.pc # "delete"
      <3>1. UNCHANGED calm
        BY <1>1, <2>2
      <3>2. QED
        BY <1>1, <1>2, <2>2, <3>1 DEF LanguageInv, AloneOK, Clearing, LookingUp, core
    <2>3. QED
      BY <2>1, <2>2
  <1>6. ForgottenOK'
    BY <1>1, <1>2 DEF LanguageInv, ForgottenOK, core
  <1>7. PickedOK'
    BY <1>1, <1>2 DEF LanguageInv, PickedOK, LookingUp
  <1>8. QED
    BY <1>2, <1>4, <1>5, <1>6, <1>7 DEF LanguageInv

LEMMA LoadStep ==
  ASSUME LanguageInv, NEW h \in Handlers, Load(h)
  PROVE  LanguageInv'
  <1>1. CASE cache # Absent
    <2>1. cache' \in Langs /\ cache' = cache
      BY <1>1 DEF Load, LanguageInv, TypeOK
    <2>2. QED
      BY <1>1, <2>1, ResolveStep DEF Load
  <1>2. CASE cache = Absent
    <2> DEFINE s == [hs[h] EXCEPT !.pc = "read"]
    <2>1. hs[h] \in HandlerStates /\ HandlerOK(hs[h])
      BY DEF LanguageInv, TypeOK, HandlersOK
    <2>2. hs' = [hs EXCEPT ![h] = s] /\ UNCHANGED <<cache, core, pending, ghosts>>
      BY <1>2 DEF Load, Goto, LanguageInv, TypeOK
    <2>3. s \in HandlerStates /\ s.pc = "read"
      BY <2>1 DEF HandlerStates, PCs
    <2>4. HandlerOK(s)
      BY <2>1 DEF HandlerStates, HandlerOK, Load
    <2>5. QED
      BY <1>2, <2>2, <2>3, <2>4, QuietStep
  <1>3. QED
    BY <1>1, <1>2

LEMMA StoreStep ==
  ASSUME LanguageInv, NEW h \in Handlers, Store(h)
  PROVE  LanguageInv'
  <1>1. hs[h].got \in MaybeLang
    BY DEF LanguageInv, TypeOK, HandlerStates
  <1>2. cache' \in Langs /\ cache' \in {Hint, hs[h].got}
    BY <1>1 DEF Store, MaybeLang
  <1>3. QED
    BY <1>2, ResolveStep DEF Store

\* Detect and Pick: after a new claim no clear is alone, and nothing is known of
\* what one has removed.
LEMMA ClaimStep ==
  ASSUME LanguageInv, NEW h \in Handlers, NEW l \in Langs, NEW source \in {"manual", "auto"},
         SetLanguage(h, l, source),
         picked' # NoLang => picked' = l /\ \A g \in Handlers : ~LookingUp(g),
         picked' \in MaybeLang
  PROVE  LanguageInv'
  <1>1. Idle \in HandlerStates /\ HandlerOK(Idle) /\ Idle.pc = "idle"
    BY DEF Idle, HandlerStates, Jobs, PCs, MaybeLang, HandlerOK
  <1>2. /\ hs' \in [Handlers -> HandlerStates]
        /\ \A g \in Handlers : hs'[g] = IF g = h THEN Idle ELSE hs[g]
        /\ HandlersOK'
    <2>1. hs' = [hs EXCEPT ![h] = Idle]
      BY DEF SetLanguage
    <2>2. QED
      BY <1>1, <2>1, Moves
  <1>3. [kind |-> source, lang |-> l] \in Requests
    BY DEF Requests
  <1>4. pending' \in [Handlers -> Requests \cup {NoRequest}]
    BY <1>3 DEF SetLanguage, LanguageInv, TypeOK
  <1>5. calm' = [g \in Handlers |-> "disturbed"] /\ removed' = NoLang /\ quiet' = quiet
    BY DEF SetLanguage, NewClaim
  <1>6. cache' = l /\ claim' = claim /\ manual' = manual
    BY DEF SetLanguage, core
  <1>7. TypeOK'
    BY <1>2, <1>4, <1>5, <1>6 DEF LanguageInv, TypeOK, Calms, MaybeLang
  <1>8. AloneOK' /\ ForgottenOK'
    BY <1>5 DEF AloneOK, ForgottenOK
  <1>9. PickedOK'
    BY <1>1, <1>2, <1>6 DEF PickedOK, LookingUp
  <1>10. QED
    BY <1>2, <1>7, <1>8, <1>9 DEF LanguageInv

LEMMA PickStep ==
  ASSUME LanguageInv, NEW h \in Handlers, Detect(h) \/ Pick(h)
  PROVE  LanguageInv'
  <1>1. CASE Detect(h)
    BY <1>1, ClaimStep DEF Detect, MaybeLang
  <1>2. CASE Pick(h)
    <2>1. hs[h].code \in Langs
      BY <1>2 DEF Pick, LanguageInv, HandlersOK, HandlerOK
    <2>2. SetLanguage(h, hs[h].code, "manual")
      BY <1>2 DEF Pick
    <2>3. picked' = IF \E g \in Handlers : LookingUp(g) THEN NoLang ELSE hs[h].code
      BY <1>2 DEF Pick
    <2>4. QED
      BY <2>1, <2>2, <2>3, ClaimStep DEF MaybeLang
  <1>3. QED
    BY <1>1, <1>2

\* A clear, by the handler or in the air, makes nobody remember.
LEMMA DeleteStep ==
  ASSUME LanguageInv, NEW h \in Handlers, Delete(h)
  PROVE  LanguageInv'
  <1> DEFINE clear == [kind |-> "clear", lang |-> NoLang]
  <1>1. /\ hs[h] \in HandlerStates /\ HandlerOK(hs[h]) /\ hs[h].pc = "delete"
        /\ hs[h].job = "follow" /\ hs[h].code = NoLang
    BY DEF LanguageInv, TypeOK, HandlersOK, HandlerOK, Delete
  <1>2. UNCHANGED <<cache, calm, removed, quiet, picked>>
    BY DEF Delete, ghosts
  <1>3. clear \in Requests /\ clear # NoRequest /\ clear.lang = NoLang
    BY DEF Requests, NoRequest
  <1>4. CASE /\ Apply(clear)
             /\ hs' = [hs EXCEPT ![h] = [hs[h] EXCEPT !.pc = "drop", !.code = claim]]
             /\ UNCHANGED pending
    <2> DEFINE s == [hs[h] EXCEPT !.pc = "drop", !.code = claim]
    <2>1. claim' = NoLang /\ manual' = FALSE
      BY <1>4 DEF Apply
    <2>2. s \in HandlerStates /\ s.pc = "drop" /\ s.code = claim
      BY <1>1 DEF LanguageInv, TypeOK, HandlerStates, PCs
    <2>3. HandlerOK(s)
      BY <1>1 DEF HandlerStates, HandlerOK
    <2>4. /\ hs' \in [Handlers -> HandlerStates]
          /\ \A g \in Handlers : hs'[g] = IF g = h THEN s ELSE hs[g]
          /\ HandlersOK'
      BY <1>4, <2>2, <2>3, Moves
    <2> HIDE DEF s
    <2>5. TypeOK'
      BY <1>2, <1>4, <2>1, <2>4 DEF LanguageInv, TypeOK, MaybeLang
    <2>6. AloneOK'
      BY <1>1, <1>2, <1>4, <2>1, <2>2, <2>4 DEF LanguageInv, AloneOK, Clearing, LookingUp
    <2>7. ForgottenOK'
      BY <1>2, <1>4, <2>1, <2>2, <2>4 DEF LanguageInv, ForgottenOK
    <2>8. PickedOK'
      BY <1>2, <2>2, <2>4 DEF LanguageInv, PickedOK, LookingUp
    <2>9. QED
      BY <2>4, <2>5, <2>6, <2>7, <2>8 DEF LanguageInv
  <1>5. CASE /\ Goto(h, "drop") /\ UNCHANGED core
             /\ pending' = pending \/ pending' = [pending EXCEPT ![h] = clear]
    <2> DEFINE s == [hs[h] EXCEPT !.pc = "drop"]
    <2>1. s \in HandlerStates /\ s.pc = "drop" /\ s.code = NoLang
      BY <1>1 DEF HandlerStates, PCs
    <2>2. HandlerOK(s)
      BY <1>1 DEF HandlerStates, HandlerOK
    <2>3. hs' = [hs EXCEPT ![h] = s]
      BY <1>5 DEF Goto, LanguageInv, TypeOK
    <2>4. /\ hs' \in [Handlers -> HandlerStates]
          /\ \A g \in Handlers : hs'[g] = IF g = h THEN s ELSE hs[g]
          /\ HandlersOK'
      BY <2>1, <2>2, <2>3, Moves
    <2> HIDE DEF s
    <2>5. /\ pending' \in [Handlers -> Requests \cup {NoRequest}]
          /\ \A g \in Handlers : pending'[g] = pending[g] \/ pending'[g].lang = NoLang
      BY <1>3, <1>5 DEF LanguageInv, TypeOK
    <2>6. TypeOK'
      BY <1>2, <1>5, <2>4, <2>5 DEF LanguageInv, TypeOK, core
    <2>7. AloneOK'
      BY <1>1, <1>2, <1>5, <2>1, <2>4 DEF LanguageInv, AloneOK, Clearing, LookingUp, core
    <2>8. ForgottenOK'
      BY <1>2, <1>5, <2>1, <2>4, <2>5 DEF LanguageInv, ForgottenOK, core
    <2>9. PickedOK'
      BY <1>2, <2>1, <2>4 DEF LanguageInv, PickedOK, LookingUp
    <2>10. QED
      BY <2>4, <2>6, <2>7, <2>8, <2>9 DEF LanguageInv
  <1>6. QED
    BY <1>4, <1>5 DEF Delete

LEMMA DropStep ==
  ASSUME LanguageInv, NEW h \in Handlers, Drop(h)
  PROVE  LanguageInv'
  <1> DEFINE s == [Idle EXCEPT !.job = "panel", !.pc = "load"]
  <1>1. s \in HandlerStates /\ HandlerOK(s) /\ s.pc = "load"
    BY DEF Idle, HandlerStates, Jobs, PCs, MaybeLang, HandlerOK
  <1>2. hs' = [hs EXCEPT ![h] = s]
    BY DEF Drop
  <1>3. /\ hs' \in [Handlers -> HandlerStates]
        /\ \A g \in Handlers : hs'[g] = IF g = h THEN s ELSE hs[g]
        /\ HandlersOK'
    BY <1>1, <1>2, Moves
  <1> HIDE DEF s
  <1>4. /\ hs[h].pc = "drop" /\ cache' = Absent
        /\ removed' = hs[h].code /\ quiet' = calm[h] /\ picked' = NoLang
        /\ UNCHANGED <<claim, manual, pending, calm>>
    BY DEF Drop, core
  <1>5. TypeOK'
    BY <1>3, <1>4 DEF LanguageInv, TypeOK, MaybeLang, HandlerStates
  <1>6. AloneOK'
    BY <1>1, <1>3, <1>4 DEF LanguageInv, AloneOK, Clearing, LookingUp
  <1>7. ForgottenOK'
    <2> SUFFICES ASSUME calm[h] = "alone", hs[h].code \notin {NoLang, Hint}
                 PROVE  /\ hs[h].code # cache' /\ hs[h].code # claim
                        /\ \A g \in Handlers : /\ pending[g].lang # hs[h].code
                                               /\ hs'[g].pc # "store"
      BY <1>4 DEF ForgottenOK
    <2>1. hs[h].code \in Langs
      BY DEF LanguageInv, TypeOK, HandlerStates, MaybeLang
    <2>2. /\ \A g \in Handlers : ~LookingUp(g) /\ pending[g] = NoRequest
          /\ claim = NoLang
      BY <1>4 DEF LanguageInv, AloneOK, Clearing
    <2>3. QED
      BY <1>1, <1>3, <1>4, <2>1, <2>2 DEF LookingUp, NoRequest
  <1>8. PickedOK'
    BY <1>4 DEF PickedOK
  <1>9. QED
    BY <1>3, <1>5, <1>6, <1>7, <1>8 DEF LanguageInv

\* What a request that was in the air makes of the claim.
LEMMA LandStep ==
  ASSUME LanguageInv, NEW h \in Handlers, Land(h)
  PROVE  LanguageInv'
  <1> DEFINE r == pending[h]
  <1>1. r \in Requests /\ r # NoRequest /\ r.lang \in MaybeLang
    BY DEF LanguageInv, TypeOK, Land, Requests, MaybeLang
  <1>2. claim' \in {NoLang, r.lang, claim} /\ manual' \in BOOLEAN
    BY DEF Land, Apply, core, LanguageInv, TypeOK
  <1>3. /\ pending' \in [Handlers -> Requests \cup {NoRequest}]
        /\ \A g \in Handlers : pending'[g] = pending[g] \/ pending'[g] = NoRequest
    BY DEF LanguageInv, TypeOK, Land
  <1>4. UNCHANGED <<cache, hs, calm, removed, quiet, picked>>
    BY DEF Land, ghosts
  <1>5. TypeOK'
    BY <1>1, <1>2, <1>3, <1>4 DEF LanguageInv, TypeOK, MaybeLang
  <1>6. AloneOK'
    <2> SUFFICES ASSUME NEW g \in Handlers, calm[g] = "alone", Clearing(g)
                 PROVE  /\ cache # Absent
                        /\ \A f \in Handlers : ~LookingUp(f) /\ (Clearing(f) => f = g)
                        /\ ~(hs[g].pc = "delete" \/ hs[g].code # NoLang)
      BY <1>4 DEF AloneOK, Clearing, LookingUp
    <2>1. QED
      BY <1>1 DEF LanguageInv, AloneOK, Clearing
  <1>7. ForgottenOK'
    BY <1>1, <1>2, <1>3, <1>4 DEF LanguageInv, ForgottenOK, NoRequest
  <1>8. HandlersOK' /\ PickedOK'
    BY <1>4 DEF LanguageInv, HandlersOK, PickedOK, LookingUp
  <1>9. QED
    BY <1>5, <1>6, <1>7, <1>8 DEF LanguageInv

LEMMA RestartStep ==
  ASSUME LanguageInv, Restart
  PROVE  LanguageInv'
  <1>1. Idle \in HandlerStates /\ HandlerOK(Idle) /\ Idle.pc = "idle"
    BY DEF Idle, HandlerStates, Jobs, PCs, MaybeLang, HandlerOK
  <1>2. hs' \in [Handlers -> HandlerStates] /\ \A h \in Handlers : hs'[h] = Idle
    BY <1>1 DEF Restart
  <1>3. TypeOK'
    BY <1>2 DEF Restart, LanguageInv, TypeOK, MaybeLang, Calms, core
  <1>4. HandlersOK' /\ AloneOK' /\ PickedOK'
    BY <1>1, <1>2 DEF Restart, HandlersOK, AloneOK, PickedOK
  <1>5. ForgottenOK'
    BY <1>1, <1>2 DEF Restart, LanguageInv, ForgottenOK, core, TypeOK, MaybeLang
  <1>6. QED
    BY <1>3, <1>4, <1>5 DEF LanguageInv

LEMMA LanguageStep == LanguageInv /\ [Next]_vars => LanguageInv'
  <1> SUFFICES ASSUME LanguageInv, [Next]_vars PROVE LanguageInv'
    OBVIOUS
  <1>1. ASSUME NEW h \in Handlers,
               Arrive(h) \/ Load(h) \/ Read(h) \/ Store(h) \/ Detect(h)
                 \/ Pick(h) \/ Delete(h) \/ Drop(h) \/ Land(h)
        PROVE  LanguageInv'
    BY <1>1, ArriveStep, LoadStep, ReadStep, StoreStep, PickStep, DeleteStep, DropStep, LandStep
  <1>2. CASE Restart
    BY <1>2, RestartStep
  <1>3. CASE UNCHANGED vars
    BY <1>3 DEF vars, LanguageInv, TypeOK, HandlersOK, AloneOK, Clearing, LookingUp,
                ForgottenOK, PickedOK
  <1>4. QED
    BY <1>1, <1>2, <1>3 DEF Next

\* The inductive invariant: which lookups, clears and requests can be under way
\* together.
THEOREM LanguageInvariant == Spec => []LanguageInv
  BY InitLanguage, LanguageStep, PTL DEF Spec

\* The cache, Core, the requests and the handlers keep to their types.
THEOREM LanguageTypes == Spec => []TypeOK
  <1>1. LanguageInv => TypeOK
    BY DEF LanguageInv
  <1>2. QED
    BY <1>1, LanguageInvariant, PTL

\* A clear that was alone when it began leaves the removed choice neither
\* claimed nor cached, until somebody picks.
THEOREM ClearedIsForgotten == Spec => []ClearForgets
  <1>1. LanguageInv => ClearForgets
    BY DEF LanguageInv, ForgottenOK, ClearForgets
  <1>2. QED
    BY <1>1, LanguageInvariant, PTL

\* A pick made while no lookup was under way stays what every handler sees.
THEOREM PickedStays == Spec => []PickStays
  <1>1. LanguageInv => PickStays
    BY DEF LanguageInv, PickedOK, PickStays
  <1>2. QED
    BY <1>1, LanguageInvariant, PTL
=============================================================================
