------------------------------ MODULE Language ------------------------------
(***************************************************************************)
(* The language of one user: langCache in internal/bot/handlers.go, which  *)
(* has no expiry, and this bot's claim in Core (internal/core/core.go).    *)
(*                                                                         *)
(* The handlers of a user's updates run concurrently (poll.go).  A handler *)
(* looks the language up; a menu callback may then pick one, which is      *)
(* written to Core in the background, or drop the claim ("Follow           *)
(* Telegram"), which waits for Core.  Every error of Core is swallowed.    *)
(* What other bots claim for the user is left out.                         *)
(***************************************************************************)
EXTENDS Integers

CONSTANTS
  Handlers,   \* bound: as many updates of the user are handled at once
  Langs,      \* the supported languages
  Hint,       \* what i18n.Resolve makes of Telegram's language_code
  NoLang,     \* what Core answers when it has none
  Absent      \* langCache has no entry

ASSUME LanguageAssumption ==
  Hint \in Langs /\ NoLang \notin Langs /\ Absent \notin Langs

VARIABLES
  cache,     \* langCache of the user
  claim,     \* Core: this bot's claim for the user
  manual,    \* Core: the claim's source is SourceManual
  pending,   \* requests to Core no handler waits for; bound: one per handler
  hs,        \* the handlers
  calm,      \* ghost: what else goes on while a handler clears the language
  removed,   \* ghost: the choice the last clear removed
  quiet,     \* ghost: calm, as it was for that clear
  picked     \* ghost: the last pick, if no lookup was under way

core == <<claim, manual>>
ghosts == <<calm, removed, quiet, picked>>
vars == <<cache, claim, manual, pending, hs, calm, removed, quiet, picked>>

MaybeLang == Langs \cup {NoLang}

\* What a handler is for.  "look": any handler that only needs the language;
\* "follow" becomes "panel", drawing the panel again, after its clear.
Jobs == {"look", "start", "pick", "follow", "panel"}
PCs == {"idle", "load", "read", "store", "set", "delete", "drop"}

\* got: what Core said.  code: the language picked, or that was removed.
HandlerStates == [job : Jobs, pc : PCs, got : MaybeLang, code : MaybeLang]
Idle == [job |-> "look", pc |-> "idle", got |-> NoLang, code |-> NoLang]

\* A set_language, by source, or a clear_language.
Requests == [kind : {"manual", "auto"}, lang : Langs] \cup {[kind |-> "clear", lang |-> NoLang]}
NoRequest == [kind |-> "none", lang |-> NoLang]

\* "lookups": nothing but lookups; "alone": none that may have read Core yet.
Calms == {"disturbed", "lookups", "alone"}

TypeOK ==
  /\ cache \in Langs \cup {Absent}
  /\ claim \in MaybeLang
  /\ manual \in BOOLEAN
  /\ pending \in [Handlers -> Requests \cup {NoRequest}]
  /\ hs \in [Handlers -> HandlerStates]
  /\ calm \in [Handlers -> Calms]
  /\ removed \in MaybeLang
  /\ quiet \in Calms
  /\ picked \in MaybeLang

\* A process that has just started, for a user who may have been here before.
Init ==
  /\ cache = Absent
  /\ claim \in MaybeLang
  /\ manual \in (IF claim = NoLang THEN {FALSE} ELSE BOOLEAN)
  /\ pending = [h \in Handlers |-> NoRequest]
  /\ hs = [h \in Handlers |-> Idle]
  /\ calm = [h \in Handlers |-> "disturbed"]
  /\ removed = NoLang /\ quiet = "disturbed" /\ picked = NoLang

Goto(h, pc) == hs' = [hs EXCEPT ![h].pc = pc]

-----------------------------------------------------------------------------
(* Core                                                                    *)

\* core.set_language and core.clear_language.  Whether an auto-detected
\* language replaces a manual claim is up to Core: either may happen.
Apply(r) ==
  \/ r.kind = "clear" /\ claim' = NoLang /\ manual' = FALSE
  \/ r.kind = "manual" /\ claim' = r.lang /\ manual' = TRUE
  \/ r.kind = "auto" /\ claim' = r.lang /\ manual' = FALSE
  \/ r.kind = "auto" /\ manual /\ UNCHANGED core

\* A request nobody waits for is carried out, or is lost.
Land(h) ==
  /\ pending[h] # NoRequest
  /\ Apply(pending[h]) \/ UNCHANGED core
  /\ pending' = [pending EXCEPT ![h] = NoRequest]
  /\ UNCHANGED <<cache, hs, ghosts>>

\* core.effective_language: this bot's claim or, failing that, the hint if a
\* core.touch has recorded it.  No answer, a timeout and an error look alike.
Answers == {NoLang, IF claim = NoLang THEN Hint ELSE claim}

-----------------------------------------------------------------------------
(* Looking up: langResolve, onStart, coreUserLang                          *)

\* An update of the user arrives.
Arrive(h) ==
  /\ hs[h].pc = "idle"
  /\ \/ \E job \in {"look", "start", "follow"} :
          hs' = [hs EXCEPT ![h] = [Idle EXCEPT !.job = job, !.pc = "load"]]
     \/ \E l \in Langs :
          hs' = [hs EXCEPT ![h] = [Idle EXCEPT !.job = "pick", !.pc = "load", !.code = l]]
  /\ UNCHANGED <<cache, core, pending, ghosts>>

\* A lookup that may know what Core said some time ago.
LookingUp(h) == hs[h].pc \in {"read", "store"}

\* What is going on when h begins to clear; whoever else clears is disturbed.
BeginClear(h) ==
  calm' = [g \in Handlers |->
    CASE g # h -> "disturbed"
      [] \E f \in Handlers : pending[f] # NoRequest -> "disturbed"
      [] \E f \in Handlers \ {h} : hs[f].pc \in {"delete", "drop"} -> "disturbed"
      [] \E f \in Handlers \ {h} : LookingUp(f) -> "lookups"
      [] OTHER -> "alone"]

\* A new claim: no clear is alone any more, and what one removed may be back.
NewClaim ==
  /\ calm' = [h \in Handlers |-> "disturbed"]
  /\ removed' = NoLang
  /\ UNCHANGED quiet

\* The language is known: on to what the handler is for.
Resolved(h) ==
  /\ hs' = [hs EXCEPT ![h] =
       CASE hs[h].job = "pick" -> [hs[h] EXCEPT !.pc = "set"]
         [] hs[h].job = "follow" -> [hs[h] EXCEPT !.pc = "delete"]
         [] OTHER -> Idle]
  /\ IF hs[h].job = "follow" THEN BeginClear(h) ELSE UNCHANGED calm
  /\ UNCHANGED <<removed, quiet, picked>>

\* MUTANT of Load: Core is asked even when the language is cached.
BugLoad(h) ==
  /\ hs[h].pc = "load"
  /\ Goto(h, "read")
  /\ UNCHANGED <<cache, core, pending, ghosts>>

Load(h) ==
  /\ hs[h].pc = "load"
  /\ IF cache # Absent
     THEN Resolved(h)
     ELSE Goto(h, "read") /\ UNCHANGED ghosts
  /\ UNCHANGED <<cache, core, pending>>

\* EffectiveLanguage
Read(h) ==
  /\ hs[h].pc = "read"
  /\ \E l \in Answers :
       hs' = [hs EXCEPT ![h] = [hs[h] EXCEPT !.pc = "store", !.got = l]]
  /\ UNCHANGED <<cache, core, pending, ghosts>>

\* MUTANT of Store: an empty answer is cached like any other.
BugStore(h) ==
  /\ hs[h].pc = "store"
  /\ cache' = hs[h].got
  /\ Resolved(h)
  /\ UNCHANGED <<core, pending>>

\* The language Core answered is cached or, failing that, the hint.
Store(h) ==
  /\ hs[h].pc = "store"
  /\ hs[h].job # "start" \/ hs[h].got # NoLang
  /\ cache' = IF hs[h].got = NoLang THEN Hint ELSE hs[h].got
  /\ Resolved(h)
  /\ UNCHANGED <<core, pending>>

-----------------------------------------------------------------------------
(* Changing: setLanguage and clearLanguage                                 *)

SetLanguage(h, l, source) ==
  /\ pending[h] = NoRequest
  /\ cache' = l
  /\ pending' = [pending EXCEPT ![h] = [kind |-> source, lang |-> l]]
  /\ hs' = [hs EXCEPT ![h] = Idle]
  /\ NewClaim
  /\ UNCHANGED core

\* /start of a user Core knows nothing of records the hint.
Detect(h) ==
  /\ hs[h].pc = "store"
  /\ hs[h].job = "start" /\ hs[h].got = NoLang
  /\ SetLanguage(h, Hint, "auto")
  /\ picked' = NoLang

Pick(h) ==
  /\ hs[h].pc = "set"
  /\ SetLanguage(h, hs[h].code, "manual")
  /\ picked' = IF \E g \in Handlers : LookingUp(g) THEN NoLang ELSE hs[h].code

\* MUTANT of Delete: it does not wait for Core.
BugDelete(h) ==
  /\ hs[h].pc = "delete"
  /\ pending[h] = NoRequest
  /\ pending' = [pending EXCEPT ![h] = [kind |-> "clear", lang |-> NoLang]]
  /\ hs' = [hs EXCEPT ![h] = [hs[h] EXCEPT !.pc = "drop", !.code = claim]]
  /\ UNCHANGED <<cache, core, ghosts>>

\* ClearLanguage: the claim is gone; or there was an error, and it may still go.
Delete(h) ==
  /\ hs[h].pc = "delete"
  /\ \/ /\ Apply([kind |-> "clear", lang |-> NoLang])
        /\ hs' = [hs EXCEPT ![h] = [hs[h] EXCEPT !.pc = "drop", !.code = claim]]
        /\ UNCHANGED pending
     \/ /\ Goto(h, "drop")
        /\ \/ UNCHANGED pending
           \/ /\ pending[h] = NoRequest
              /\ pending' = [pending EXCEPT ![h] = [kind |-> "clear", lang |-> NoLang]]
        /\ UNCHANGED core
  /\ UNCHANGED <<cache, ghosts>>

\* Whatever became of the claim, the cached value goes, and the panel is drawn
\* again from a lookup.
Drop(h) ==
  /\ hs[h].pc = "drop"
  /\ cache' = Absent
  /\ hs' = [hs EXCEPT ![h] = [Idle EXCEPT !.job = "panel", !.pc = "load"]]
  /\ removed' = hs[h].code /\ quiet' = calm[h] /\ picked' = NoLang
  /\ UNCHANGED <<core, pending, calm>>

\* The process starts again, with what it had asked of Core still under way.
Restart ==
  /\ cache' = Absent
  /\ hs' = [h \in Handlers |-> Idle]
  /\ calm' = [h \in Handlers |-> "disturbed"]
  /\ picked' = NoLang
  /\ UNCHANGED <<core, pending, removed, quiet>>

-----------------------------------------------------------------------------

Next ==
  \/ \E h \in Handlers :
       \/ Arrive(h) \/ Load(h) \/ Read(h) \/ Store(h) \/ Detect(h)
       \/ Pick(h) \/ Delete(h) \/ Drop(h) \/ Land(h)
  \/ Restart

Spec == Init /\ [][Next]_vars

-----------------------------------------------------------------------------
(* Properties                                                              *)

\* "Follow Telegram" drops the bot's claim and then the cached value.  If no
\* lookup was under way and no write in the air when it began, then whatever
\* lookups come during and after it, the removed choice is neither claimed nor
\* cached again until somebody picks.
ClearForgets ==
  quiet = "alone" /\ removed \notin {NoLang, Hint} => removed \notin {cache, claim}

\* The same with lookups under way, which is what clearLanguage's comment says
\* of its order: that a concurrent lookup cannot cache the removed choice again.
ClearForgetsUnderLookups ==
  quiet \in {"alone", "lookups"} /\ removed \notin {NoLang, Hint} => removed # cache

\* A pick is what every handler sees from then on, long before Core has it and
\* even if Core never gets it, unless a lookup was under way.
PickStays == picked # NoLang => cache = picked
=============================================================================
