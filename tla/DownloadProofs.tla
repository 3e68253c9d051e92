--------------------------- MODULE DownloadProofs ---------------------------
(***************************************************************************)
(* Theorems about Download, for every number of jobs and taps, every plan  *)
(* and every number of crashes.                                            *)
(***************************************************************************)
EXTENDS Download, FiniteSetTheorems, TLAPS

Acking(j) == worker.pc = "ack" /\ worker.job = j

\* The worker holds a notice in either of these.
WorkerOK ==
  /\ worker.acks < MaxAcks
  /\ worker.pc \in {"deliver", "ack"} => worker.job \in Jobs

\* Until its card is sent there is nothing to tap, and no job.
CardOK ==
  /\ pick.pc \in {"mint", "send"} =>
       /\ ~card.posted /\ card.button # Download
       /\ \A t \in Taps : tap[t].pc = "idle"
       /\ \A j \in Jobs : status[j] = "none"
  /\ pick.pc = "strip" => "bind failed" \in excuses

\* A Retry button comes with the notice of its job, so that every job has the
\* notices of all the earlier ones posted before it.
JobsOK ==
  /\ \A j \in Jobs : status[j] # "none" => \A i \in 1..(j - 1) : posts[i] > 0
  /\ card.button \in Jobs => posts[card.button] > 0
  /\ \A t \in Taps : tap[t].pc = "enqueue" =>
       /\ tap[t].button \in Download..(MaxJobs - 1)
       /\ tap[t].button \in Jobs => posts[tap[t].button] > 0

\* A notice goes out again only after something went wrong.
NoticesOK ==
  \A j \in Jobs :
    /\ notice[j] # "open" \/ posts[j] > 0 \/ (worker.pc \in {"deliver", "ack"} /\ worker.job = j)
         => status[j] \in Noticed
    /\ notice[j] = "acked" \/ Acking(j) => posts[j] > 0
    /\ posts[j] > 0 /\ notice[j] # "acked" => j \in again \/ Acking(j)
    /\ posts[j] > 1 => j \in again
    /\ worker.pc = "deliver" /\ worker.job = j /\ notice[j] = "acked" => j \in again

\* The retry of a job is on the card, or that of a newer one, or why not.
Offered(j) ==
  \/ card.button >= j
  \/ "bind failed" \in excuses
  \/ \E i \in again : i < j

OffersOK ==
  \A j \in Jobs :
    status[j] = "delivery_unknown" /\ (notice[j] = "acked" \/ Acking(j)) => Offered(j)

CardInv ==
  /\ TypeOK /\ WorkerOK /\ CardOK /\ JobsOK /\ NoticesOK /\ OffersOK
  /\ UnboundNeedsExcuse

USE BridgeAssumption, IntentAssumption, NotificationAssumption, DownloadAssumption
  DEF BridgeAssumption, IntentAssumption, NotificationAssumption, DownloadAssumption

-----------------------------------------------------------------------------
(* The plans: what ValidatePlan accepts and what sendOperation makes of it *)

LEMMA TakesAll ==
  ASSUME NEW S, NEW media \in Seq(S), NEW types,
         \A i \in DOMAIN media : media[i].type \in types
  PROVE  Taken(media, types) = media
  <1> DEFINE n == Len(media)
             place(m) == CHOOSE i \in 1..n : Cardinality({j \in 1..n : j <= i}) = m
  <1>1. n \in Nat /\ DOMAIN media = 1..n
    OBVIOUS
  <1>2. {i \in DOMAIN media : media[i].type \in types} = 1..n
    BY <1>1
  <1>3. Cardinality(1..n) = n
    BY <1>1, FS_Interval
  <1>4. \A i \in 1..n : Cardinality({j \in 1..n : j <= i}) = i
    <2> SUFFICES ASSUME NEW i \in 1..n PROVE Cardinality({j \in 1..n : j <= i}) = i
      OBVIOUS
    <2>1. {j \in 1..n : j <= i} = 1..i
      BY <1>1
    <2>2. i \in Int /\ 1 \in Int /\ ~(1 > i) /\ i - 1 + 1 = i
      BY <1>1
    <2> HIDE DEF n
    <2>3. QED
      BY <2>1, <2>2, FS_Interval
  <1>5. \A m \in 1..n : place(m) = m
    BY <1>4
  <1>6. Taken(media, types) = [m \in 1..n |-> media[place(m)]]
    <2> DEFINE positions == {i \in DOMAIN media : media[i].type \in types}
    <2>1. Taken(media, types) = [m \in 1..Cardinality(positions) |->
            media[CHOOSE i \in positions : Cardinality({j \in positions : j <= i}) = m]]
      BY DEF Taken
    <2>2. positions = 1..n
      BY <1>2
    <2> HIDE DEF positions
    <2>3. QED
      BY <1>3, <2>1, <2>2
  <1>7. Taken(media, types) = [m \in 1..n |-> media[m]]
    BY <1>5, <1>6
  <1>8. QED
    BY <1>1, <1>7

\* An accepted local source is asked for by the path that was validated exactly
\* when its URI is written in the canonical way.
LEMMA AskedAsValidated ==
  ASSUME NEW source, ValidateSource(source)
  PROVE  InputFile(source) = ValidatedFile(source) <=> CanonicalSource(source)
  <1>1. CASE source.kind = "telegram_file_id"
    BY <1>1 DEF InputFile, ValidatedFile, CanonicalSource
  <1>2. CASE source.kind = "local_file_uri"
    <2> DEFINE asked == [scheme |-> IF source.uri.scheme = "file://" THEN ""
                                    ELSE source.uri.scheme,
                         host |-> source.uri.host, path |-> source.uri.path,
                         tail |-> source.uri.tail]
               seen == [scheme |-> "", host |-> "", path |-> Clean(URLPath(source.uri)),
                        tail |-> ""]
    <2>1. source.uri.host = "" /\ source.uri.scheme # ""
      BY <1>2 DEF ValidateSource, FileSchemes
    <2>2. InputFile(source) = [local |-> TRUE, data |-> asked]
      BY <1>2 DEF InputFile
    <2>3. ValidatedFile(source) = [local |-> TRUE, data |-> seen]
      BY <1>2 DEF ValidatedFile
    <2>4. InputFile(source) = ValidatedFile(source) <=> asked = seen
      <3> HIDE DEF asked, seen
      <3>1. InputFile(source).data = asked /\ ValidatedFile(source).data = seen
        BY <2>2, <2>3
      <3>2. QED
        BY <2>2, <2>3, <3>1
    <2>5. asked = seen <=> /\ source.uri.scheme = "file://"
                           /\ source.uri.path = Clean(URLPath(source.uri))
                           /\ source.uri.tail = ""
      <3> DEFINE clean == Clean(URLPath(source.uri))
      <3>1. seen = [scheme |-> "", host |-> "", path |-> clean, tail |-> ""]
        OBVIOUS
      <3> HIDE DEF clean
      <3>2. QED
        BY <2>1, <3>1 DEF clean
    <2>6. QED
      BY <1>2, <2>4, <2>5 DEF CanonicalSource, Canonical
  <1>3. QED
    BY <1>1, <1>2 DEF ValidateSource

\* The file at each place of the message is the one validated for it exactly
\* when that is canonical.
FilesOf(op) ==
  /\ DOMAIN SendOperation(op).media = DOMAIN Sources(op)
  /\ \A i \in DOMAIN Sources(op) :
       SendOperation(op).media[i] = ValidatedFile(Sources(op)[i])
         <=> CanonicalSource(Sources(op)[i])

\* Every file_id of the operation is one a bad identifier can be traced to.
NamedOf(op) ==
  \A i \in DOMAIN Sources(op) :
    Sources(op)[i].kind = "telegram_file_id" =>
      Sources(op)[i].value \in InvalidFileIDSources(op, "bad file identifier")

\* What is said with the files, but for a group.
WordsOf(op) ==
  /\ op.type # "media_group" => SendOperation(op).markup = OperationMarkup(op.buttons)
  /\ op.type \in SingleTypes => SendOperation(op).caption = op.caption
  /\ op.type = "text" => SendOperation(op).text = op.text

SentOf(op) == SendOperation(op).ok /\ FilesOf(op) /\ NamedOf(op) /\ WordsOf(op)

LEMMA ValidIsSent ==
  ASSUME NEW op, ValidateOperation(op), op.media \in Seq(ToSet(op.media))
  PROVE  SentOf(op)
  <1>1. CASE op.type \in SingleTypes
    <2>1. SendOperation(op) = [ok |-> TRUE, media |-> <<InputFile(op.source)>>, text |-> 0,
                               caption |-> op.caption, markup |-> OperationMarkup(op.buttons)]
      BY <1>1 DEF SendOperation, SingleTypes
    <2>2. Sources(op) = <<op.source>>
      BY <1>1 DEF Sources, SingleTypes
    <2>3. ValidateSource(op.source)
      BY <1>1 DEF ValidateOperation, SingleTypes
    <2>4. FilesOf(op)
      BY <2>1, <2>2, <2>3, AskedAsValidated DEF FilesOf
    <2>5. NamedOf(op)
      BY <2>2 DEF NamedOf, InvalidFileIDSources
    <2>6. WordsOf(op)
      <3>1. op.type # "text"
        BY <1>1 DEF SingleTypes
      <3>2. QED
        BY <2>1, <3>1 DEF WordsOf
    <2>7. SendOperation(op).ok
      BY <2>1
    <2>8. QED
      BY <2>4, <2>5, <2>6, <2>7 DEF SentOf
  <1>2. CASE op.type = "media_group"
    <2> DEFINE files == [i \in DOMAIN op.media |-> InputFile(op.media[i].source)]
    <2>1. \A i \in DOMAIN op.media : /\ op.media[i] \in ToSet(op.media)
                                    /\ op.media[i].type \in GroupTypes
                                    /\ ValidateSource(op.media[i].source)
      BY <1>2 DEF ValidateOperation, SingleTypes, ToSet
    <2>2. Taken(op.media, {"photo", "video", "document"}) = op.media
      BY <2>1, TakesAll DEF GroupTypes
    <2>3. SendOperation(op) = [ok |-> TRUE, media |-> files, text |-> 0, caption |-> 0,
                               markup |-> <<>>]
      BY <1>2, <2>2 DEF SendOperation, SingleTypes
    <2>4. Sources(op) = [i \in DOMAIN op.media |-> op.media[i].source]
      BY <1>2 DEF Sources, SingleTypes
    <2>5. FilesOf(op)
      BY <2>1, <2>3, <2>4, AskedAsValidated DEF FilesOf
    <2>6. NamedOf(op)
      BY <2>1, <2>4 DEF NamedOf, InvalidFileIDSources
    <2>7. WordsOf(op)
      BY <1>2 DEF WordsOf, SingleTypes
    <2>8. SendOperation(op).ok
      BY <2>3
    <2>9. QED
      BY <2>5, <2>6, <2>7, <2>8 DEF SentOf
  <1>3. CASE op.type = "text"
    <2>1. /\ SendOperation(op) = [ok |-> TRUE, media |-> <<>>, text |-> op.text, caption |-> 0,
                                  markup |-> OperationMarkup(op.buttons)]
          /\ Sources(op) = <<>>
      BY <1>3 DEF SendOperation, Sources, SingleTypes
    <2>2. FilesOf(op) /\ NamedOf(op)
      BY <2>1 DEF FilesOf, NamedOf
    <2>3. WordsOf(op)
      BY <1>3, <2>1 DEF WordsOf, SingleTypes
    <2>4. QED
      BY <2>1, <2>2, <2>3 DEF SentOf
  <1>4. QED
    BY <1>1, <1>2, <1>3 DEF ValidateOperation

-----------------------------------------------------------------------------
(* The pick and the taps                                                   *)

LEMMA Ranges ==
  /\ NoButton = -1 /\ Download = 0 /\ Jobs = 1..MaxJobs
  /\ NoButton \in Buttons /\ Download \in Buttons /\ Jobs \subseteq Buttons
  /\ NoButton \notin Jobs /\ Download \notin Jobs /\ NoButton # Download
  BY DEF NoButton, Download, Jobs, Buttons

LEMMA InitCard == Init => CardInv
  <1> SUFFICES ASSUME Init PROVE CardInv
    OBVIOUS
  <1> USE DEF Init, BridgeInit, IntentInit, NotificationInit
  <1>1. BridgeTypeOK
    BY Ranges DEF BridgeTypeOK, Statuses
  <1>2. IntentTypeOK
    BY Ranges DEF IntentTypeOK, PickPCs, TapStates, IdleTap
  <1>3. NotificationTypeOK /\ stops \in 0..MaxStops
    BY DEF NotificationTypeOK, Idle, MaxAcks
  <1>4. WorkerOK /\ CardOK
    BY Ranges DEF WorkerOK, CardOK, Idle, MaxAcks, IdleTap
  <1>5. JobsOK
    BY Ranges DEF JobsOK, IdleTap
  <1>6. NoticesOK
    BY DEF NoticesOK, Acking, Idle
  <1>7. OffersOK /\ UnboundNeedsExcuse
    BY DEF OffersOK, UnboundNeedsExcuse
  <1>8. QED
    BY <1>1, <1>2, <1>3, <1>4, <1>5, <1>6, <1>7 DEF CardInv, TypeOK

\* The handler of the pick leaves jobs and notices alone.
LEMMA PickFrame ==
  ASSUME CardInv, UNCHANGED <<noticeVars, stops, status, retryable, misnamed, stopping, tap>>,
         bound' \in BOOLEAN,
         card' \in [posted : BOOLEAN, button : Buttons],
         pick' \in [pc : PickPCs, minted : BOOLEAN],
         excuses \subseteq excuses', excuses' \subseteq Excuses,
         CardOK', UnboundNeedsExcuse',
         card'.button \in Jobs => card'.button = card.button,
         \/ card'.button = card.button
         \/ pick.pc = "send"
         \/ "bind failed" \in excuses
  PROVE  CardInv'
  <1> USE DEF CardInv, noticeVars
  <1>1. TypeOK'
    BY DEF TypeOK, BridgeTypeOK, IntentTypeOK, NotificationTypeOK
  <1>2. WorkerOK' /\ NoticesOK'
    BY DEF WorkerOK, NoticesOK, Acking
  <1>3. JobsOK'
    BY DEF JobsOK
  <1>4. OffersOK'
    <2> SUFFICES ASSUME NEW j \in Jobs, status[j] = "delivery_unknown",
                        notice[j] = "acked" \/ Acking(j)
                 PROVE  Offered(j)'
      BY DEF OffersOK, Acking
    <2>1. pick.pc # "send" /\ Offered(j)
      BY DEF CardOK, OffersOK
    <2>2. QED
      BY <2>1 DEF Offered
  <1>5. QED
    BY <1>1, <1>2, <1>3, <1>4

LEMMA PickStep ==
  ASSUME CardInv, NoCover \/ Mint \/ SendCard \/ Bind \/ Strip, UNCHANGED <<noticeVars, stops>>
  PROVE  CardInv'
  <1>1. /\ UNCHANGED <<noticeVars, stops, status, retryable, misnamed, stopping, tap>>
        /\ pick \in [pc : PickPCs, minted : BOOLEAN] /\ excuses \subseteq Excuses
        /\ card \in [posted : BOOLEAN, button : Buttons] /\ bound \in BOOLEAN
        /\ stopping \in BOOLEAN
    BY DEF CardInv, TypeOK, BridgeTypeOK, IntentTypeOK,
           NoCover, Mint, SendCard, Bind, Strip, shared
  <1>2. \A pc \in PickPCs : [pc |-> pc, minted |-> pick.minted /\ pc # "done"]
                              \in [pc : PickPCs, minted : BOOLEAN]
    BY <1>1
  <1>3. CASE NoCover
    <2>1. /\ UNCHANGED <<bound, card, excuses>> /\ pick.pc = "mint"
          /\ pick' = [pc |-> "done", minted |-> pick.minted /\ "done" # "done"]
      BY <1>3 DEF NoCover, PickAt, shared
    <2>2. card.button # Download
      BY <2>1 DEF CardInv, CardOK
    <2>3. CardOK' /\ UnboundNeedsExcuse'
      BY <2>1, <2>2 DEF CardOK, UnboundNeedsExcuse
    <2>4. QED
      BY <1>1, <1>2, <2>1, <2>3, PickFrame DEF PickPCs
  <1>4. CASE Mint
    <2>1. PICK ok \in BOOLEAN : pick' = [pc |-> "send", minted |-> ok]
      BY <1>4 DEF Mint
    <2>2. UNCHANGED <<bound, card, excuses>> /\ pick.pc = "mint"
      BY <1>4 DEF Mint, shared
    <2>3. CardOK' /\ UnboundNeedsExcuse'
      BY <1>1, <2>1, <2>2 DEF CardInv, CardOK, UnboundNeedsExcuse
    <2>4. QED
      BY <1>1, <2>1, <2>2, <2>3, PickFrame DEF PickPCs
  <1>5. CASE SendCard
    <2>1. PICK posted \in BOOLEAN, ok \in BOOLEAN :
            /\ ok => posted /\ ~stopping
            /\ card' = [posted |-> posted,
                        button |-> IF posted /\ pick.minted THEN Download ELSE NoButton]
            /\ PickAt(IF ok /\ pick.minted THEN "bind" ELSE "done")
            /\ excuses' = IF posted /\ ~ok THEN excuses \cup {"send reply lost"} ELSE excuses
      BY <1>5 DEF SendCard
    <2>2. bound' = bound /\ pick.pc = "send"
      BY <1>5 DEF SendCard
    <2>3. pick'.pc = (IF ok /\ pick.minted THEN "bind" ELSE "done")
      BY <2>1 DEF PickAt
    <2>4. pick' \in [pc : PickPCs, minted : BOOLEAN]
      BY <1>2, <2>1 DEF PickAt, PickPCs
    <2>5. card' \in [posted : BOOLEAN, button : Buttons] /\ card'.button \notin Jobs
      BY <2>1, Ranges
    <2>6. excuses \subseteq excuses' /\ excuses' \subseteq Excuses
      BY <1>1, <2>1 DEF Excuses
    <2>7. CardOK'
      BY <2>3 DEF CardOK
    <2>8. UnboundNeedsExcuse'
      <3>1. card'.button = (IF posted /\ pick.minted THEN Download ELSE NoButton)
        BY <2>1
      <3>2. ASSUME pick'.pc = "done", card'.button = Download
            PROVE  excuses' \ {"bind failed"} # {}
        <4>1. posted /\ pick.minted
          BY <3>1, <3>2, Ranges
        <4>2. ~ok
          BY <2>3, <3>2, <4>1
        <4>3. "send reply lost" \in excuses' \ {"bind failed"}
          BY <2>1, <4>1, <4>2
        <4>4. QED
          BY <4>3
      <3>3. QED
        BY <3>2 DEF UnboundNeedsExcuse
    <2>9. QED
      BY <1>1, <2>2, <2>4, <2>5, <2>6, <2>7, <2>8, PickFrame
  <1>6. CASE Bind
    <2>1. PICK executed \in BOOLEAN, ok \in BOOLEAN :
            /\ ok => executed /\ ~stopping
            /\ bound' = executed
            /\ PickAt(IF ok THEN "done" ELSE "strip")
            /\ excuses' = IF ok THEN excuses ELSE excuses \cup {"bind failed"}
      BY <1>6 DEF Bind
    <2>2. card' = card /\ pick.pc = "bind"
      BY <1>6 DEF Bind
    <2>3. pick'.pc = (IF ok THEN "done" ELSE "strip")
      BY <2>1 DEF PickAt
    <2>4. pick' \in [pc : PickPCs, minted : BOOLEAN]
      BY <1>2, <2>1 DEF PickAt, PickPCs
    <2>5. excuses \subseteq excuses' /\ excuses' \subseteq Excuses
      BY <1>1, <2>1 DEF Excuses
    <2>6. CardOK' /\ UnboundNeedsExcuse'
      BY <2>1, <2>3 DEF CardOK, UnboundNeedsExcuse
    <2>7. QED
      BY <1>1, <2>1, <2>2, <2>4, <2>5, <2>6, PickFrame
  <1>7. CASE Strip
    <2>1. PICK done \in BOOLEAN :
            /\ card' = IF done THEN [card EXCEPT !.button = NoButton] ELSE card
            /\ excuses' = IF done THEN excuses
                          ELSE excuses \cup {IF stopping THEN "stopping" ELSE "strip refused"}
      BY <1>7 DEF Strip
    <2>2. /\ bound' = bound /\ pick.pc = "strip" /\ "bind failed" \in excuses
          /\ pick' = [pc |-> "done", minted |-> pick.minted /\ "done" # "done"]
      BY <1>7 DEF Strip, PickAt, CardInv, CardOK
    <2>3. /\ card' \in [posted : BOOLEAN, button : Buttons]
          /\ card'.button = (IF done THEN NoButton ELSE card.button)
      BY <1>1, <2>1, Ranges
    <2>4. excuses \subseteq excuses' /\ excuses' \subseteq Excuses
      BY <1>1, <2>1 DEF Excuses
    <2>5. CardOK'
      BY <2>2 DEF CardOK
    <2>6. UnboundNeedsExcuse'
      <3>1. CASE done
        BY <2>3, <3>1, Ranges DEF UnboundNeedsExcuse
      <3>2. CASE ~done
        <4>1. excuses' \cap {"stopping", "strip refused"} # {}
          BY <2>1, <3>2
        <4>2. QED
          BY <4>1 DEF UnboundNeedsExcuse
      <3>3. QED
        BY <3>1, <3>2
    <2>7. pick' \in [pc : PickPCs, minted : BOOLEAN]
      BY <1>2, <2>2 DEF PickPCs
    <2>8. QED
      BY <1>1, <2>2, <2>3, <2>4, <2>5, <2>6, <2>7, Ranges, PickFrame
  <1>8. QED
    BY <1>3, <1>4, <1>5, <1>6, <1>7

LEMMA TapStep ==
  ASSUME CardInv, NEW t \in Taps, Tap(t) \/ Enqueue(t) \/ EnqueueFails(t),
         UNCHANGED <<noticeVars, stops>>
  PROVE  CardInv'
  <1> USE DEF CardInv, noticeVars
  <1>1. /\ tap \in [Taps -> TapStates] /\ tap[t] \in TapStates /\ IdleTap \in TapStates
        /\ IdleTap.pc = "idle"
    BY Ranges DEF TypeOK, IntentTypeOK, IdleTap, TapStates
  <1>2. /\ UNCHANGED <<bound, card, retryable, misnamed, stopping, pick, excuses>>
        /\ UNCHANGED <<worker, notice, posts, again, stops>>
    BY DEF Tap, Enqueue, EnqueueFails, Queue, shared
  <1>3. PICK x \in TapStates : tap' = [tap EXCEPT ![t] = x] /\ (x.pc # "idle" => Tap(t))
          /\ (x.pc = "enqueue" => x.button = card.button)
    <2>1. CASE Tap(t)
      <3>1. PICK u \in Users :
              tap' = [tap EXCEPT ![t] = [pc |-> "enqueue", user |-> u, button |-> card.button]]
        BY <2>1 DEF Tap
      <3>2. [pc |-> "enqueue", user |-> u, button |-> card.button] \in TapStates
        BY DEF TapStates, TypeOK, BridgeTypeOK
      <3>3. QED
        BY <2>1, <3>1, <3>2
    <2>2. CASE tap' = [tap EXCEPT ![t] = IdleTap]
      BY <1>1, <2>2
    <2>3. QED
      BY <2>1, <2>2 DEF Enqueue, EnqueueFails, Answer
  <1>4. \A r \in Taps : tap'[r] = IF r = t THEN x ELSE tap[r]
    BY <1>1, <1>3
  <1>5. CASE Tap(t)
    <2>1. /\ status' = status /\ card.posted /\ card.button \in Download..(MaxJobs - 1)
      BY <1>5 DEF Tap, shared
    <2>2. TypeOK'
      BY <1>1, <1>2, <1>3, <2>1 DEF TypeOK, BridgeTypeOK, IntentTypeOK, NotificationTypeOK
    <2>3. WorkerOK' /\ NoticesOK' /\ OffersOK' /\ UnboundNeedsExcuse'
      BY <1>2, <2>1 DEF WorkerOK, NoticesOK, Acking, OffersOK, Offered, UnboundNeedsExcuse
    <2>4. CardOK'
      BY <1>2, <2>1 DEF CardOK
    <2>5. JobsOK'
      BY <1>2, <1>3, <1>4, <2>1 DEF JobsOK
    <2>6. QED
      BY <2>2, <2>3, <2>4, <2>5
  <1>6. CASE ~Tap(t)
    <2> DEFINE b == tap[t].button
    <2>1. tap[t].pc = "enqueue" /\ b \in Download..(MaxJobs - 1) /\ x.pc = "idle"
      BY <1>1, <1>3, <1>6 DEF JobsOK, Enqueue, EnqueueFails, TapStates
    <2>2. pick.pc \notin {"mint", "send"}
      BY <2>1 DEF CardOK
    <2>3. status' = status
          \/ status' = [status EXCEPT ![b + 1] = IF @ = "none" THEN "queued" ELSE @]
      BY <1>6 DEF Enqueue, EnqueueFails, Queue, shared
    <2>4. b + 1 \in Jobs /\ b + 1 \in Int
      BY <2>1, Ranges
    <2>5. \A j \in Jobs : \/ status'[j] = status[j]
                          \/ status[j] = "none" /\ status'[j] = "queued" /\ j = b + 1
      BY <2>3, <2>4 DEF TypeOK, BridgeTypeOK
    <2>6. status' \in [Jobs -> Statuses]
      BY <2>3, <2>4 DEF TypeOK, BridgeTypeOK, Statuses
    <2>7. TypeOK'
      BY <1>1, <1>2, <1>3, <2>5, <2>6 DEF TypeOK, BridgeTypeOK, IntentTypeOK, NotificationTypeOK
    <2>8. WorkerOK' /\ CardOK' /\ UnboundNeedsExcuse'
      BY <1>2, <2>2 DEF WorkerOK, CardOK, UnboundNeedsExcuse
    <2>9. NoticesOK'
      BY <1>2, <2>5 DEF NoticesOK, Acking, Noticed
    <2>10. OffersOK'
      BY <1>2, <2>5 DEF OffersOK, Offered, Acking
    <2>11. JobsOK'
      <3>1. ASSUME NEW i \in 1..b PROVE posts[i] > 0
        <4>1. b \in Jobs /\ posts[b] > 0
          BY <2>1, <3>1, Ranges DEF JobsOK
        <4>2. status[b] # "none"
          BY <4>1 DEF NoticesOK, Noticed
        <4>3. QED
          BY <2>1, <3>1, <4>1, <4>2, Ranges DEF JobsOK
      <3>2. (b + 1) - 1 = b
        BY <2>1, Ranges
      <3>3. \A j \in Jobs : status'[j] # "none" => \A i \in 1..(j - 1) : posts[i] > 0
        BY <2>5, <3>1, <3>2 DEF JobsOK
      <3>4. QED
        BY <1>2, <1>4, <2>1, <3>3 DEF JobsOK
    <2>12. QED
      BY <2>7, <2>8, <2>9, <2>10, <2>11
  <1>7. QED
    BY <1>5, <1>6

\* Vido and the delivery worker end a job.
LEMMA DeliverStep ==
  ASSUME CardInv, NEW j \in Jobs, Deliver(j), UNCHANGED <<intentVars, noticeVars, stops>>
  PROVE  CardInv'
  <1> USE DEF CardInv, intentVars, noticeVars
  <1>1. PICK s \in Terminal, asValidated \in SentByPaths, context \in BOOLEAN :
          /\ status' = [status EXCEPT ![j] = s]
          /\ misnamed' = IF s = "delivered" /\ ~asValidated THEN misnamed \cup {j} ELSE misnamed
          /\ retryable' = IF s = "delivery_unknown" /\ context THEN retryable \cup {j}
                          ELSE retryable
    BY DEF Deliver
  <1>2. status[j] = "queued" /\ UNCHANGED <<bound, card, stopping>>
    BY DEF Deliver
  <1>3. \A i \in Jobs : status'[i] = IF i = j THEN s ELSE status[i]
    BY <1>1 DEF TypeOK, BridgeTypeOK
  <1>4. misnamed' \subseteq Jobs
    BY <1>1 DEF TypeOK, BridgeTypeOK
  <1>5. status' \in [Jobs -> Statuses]
    BY <1>1 DEF TypeOK, BridgeTypeOK, Terminal, Statuses
  <1>6. retryable' \subseteq {i \in Jobs : status'[i] = "delivery_unknown"}
    BY <1>1, <1>2, <1>3 DEF TypeOK, BridgeTypeOK
  <1>7. TypeOK'
    BY <1>2, <1>4, <1>5, <1>6 DEF TypeOK, BridgeTypeOK, IntentTypeOK, NotificationTypeOK
  <1>8. WorkerOK' /\ UnboundNeedsExcuse'
    BY <1>2, <1>4 DEF WorkerOK, UnboundNeedsExcuse
  <1>9. CardOK'
    BY <1>2 DEF CardOK
  <1>10. JobsOK'
    BY <1>2, <1>3 DEF JobsOK
  <1>11. NoticesOK'
    BY <1>2, <1>3 DEF NoticesOK, Acking, Noticed
  <1>12. OffersOK'
    <2>1. notice[j] # "acked" /\ ~Acking(j)
      BY <1>2 DEF NoticesOK, Acking, Noticed
    <2>2. QED
      BY <1>2, <1>3, <2>1 DEF OffersOK, Offered, Acking
  <1>13. QED
    BY <1>7, <1>8, <1>9, <1>10, <1>11, <1>12

-----------------------------------------------------------------------------
(* The notification worker                                                 *)

Workers == [pc : {"down", "poll", "deliver", "ack"}, job : 0..MaxJobs, acks : 0..MaxAcks]
Notices == {"open", "leased", "acked"}

\* A step of the worker that posts nothing.
LEMMA NoticeFrame ==
  ASSUME CardInv,
         UNCHANGED <<intentVars, bound, card, status, retryable, misnamed, posts>>,
         stopping' \in BOOLEAN, stops' \in 0..MaxStops,
         worker' \in Workers, notice' \in [Jobs -> Notices],
         again \subseteq again', again' \subseteq Jobs,
         WorkerOK', NoticesOK',
         \A j \in Jobs : notice'[j] = "acked" \/ Acking(j)' => notice[j] = "acked" \/ Acking(j)
  PROVE  CardInv'
  <1> USE DEF CardInv, intentVars
  <1>1. TypeOK'
    BY DEF TypeOK, BridgeTypeOK, IntentTypeOK, NotificationTypeOK, Workers, Notices
  <1>2. CardOK' /\ JobsOK' /\ UnboundNeedsExcuse'
    BY DEF CardOK, JobsOK, UnboundNeedsExcuse
  <1>3. OffersOK'
    BY DEF OffersOK, Offered
  <1>4. QED
    BY <1>1, <1>2, <1>3

LEMMA WorkerStates ==
  /\ Idle \in Workers /\ Idle.pc = "poll" /\ Idle.job = 0 /\ Idle.acks = 0
  /\ Down \in Workers /\ Down.pc = "down" /\ Down.job = 0 /\ Down.acks = 0
  /\ 0 < MaxAcks
  BY DEF Idle, Down, Workers, MaxAcks

LEMMA CardTypes ==
  ASSUME CardInv
  PROVE  /\ worker \in Workers /\ notice \in [Jobs -> Notices] /\ again \subseteq Jobs
         /\ status \in [Jobs -> Statuses] /\ posts \in [Jobs -> 0..MaxPosts]
         /\ stopping \in BOOLEAN /\ stops \in 0..MaxStops
         /\ card \in [posted : BOOLEAN, button : Buttons] /\ excuses \subseteq Excuses
  BY DEF CardInv, TypeOK, BridgeTypeOK, IntentTypeOK, NotificationTypeOK, Workers, Notices

\* The worker, or someone unknown, claims a notice.
LEMMA ClaimStep ==
  ASSUME CardInv, NEW j \in Jobs, Claim(j) \/ ClaimReplyLost(j), UNCHANGED <<intentVars, stops>>
  PROVE  CardInv'
  <1> DEFINE w == [pc |-> "deliver", job |-> j, acks |-> 0]
  <1>1. /\ UNCHANGED <<bound, card, status, retryable, misnamed, stopping, posts, again>>
        /\ worker.pc = "poll" /\ status[j] \in Noticed /\ notice[j] = "open"
        /\ notice' = [notice EXCEPT ![j] = "leased"]
        /\ worker' \in {w, worker}
    BY DEF Claim, ClaimReplyLost, shared
  <1>2. w \in Workers
    BY DEF Workers, Jobs, MaxAcks
  <1>3. /\ notice' \in [Jobs -> Notices]
        /\ \A i \in Jobs : notice'[i] = IF i = j THEN "leased" ELSE notice[i]
    BY <1>1, CardTypes DEF Notices
  <1>4. WorkerOK'
    BY <1>1, WorkerStates DEF CardInv, WorkerOK
  <1>5. \A i \in Jobs : ~Acking(i) /\ ~Acking(i)'
    BY <1>1 DEF Acking
  <1>6. NoticesOK'
    BY <1>1, <1>3, <1>5 DEF CardInv, NoticesOK
  <1>7. \A i \in Jobs : notice'[i] = "acked" \/ Acking(i)' => notice[i] = "acked" \/ Acking(i)
    BY <1>3, <1>5
  <1>8. QED
    BY <1>1, <1>2, <1>3, <1>4, <1>6, <1>7, CardTypes, NoticeFrame

LEMMA ExpireStep ==
  ASSUME CardInv, NEW j \in Jobs, ExpireLease(j), UNCHANGED <<intentVars, stops>>
  PROVE  CardInv'
  <1>1. /\ UNCHANGED <<bound, card, status, retryable, misnamed, stopping, posts, worker>>
        /\ notice[j] = "leased" /\ notice' = [notice EXCEPT ![j] = "open"]
        /\ again' = IF worker.job = j THEN again \cup {j} ELSE again
    BY DEF ExpireLease, shared
  <1>2. /\ notice' \in [Jobs -> Notices]
        /\ \A i \in Jobs : notice'[i] = IF i = j THEN "open" ELSE notice[i]
    BY <1>1, CardTypes DEF Notices
  <1>3. WorkerOK' /\ \A i \in Jobs : Acking(i)' = Acking(i)
    BY <1>1 DEF CardInv, WorkerOK, Acking
  <1>4. again \subseteq again' /\ again' \subseteq Jobs
    BY <1>1, CardTypes
  <1>5. NoticesOK'
    BY <1>1, <1>2, <1>4 DEF CardInv, NoticesOK, Acking
  <1>6. \A i \in Jobs : notice'[i] = "acked" \/ Acking(i)' => notice[i] = "acked" \/ Acking(i)
    BY <1>2, <1>3
  <1>7. QED
    BY <1>1, <1>2, <1>3, <1>4, <1>5, <1>6, CardTypes, NoticeFrame

\* The worker lets go of what it has not posted.
LEMMA LetGoStep ==
  ASSUME CardInv, Return \/ DeliverFails, UNCHANGED <<intentVars, stops>>
  PROVE  CardInv'
  <1>1. /\ UNCHANGED <<bound, card, status, retryable, misnamed, stopping, posts, notice, again>>
        /\ worker.pc \in {"poll", "deliver"} /\ worker' \in {Idle, Down}
    BY DEF Return, DeliverFails, shared
  <1>2. WorkerOK'
    BY <1>1, WorkerStates DEF WorkerOK
  <1>3. \A i \in Jobs : ~Acking(i) /\ ~Acking(i)'
    BY <1>1, WorkerStates DEF Acking
  <1>4. NoticesOK'
    BY <1>1, <1>3, WorkerStates DEF CardInv, NoticesOK
  <1>5. QED
    BY <1>1, <1>2, <1>3, <1>4, WorkerStates, CardTypes, NoticeFrame

\* An acknowledgement reaches Core, or the worker, or neither.
LEMMA AckStep ==
  ASSUME CardInv, Ack \/ AckFails, UNCHANGED <<intentVars, stops>>
  PROVE  CardInv'
  <1> DEFINE j == worker.job
  <1>1. /\ UNCHANGED <<bound, card, status, retryable, misnamed, stopping, posts>>
        /\ worker.pc = "ack" /\ j \in Jobs
    BY DEF CardInv, WorkerOK, Ack, AckFails, shared
  <1>2. /\ notice' = notice \/ notice' = [notice EXCEPT ![j] = "acked"]
        /\ notice' = [notice EXCEPT ![j] = "acked"] \/ j \in again'
        /\ again' \in {again, again \cup {j}}
    BY DEF Ack, AckFails
  <1>3. /\ notice' \in [Jobs -> Notices]
        /\ \A i \in Jobs : notice'[i] = notice[i] \/ (i = j /\ notice'[i] = "acked")
        /\ notice'[j] = "acked" \/ j \in again'
    BY <1>1, <1>2, CardTypes DEF Notices
  <1>4. /\ worker' \in Workers /\ worker'.acks < MaxAcks
        /\ worker' = Idle \/ (worker'.pc = "ack" /\ worker'.job = j /\ j \in again')
    <2>1. CASE worker' = Idle
      BY <2>1, WorkerStates
    <2>2. CASE /\ worker' = [worker EXCEPT !.acks = @ + 1] /\ worker.acks + 1 # MaxAcks
               /\ again' = again \cup {j}
      BY <1>1, <2>2, CardTypes DEF CardInv, WorkerOK, Workers, MaxAcks
    <2>3. QED
      BY <2>1, <2>2 DEF Ack, AckFails
  <1>5. WorkerOK'
    BY <1>1, <1>4, WorkerStates DEF WorkerOK
  <1>6. again \subseteq again' /\ again' \subseteq Jobs
    BY <1>1, <1>2, CardTypes
  <1>7. \A i \in Jobs : (Acking(i) <=> i = j) /\ (Acking(i)' => i = j)
    BY <1>1, <1>4, WorkerStates DEF Acking
  <1>8. NoticesOK'
    BY <1>1, <1>3, <1>4, <1>6, <1>7, WorkerStates DEF CardInv, NoticesOK
  <1>9. \A i \in Jobs : notice'[i] = "acked" \/ Acking(i)' => notice[i] = "acked" \/ Acking(i)
    BY <1>3, <1>7
  <1>10. QED
    BY <1>1, <1>3, <1>4, <1>5, <1>6, <1>8, <1>9, CardTypes, NoticeFrame

\* A notice is posted.  Posted again, under a newer one, it takes the newer one's
\* button away; but then it is one that went wrong.
LEMMA PostStep ==
  ASSUME CardInv, DeliverNotice \/ DeliverReplyLost, UNCHANGED <<intentVars, stops>>
  PROVE  CardInv'
  <1> DEFINE j == worker.job
  <1> USE DEF CardInv
  <1>1. /\ UNCHANGED <<bound, status, retryable, misnamed, stopping, notice>>
        /\ worker.pc = "deliver" /\ Post(j) /\ j \in Jobs
    BY DEF DeliverNotice, DeliverReplyLost, WorkerOK
  <1>2. \/ worker' = [worker EXCEPT !.pc = "ack"] /\ again' = again
        \/ worker' = Idle /\ again' = again \cup {j}
    BY DEF DeliverNotice, DeliverReplyLost
  <1>3. /\ worker' \in Workers
        /\ \/ worker'.pc = "ack" /\ worker'.job = j /\ worker'.acks = worker.acks
           \/ worker' = Idle /\ j \in again'
    BY <1>2, CardTypes, WorkerStates DEF Workers
  <1>4. WorkerOK'
    BY <1>1, <1>3, WorkerStates DEF WorkerOK
  <1>5. again \subseteq again' /\ again' \subseteq Jobs
    BY <1>1, <1>2, CardTypes
  <1>6. /\ posts' \in [Jobs -> 0..MaxPosts]
        /\ \A i \in Jobs : i # j => posts'[i] = posts[i]
        /\ posts'[j] > 0 /\ (posts'[j] > 1 => posts[j] > 0)
    <2>1. posts' = [posts EXCEPT ![j] = IF @ < MaxPosts THEN @ + 1 ELSE @]
      BY <1>1 DEF Post
    <2>2. posts[j] \in 0..MaxPosts
      BY <1>1, CardTypes
    <2>3. QED
      BY <1>1, <2>1, <2>2, CardTypes
  <1>7. /\ card' \in [posted : BOOLEAN, button : Buttons]
        /\ \/ card' = card /\ status[j] # "delivery_unknown"
           \/ card'.button = j /\ card'.posted = card.posted
    BY <1>1, CardTypes, Ranges DEF Post
  <1>8. status[j] \in Noticed /\ (posts[j] > 0 => j \in again)
    BY <1>1 DEF NoticesOK, Acking
  <1>9. TypeOK'
    BY <1>1, <1>3, <1>5, <1>6, <1>7
    DEF TypeOK, BridgeTypeOK, IntentTypeOK, NotificationTypeOK, Workers, intentVars
  <1>10. CardOK'
    BY <1>1, <1>8 DEF CardOK, Noticed, intentVars
  <1>11. JobsOK'
    <2>1. \A i \in Jobs : posts[i] > 0 => posts'[i] > 0
      BY <1>6
    <2>2. card'.button \in Jobs => posts'[card'.button] > 0
      BY <1>6, <1>7, <2>1 DEF JobsOK
    <2>3. \A i \in Jobs : status[i] # "none" => \A l \in 1..(i - 1) : posts'[l] > 0
      BY <2>1, Ranges DEF JobsOK
    <2>4. \A t \in Taps : tap[t].pc = "enqueue" =>
            /\ tap[t].button \in Download..(MaxJobs - 1)
            /\ tap[t].button \in Jobs => posts'[tap[t].button] > 0
      BY <2>1 DEF JobsOK
    <2>5. QED
      BY <1>1, <2>2, <2>3, <2>4 DEF JobsOK, intentVars
  <1>12. NoticesOK'
    <2>1. \A i \in Jobs : ~Acking(i) /\ (Acking(i)' => i = j)
      BY <1>1, <1>3, WorkerStates DEF Acking
    <2>2. worker'.pc # "deliver" /\ (Acking(j)' \/ j \in again')
      BY <1>3, WorkerStates DEF Acking
    <2>3. ASSUME NEW i \in Jobs, i # j
          PROVE  /\ notice[i] # "open" \/ posts[i] > 0 => status[i] \in Noticed
                 /\ notice[i] = "acked" => posts[i] > 0
                 /\ posts[i] > 0 /\ notice[i] # "acked" => i \in again
                 /\ posts[i] > 1 => i \in again
      BY <2>1, <2>3 DEF NoticesOK
    <2>4. QED
      BY <1>1, <1>3, <1>5, <1>6, <1>8, <2>1, <2>2, <2>3, WorkerStates DEF NoticesOK, Acking
  <1>13. OffersOK'
    <2> SUFFICES ASSUME NEW i \in Jobs, status[i] = "delivery_unknown",
                        notice[i] = "acked" \/ Acking(i)'
                 PROVE  Offered(i)'
      BY <1>1 DEF OffersOK, Acking
    <2>1. CASE i = j
      <3>1. card'.button = i
        BY <1>7, <2>1
      <3>2. card'.button >= i
        BY <3>1, Ranges
      <3>3. QED
        BY <3>2 DEF Offered
    <2>2. CASE i # j
      <3>1. notice[i] = "acked" /\ Offered(i)
        BY <1>3, <2>2, WorkerStates DEF OffersOK, Acking
      <3>2. CASE card' = card
        BY <1>5, <3>1, <3>2 DEF Offered, intentVars
      <3>3. CASE card'.button = j /\ i < j
        <4>1. card'.button >= i
          BY <1>1, <3>3, Ranges
        <4>2. QED
          BY <4>1 DEF Offered
      <3>4. CASE i > j
        <4>1. posts[j] > 0
          BY <1>1, <3>4, Ranges DEF JobsOK
        <4>2. j \in again'
          BY <1>5, <1>8, <4>1
        <4>3. QED
          BY <3>4, <4>2 DEF Offered
      <3>5. QED
        BY <1>1, <1>7, <2>2, <3>2, <3>3, <3>4, Ranges
    <2>3. QED
      BY <2>1, <2>2
  <1>14. UnboundNeedsExcuse'
    BY <1>1, <1>7, Ranges DEF UnboundNeedsExcuse, intentVars
  <1>15. QED
    BY <1>4, <1>9, <1>10, <1>11, <1>12, <1>13, <1>14

-----------------------------------------------------------------------------
(* The process                                                             *)

LEMMA ProcessStep ==
  ASSUME CardInv, Cancel \/ Start
  PROVE  CardInv'
  <1>1. /\ UNCHANGED <<intentVars, bound, card, status, retryable, misnamed, posts, notice, again>>
        /\ stopping' \in BOOLEAN /\ stops' \in 0..MaxStops
    <2>1. CASE Cancel
      BY <2>1, CardTypes DEF Cancel, Stop, noticeVars
    <2>2. CASE Start
      BY <2>2, CardTypes DEF Start, NotificationStart, shared
    <2>3. QED
      BY <2>1, <2>2
  <1>2. worker' = worker \/ (worker.pc = "down" /\ worker' = Idle)
    BY DEF Cancel, Start, NotificationStart, noticeVars
  <1>3. worker' \in Workers /\ WorkerOK'
    BY <1>2, CardTypes, WorkerStates DEF CardInv, WorkerOK
  <1>4. \A i \in Jobs : Acking(i)' = Acking(i)
    BY <1>2, WorkerStates DEF Acking
  <1>5. NoticesOK'
    BY <1>1, <1>2, <1>4, WorkerStates DEF CardInv, NoticesOK
  <1>6. QED
    BY <1>1, <1>3, <1>4, <1>5, CardTypes, NoticeFrame

\* The process dies with its handlers and whatever its worker had in hand.
LEMMA ExitStep ==
  ASSUME CardInv, Exit
  PROVE  CardInv'
  <1> USE DEF CardInv
  <1>1. /\ UNCHANGED <<bound, card, status, retryable, misnamed, notice, posts>>
        /\ stopping' = FALSE /\ stops' \in 0..MaxStops
        /\ worker' = Down /\ tap' = [t \in Taps |-> IdleTap]
        /\ pick' = [pc |-> "done", minted |-> pick.minted /\ "done" # "done"]
        /\ again' = IF worker.pc = "down" \/ worker.job = 0 THEN again
                    ELSE again \cup {worker.job}
        /\ excuses' = IF pick.pc \in {"bind", "strip"} THEN excuses \cup {"crash"} ELSE excuses
    BY CardTypes DEF Exit, IntentCrash, NotificationCrash, PickAt
  <1>2. again \subseteq again' /\ again' \subseteq Jobs
    BY <1>1, CardTypes DEF Workers, Jobs
  <1>3. excuses \subseteq excuses' /\ excuses' \subseteq Excuses
    BY <1>1, CardTypes DEF Excuses
  <1>4. tap' \in [Taps -> TapStates] /\ \A t \in Taps : tap'[t].pc = "idle"
    BY <1>1, Ranges DEF IdleTap, TapStates
  <1>5. TypeOK'
    BY <1>1, <1>2, <1>3, <1>4, WorkerStates
    DEF TypeOK, BridgeTypeOK, IntentTypeOK, NotificationTypeOK, Workers, PickPCs
  <1>6. WorkerOK' /\ CardOK' /\ JobsOK'
    BY <1>1, <1>4, WorkerStates DEF WorkerOK, CardOK, JobsOK
  <1>7. NoticesOK'
    <2>1. \A i \in Jobs : ~Acking(i)' /\ (Acking(i) => i \in again')
      BY <1>1, WorkerStates, Ranges DEF Acking
    <2>2. QED
      BY <1>1, <1>2, <2>1, WorkerStates DEF NoticesOK
  <1>8. OffersOK'
    BY <1>1, <1>2, <1>3, WorkerStates DEF OffersOK, Offered, Acking
  <1>9. UnboundNeedsExcuse'
    <2>1. CASE pick.pc \in {"mint", "send"}
      BY <1>1, <2>1 DEF CardOK, UnboundNeedsExcuse
    <2>2. CASE pick.pc \in {"bind", "strip"}
      <3>1. "crash" \in excuses' \ {"bind failed"}
        BY <1>1, <2>2
      <3>2. QED
        BY <3>1 DEF UnboundNeedsExcuse
    <2>3. CASE pick.pc = "done"
      BY <1>1, <2>3 DEF UnboundNeedsExcuse
    <2>4. QED
      BY <2>1, <2>2, <2>3 DEF TypeOK, IntentTypeOK, PickPCs
  <1>10. QED
    BY <1>5, <1>6, <1>7, <1>8, <1>9

LEMMA CardStep == CardInv /\ [Next]_vars => CardInv'
  <1> SUFFICES ASSUME CardInv, [Next]_vars PROVE CardInv'
    OBVIOUS
  <1>1. CASE Environment
    BY <1>1, DeliverStep DEF Environment
  <1>2. CASE Handlers
    BY <1>2, PickStep, TapStep DEF Handlers, IntentNext
  <1>3. CASE NotificationWorker
    BY <1>3, ClaimStep, ExpireStep, LetGoStep, PostStep, AckStep
    DEF NotificationWorker, NotificationNext
  <1>4. CASE Cancel \/ Start \/ Exit
    BY <1>4, ProcessStep, ExitStep
  <1>5. CASE UNCHANGED vars
    BY <1>5 DEF vars, shared, intentVars, noticeVars, CardInv, TypeOK, BridgeTypeOK,
      IntentTypeOK, NotificationTypeOK, WorkerOK, CardOK, JobsOK, NoticesOK, Acking, OffersOK,
      Offered, UnboundNeedsExcuse
  <1>6. QED
    BY <1>1, <1>2, <1>3, <1>4, <1>5 DEF Next

-----------------------------------------------------------------------------
(* The properties                                                          *)

\* The inductive invariant: the card, the jobs and their notices agree about
\* what has happened so far.
THEOREM CardInvariant == Spec => []CardInv
  BY InitCard, CardStep, PTL DEF Spec

\* Cards, jobs, notices and handlers keep to their types.
THEOREM DownloadTypes == Spec => []TypeOK
  <1>1. CardInv => TypeOK
    BY DEF CardInv
  <1>2. QED
    BY <1>1, CardInvariant, PTL

\* A Download button outlives its pick's handler on a card its token is not bound
\* to only where the handler could not help it.
THEOREM UnboundIsExcused == Spec => []UnboundNeedsExcuse
  <1>1. CardInv => UnboundNeedsExcuse
    BY DEF CardInv
  <1>2. QED
    BY <1>1, CardInvariant, PTL

\* A settled notice was posted, and none is posted twice but for a post or an
\* acknowledgement that went wrong.
THEOREM NoticesAreKept == Spec => []NoticesKept
  <1>1. CardInv => NoticesKept
    BY DEF CardInv, NoticesOK, NoticesKept
  <1>2. QED
    BY <1>1, CardInvariant, PTL

\* The retry of the newest settled job of unknown delivery stays on the card.
THEOREM RetryStaysOffered == Spec => []RetryOffered
  <1>1. CardInv => RetryOffered
    BY DEF CardInv, OffersOK, Offered, RetryOffered
  <1>2. QED
    BY <1>1, CardInvariant, PTL

\* Of every accepted plan, whatever its operations: each is a message
\* sendOperation knows how to send, with all its files in their order; they are
\* asked for by the paths that were validated exactly when every local URI is
\* written in the canonical way; a file_id Telegram calls bad is one the worker
\* can name; and captions and buttons go out but for those of a group.
THEOREM AcceptedIsSent ==
  ASSUME NEW plan, NEW id, ValidatePlan(plan, id),
         \A op \in ToSet(plan.operations) : op.media \in Seq(ToSet(op.media))
  PROVE  \A op \in ToSet(plan.operations) : SentOf(op)
  <1>1. \A op \in ToSet(plan.operations) : ValidateOperation(op)
    BY DEF ValidatePlan, ToSet
  <1>2. QED
    BY <1>1, ValidIsSent
=============================================================================
