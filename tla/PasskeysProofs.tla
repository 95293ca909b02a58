----------------------------- MODULE PasskeysProofs -----------------------------
(***************************************************************************)
(* What a browser was told of a passkey is what the hub has, and a hub     *)
(* that registered a passkey never loses its last one: for any number of   *)
(* browsers, passkeys and ceremonies, with saves that fail and crashes     *)
(* between any two steps.                                                  *)
(***************************************************************************)
EXTENDS Passkeys, FiniteSetTheorems, TLAPS

(* A passkey is in the file, and in memory while the hub runs.               *)
Kept == Stored(file) # {} /\ (up => HasCredentials)

(* Requests are handled only by a hub that runs; whoever is about to be      *)
(* answered leaves a store with a passkey behind, and an answer that names   *)
(* one says what memory and file hold.                                       *)
AnswersAgree ==
    \A b \in Browsers :
        /\ handler[b] # Idle => up
        /\ handler[b].at = "answer" =>
             /\ Kept
             /\ handler[b].key # None =>
                  LET k == handler[b].key
                  IN  file[k] = handler[b].value /\ memory[k] = handler[b].value

(* A ceremony that begins is a registration or a login.                      *)
AuthorizedKind ==
    \A b \in Browsers : handler[b].at = "authorized" => handler[b].kind \in Kinds

PasskeyInv ==
    /\ PasskeyTypeOK
    /\ AuthorizedKind
    /\ IsFiniteSet(ceremonies)
    /\ registered => Kept
    /\ AnswersAgree
    /\ PasskeyAnswersSurvive

-----------------------------------------------------------------------------
(* The next states of a handler.                                             *)
LEMMA HandlerTypes ==
    /\ Idle \in Handlers /\ Idle.at = "idle" /\ Idle.key = None
    /\ \A k \in Credentials, v \in Labels \cup {None} :
         /\ Answering(k, v) \in Handlers
         /\ Answering(k, v).at = "answer"
         /\ Answering(k, v).key = k /\ Answering(k, v).value = v
  BY DEF Idle, Handlers, Answering

(* After Touches only b's handler is in another state, and no other answer   *)
(* names k.                                                                  *)
LEMMA TouchesFrame ==
    ASSUME PasskeyTypeOK, NEW b \in Browsers, NEW k \in Credentials,
           NEW next \in Handlers, Touches(b, k, next)
    PROVE  /\ handler' \in [Browsers -> Handlers] /\ handler'[b] = next
           /\ \A o \in Browsers \ {b} :
                /\ handler[o] = Idle => handler'[o] = Idle
                /\ handler'[o].at = handler[o].at /\ handler'[o].value = handler[o].value
                /\ handler'[o].kind = handler[o].kind
                /\ handler'[o].key = handler[o].key \/ handler'[o].key = None
                /\ handler'[o].at = "answer" /\ handler'[o].key = k => k = None
           /\ promised' \in [Credentials -> Labels \cup {None, Unknown}]
           /\ promised'[k] = Unknown
           /\ \A j \in Credentials \ {k} : promised'[j] = promised[j]
<1> USE DEF PasskeyTypeOK, Touches, Handlers, Idle
<1>1. handler'[b] = next
  OBVIOUS
<1>2. ASSUME NEW o \in Browsers \ {b}
      PROVE  /\ handler'[o] \in Handlers
             /\ handler[o] = Idle => handler'[o] = Idle
             /\ handler'[o].at = handler[o].at /\ handler'[o].value = handler[o].value
             /\ handler'[o].kind = handler[o].kind
             /\ handler'[o].key = handler[o].key \/ handler'[o].key = None
             /\ handler'[o].at = "answer" /\ handler'[o].key = k => k = None
  <2>1. CASE handler[o].at = "answer" /\ handler[o].key = k
    <3>1. handler'[o] = [handler[o] EXCEPT !.key = None]
      BY <1>2, <2>1
    <3>2. QED
      BY <1>2, <2>1, <3>1
  <2>2. CASE ~ (handler[o].at = "answer" /\ handler[o].key = k)
    <3>1. handler'[o] = handler[o]
      BY <1>2, <2>2
    <3>2. QED
      BY <1>2, <2>2, <3>1
  <2>3. QED
    BY <2>1, <2>2
<1>3. handler' \in [Browsers -> Handlers]
  BY <1>1, <1>2
<1>4. /\ promised' \in [Credentials -> Labels \cup {None, Unknown}]
      /\ promised'[k] = Unknown
      /\ \A j \in Credentials \ {k} : promised'[j] = promised[j]
  OBVIOUS
<1>5. QED
  BY <1>1, <1>2, <1>3, <1>4

-----------------------------------------------------------------------------
(* The initial state satisfies the invariant.                                *)
LEMMA PasskeyInitInv == PasskeyInit => PasskeyInv
<1> SUFFICES ASSUME PasskeyInit PROVE PasskeyInv
  OBVIOUS
<1> USE PasskeysAssumption, HandlerTypes DEF PasskeyInit
<1>1. IsFiniteSet(ceremonies) /\ Cardinality(ceremonies) = 0
  BY FS_EmptySet
<1>2. PasskeyTypeOK
  <2>1. memory \in Records /\ file \in Records
        /\ promised \in [Credentials -> Labels \cup {None, Unknown}]
    BY DEF Records
  <2>2. up \in BOOLEAN /\ token \in BOOLEAN /\ rotating \in BOOLEAN /\ registered \in BOOLEAN
    OBVIOUS
  <2>3. cookie \in [Browsers -> 0 .. MaxIssued] /\ issued \in 0 .. MaxIssued
        /\ passkeyChanges \in 0 .. MaxChanges /\ 0 <= MaxCeremonies
    OBVIOUS
  <2>4. QED
    BY <1>1, <2>1, <2>2, <2>3 DEF PasskeyTypeOK
<1>3. AnswersAgree
  BY DEF AnswersAgree
<1>4. PasskeyAnswersSurvive
  BY DEF PasskeyAnswersSurvive
<1>5. AuthorizedKind
  BY DEF AuthorizedKind
<1>6. QED
  BY <1>1, <1>2, <1>3, <1>4, <1>5 DEF PasskeyInv

(* A passkey that is stored has a label.                                     *)
LEMMA StoredLabel ==
    ASSUME PasskeyTypeOK, NEW k \in Stored(memory) PROVE memory[k] \in Labels
  BY DEF PasskeyTypeOK, Records, Stored

(* A deletion leaves a passkey: there was more than one.                     *)
LEMMA DeleteLeavesOne ==
    ASSUME PasskeyTypeOK, NEW k \in Credentials, Cardinality(Stored(memory)) > 1
    PROVE  \E j \in Stored(memory) : j # k
<1>1. SUFFICES ASSUME Stored(memory) \subseteq {k} PROVE FALSE
  OBVIOUS
<1>2. Cardinality(Stored(memory)) <= 1
  <2>1. CASE Stored(memory) = {}
    BY <2>1, FS_EmptySet
  <2>2. CASE Stored(memory) = {k}
    BY <2>2, FS_Singleton
  <2>3. QED
    BY <1>1, <2>1, <2>2
<1>3. IsFiniteSet(Stored(memory)) /\ Cardinality(Stored(memory)) \in Nat
  BY PasskeysAssumption, FS_Subset, FS_CardinalityType DEF Stored
<1>4. QED
  BY <1>2, <1>3

(* Whatever is deleted, fails or crashes, a kept passkey stays.              *)
LEMMA KeptStep ==
    ASSUME PasskeyTypeOK, Kept, PasskeyNext PROVE Kept'
<1> USE PasskeysAssumption DEF Kept, HasCredentials, Stored, PasskeyTypeOK, Records, Saves
<1>1. ASSUME NEW b \in Browsers, NEW k \in Credentials, Delete(b, k) PROVE Kept'
  <2>1. CASE memory' = [memory EXCEPT ![k] = None] /\ file' = memory'
    <3>1. PICK j \in Stored(memory) : j # k
      BY <1>1, DeleteLeavesOne DEF Delete
    <3>2. QED
      BY <2>1, <3>1
  <2>2. CASE UNCHANGED storeVars
    BY <1>1, <2>2 DEF Delete, storeVars
  <2>3. QED
    BY <1>1, <2>1, <2>2 DEF Delete
<1>2. ASSUME NEW b \in Browsers, NEW k \in Credentials, NEW label \in Labels,
             Rename(b, k, label) \/ Add(b, k, label)
      PROVE  Kept'
  BY <1>2 DEF Rename, Add, storeVars
<1>3. ASSUME NEW b \in Browsers, Update(b) PROVE Kept'
  BY <1>3 DEF Update
<1>4. CASE PasskeyCrash
  BY <1>4 DEF PasskeyCrash
<1>5. CASE PasskeyStart
  BY <1>5 DEF PasskeyStart
<1>6. CASE UNCHANGED <<up, memory, file>>
  BY <1>6
<1>7. QED
  BY <1>1, <1>2, <1>3, <1>4, <1>5, <1>6
     DEF PasskeyNext, BrowserNext, BeginRegistration, BeginLogin, putCeremony, takeCeremony,
         Verify, VerificationFails, Answer, SessionEnds, CeremonyExpires, TokenExpires,
         RotateChecks, RotateSets, storeVars

(* Only a ceremony that begins adds to the ceremonies, below the capacity.   *)
LEMMA CeremoniesStep ==
    ASSUME PasskeyTypeOK, AuthorizedKind, IsFiniteSet(ceremonies), PasskeyNext
    PROVE  /\ IsFiniteSet(ceremonies')
           /\ Cardinality(ceremonies') <= MaxCeremonies
           /\ ceremonies' \subseteq [id : 1 .. MaxIssued, kind : Kinds]
<1> USE PasskeysAssumption DEF PasskeyTypeOK
<1>1. ASSUME NEW b \in Browsers, putCeremony(b), ceremonies' # ceremonies
      PROVE  /\ IsFiniteSet(ceremonies')
             /\ Cardinality(ceremonies') <= MaxCeremonies
             /\ ceremonies' \subseteq [id : 1 .. MaxIssued, kind : Kinds]
  <2> DEFINE c == [id |-> issued + 1, kind |-> handler[b].kind]
  <2>1. ceremonies' = ceremonies \cup {c} /\ issued < MaxIssued
        /\ ~ (Cardinality(ceremonies) >= MaxCeremonies)
    BY <1>1 DEF putCeremony
  <2>2. c \in [id : 1 .. MaxIssued, kind : Kinds]
    BY <1>1, <2>1 DEF putCeremony, AuthorizedKind
  <2>3. Cardinality(ceremonies) \in Nat
    BY FS_CardinalityType
  <2>4. IsFiniteSet(ceremonies')
        /\ Cardinality(ceremonies') \in {Cardinality(ceremonies), Cardinality(ceremonies) + 1}
    BY <2>1, FS_AddElement
  <2>5. QED
    BY <2>1, <2>2, <2>3, <2>4
<1>2. ASSUME NEW c \in ceremonies, ceremonies' = ceremonies \ {c}
      PROVE  /\ IsFiniteSet(ceremonies')
             /\ Cardinality(ceremonies') <= MaxCeremonies
             /\ ceremonies' \subseteq [id : 1 .. MaxIssued, kind : Kinds]
  <2>1. Cardinality(ceremonies) \in Nat
    BY FS_CardinalityType
  <2>2. IsFiniteSet(ceremonies') /\ Cardinality(ceremonies') = Cardinality(ceremonies) - 1
    BY <1>2, FS_RemoveElement
  <2>3. QED
    BY <1>2, <2>1, <2>2
<1>3. CASE ceremonies' = {}
  <2>1. IsFiniteSet(ceremonies') /\ Cardinality(ceremonies') = 0
    BY <1>3, FS_EmptySet
  <2>2. QED
    BY <1>3, <2>1
<1>4. CASE ceremonies' = ceremonies
  BY <1>4
<1>5. \/ ceremonies' = ceremonies \/ ceremonies' = {}
      \/ \E c \in ceremonies : ceremonies' = ceremonies \ {c}
      \/ \E b \in Browsers : putCeremony(b)
  <2> HIDE PasskeysAssumption DEF PasskeyTypeOK
  <2>1. CASE \E b \in Browsers : BrowserNext(b)
    <3>1. ASSUME NEW b \in Browsers, NEW kind \in Kinds, takeCeremony(b, kind)
          PROVE  \E c \in ceremonies : ceremonies' = ceremonies \ {c}
      BY <3>1 DEF takeCeremony
    <3>2. ASSUME NEW b \in Browsers, NEW k \in Credentials, NEW label \in Labels,
                 Delete(b, k) \/ Rename(b, k, label) \/ Add(b, k, label)
          PROVE  ceremonies' = ceremonies
      BY <3>2 DEF Delete, Rename, Add, managerVars
    <3>3. ASSUME NEW b \in Browsers, NEW k \in Credentials, Delete(b, k)
          PROVE  ceremonies' = ceremonies
      BY <3>3 DEF Delete, managerVars
    <3>4. ASSUME NEW b \in Browsers,
                 \/ BeginRegistration(b) \/ BeginLogin(b) \/ Verify(b)
                 \/ VerificationFails(b) \/ Update(b) \/ Answer(b) \/ SessionEnds(b)
          PROVE  ceremonies' = ceremonies
      BY <3>4 DEF BeginRegistration, BeginLogin, Verify, VerificationFails, Update, Answer,
                  SessionEnds, managerVars
    <3>5. QED
      BY <2>1, <3>1, <3>2, <3>3, <3>4 DEF BrowserNext
  <2>2. CASE ~ \E b \in Browsers : BrowserNext(b)
    BY <2>2 DEF PasskeyNext, CeremonyExpires, TokenExpires, RotateChecks, RotateSets,
                PasskeyCrash, PasskeyStart
  <2>3. QED
    BY <2>1, <2>2
<1>6. QED
  BY <1>1, <1>2, <1>3, <1>4, <1>5

(* The type of the other variables, and the kind of what begins.             *)
LEMMA TypeStep ==
    ASSUME PasskeyTypeOK, AuthorizedKind, PasskeyNext
    PROVE  /\ up' \in BOOLEAN /\ token' \in BOOLEAN /\ rotating' \in BOOLEAN
           /\ registered' \in BOOLEAN
           /\ memory' \in Records /\ file' \in Records
           /\ promised' \in [Credentials -> Labels \cup {None, Unknown}]
           /\ sessions' \subseteq Browsers
           /\ cookie' \in [Browsers -> 0 .. MaxIssued]
           /\ handler' \in [Browsers -> Handlers]
           /\ issued' \in 0 .. MaxIssued /\ passkeyChanges' \in 0 .. MaxChanges
           /\ AuthorizedKind'
<1> DEFINE Goal ==
      /\ up' \in BOOLEAN /\ token' \in BOOLEAN /\ rotating' \in BOOLEAN
      /\ registered' \in BOOLEAN
      /\ memory' \in Records /\ file' \in Records
      /\ promised' \in [Credentials -> Labels \cup {None, Unknown}]
      /\ sessions' \subseteq Browsers
      /\ cookie' \in [Browsers -> 0 .. MaxIssued]
      /\ handler' \in [Browsers -> Handlers]
      /\ issued' \in 0 .. MaxIssued /\ passkeyChanges' \in 0 .. MaxChanges
      /\ AuthorizedKind'
<1> USE PasskeysAssumption DEF PasskeyTypeOK
<1>1. ASSUME NEW b \in Browsers, NEW k \in Credentials, Delete(b, k) PROVE Goal
  <2>1. CASE memory' = [memory EXCEPT ![k] = None] /\ Saves(memory')
             /\ Touches(b, k, Answering(k, None))
    <3>1. memory' \in Records /\ file' \in Records
      BY <2>1 DEF Saves, Records
    <3>2. Answering(k, None) \in Handlers /\ Answering(k, None).at = "answer"
      BY HandlerTypes
    <3>3. /\ handler' \in [Browsers -> Handlers] /\ AuthorizedKind'
          /\ promised' \in [Credentials -> Labels \cup {None, Unknown}]
      BY <2>1, <3>2, TouchesFrame DEF AuthorizedKind
    <3>4. QED
      BY <1>1, <2>1, <3>1, <3>3 DEF Delete, Counts, managerVars
  <2>2. CASE UNCHANGED <<storeVars, handler>>
    BY <1>1, <2>2 DEF Delete, Counts, storeVars, managerVars, AuthorizedKind
  <2>3. QED
    BY <1>1, <2>1, <2>2 DEF Delete
<1>2. ASSUME NEW b \in Browsers, NEW k \in Credentials, NEW label \in Labels,
             Rename(b, k, label)
      PROVE  Goal
  <2>1. CASE memory' = [memory EXCEPT ![k] = label] /\ Saves(memory')
             /\ Touches(b, k, Answering(k, label))
    <3>1. memory' \in Records /\ file' \in Records
      BY <2>1 DEF Saves, Records
    <3>2. Answering(k, label) \in Handlers /\ Answering(k, label).at = "answer"
      BY HandlerTypes
    <3>3. /\ handler' \in [Browsers -> Handlers] /\ AuthorizedKind'
          /\ promised' \in [Credentials -> Labels \cup {None, Unknown}]
      BY <2>1, <3>2, TouchesFrame DEF AuthorizedKind
    <3>4. QED
      BY <1>2, <2>1, <3>1, <3>3 DEF Rename, Counts, managerVars
  <2>2. CASE UNCHANGED <<storeVars, handler>>
    BY <1>2, <2>2 DEF Rename, Counts, storeVars, managerVars, AuthorizedKind
  <2>3. QED
    BY <1>2, <2>1, <2>2 DEF Rename
<1>3. ASSUME NEW b \in Browsers, NEW k \in Credentials, NEW label \in Labels,
             Add(b, k, label)
      PROVE  Goal
  <2> DEFINE next == [handler[b] EXCEPT !.at = "answer", !.key = k, !.value = label]
  <2>1. next \in Handlers /\ next.at = "answer"
    BY DEF Handlers
  <2>2. CASE Fails(b) /\ UNCHANGED <<storeVars, passkeyChanges>>
    BY <1>3, <2>2, HandlerTypes DEF Add, Fails, storeVars, managerVars, AuthorizedKind
  <2>3. CASE memory' = [memory EXCEPT ![k] = label] /\ Saves(memory')
             /\ Touches(b, k, next) /\ UNCHANGED passkeyChanges
    <3>1. memory' \in Records /\ file' \in Records
      BY <2>3 DEF Saves, Records
    <3>2. /\ handler' \in [Browsers -> Handlers] /\ AuthorizedKind'
          /\ promised' \in [Credentials -> Labels \cup {None, Unknown}]
      <4> HIDE DEF next
      <4>1. QED
        BY <2>1, <2>3, TouchesFrame DEF AuthorizedKind
    <3>3. QED
      BY <1>3, <2>3, <3>1, <3>2 DEF Add, managerVars
  <2>4. CASE Counts /\ memory' = [memory EXCEPT ![k] = label] /\ Touches(b, k, Idle)
             /\ UNCHANGED file
    <3>1. memory' \in Records /\ file' \in Records
      BY <2>4 DEF Records
    <3>2. /\ handler' \in [Browsers -> Handlers] /\ AuthorizedKind'
          /\ promised' \in [Credentials -> Labels \cup {None, Unknown}]
      BY <2>4, HandlerTypes, TouchesFrame DEF AuthorizedKind
    <3>3. QED
      BY <1>3, <2>4, <3>1, <3>2 DEF Add, Counts, managerVars
  <2>5. QED
    BY <1>3, <2>2, <2>3, <2>4 DEF Add
<1>4. ASSUME NEW b \in Browsers, Update(b) PROVE Goal
  <2>1. handler' \in [Browsers -> Handlers] /\ AuthorizedKind'
    <3> DEFINE next == [handler[b] EXCEPT !.at = "answer", !.key = None, !.first = TRUE]
    <3>1. next \in Handlers /\ next.at = "answer"
      BY DEF Handlers
    <3>2. handler' = [handler EXCEPT ![b] = next] \/ handler' = [handler EXCEPT ![b] = Idle]
      BY <1>4 DEF Update, Fails
    <3> HIDE DEF next
    <3>3. QED
      BY <3>1, <3>2, HandlerTypes DEF AuthorizedKind
  <2>2. QED
    BY <1>4, <2>1 DEF Update, Fails, Saves, Counts, managerVars
<1>5. ASSUME NEW b \in Browsers, BeginRegistration(b) \/ BeginLogin(b) PROVE Goal
  <2>1. handler' \in [Browsers -> Handlers] /\ AuthorizedKind'
    <3>1. \A kind \in Kinds : [Idle EXCEPT !.at = "authorized", !.kind = kind] \in Handlers
      BY DEF Idle, Handlers
    <3>2. \E next \in Handlers : /\ handler' = [handler EXCEPT ![b] = next]
                                 /\ next.kind \in Kinds
      BY <1>5, <3>1 DEF BeginRegistration, BeginLogin, Kinds, Idle
    <3>3. QED
      BY <3>2 DEF AuthorizedKind
  <2>2. QED
    BY <1>5, <2>1 DEF BeginRegistration, BeginLogin, storeVars, managerVars
<1>6. ASSUME NEW b \in Browsers, putCeremony(b) PROVE Goal
  BY <1>6, HandlerTypes DEF putCeremony, Fails, storeVars, AuthorizedKind
<1>7. ASSUME NEW b \in Browsers, NEW kind \in Kinds, takeCeremony(b, kind) PROVE Goal
  <2>1. handler' \in [Browsers -> Handlers] /\ AuthorizedKind'
    <3> DEFINE next == [Idle EXCEPT !.at = "taken", !.kind = kind]
    <3>1. next \in Handlers /\ next.at = "taken"
      BY DEF Idle, Handlers
    <3>2. handler' = handler \/ handler' = [handler EXCEPT ![b] = next]
      BY <1>7 DEF takeCeremony
    <3>3. QED
      BY <3>1, <3>2 DEF AuthorizedKind
  <2>2. QED
    BY <1>7, <2>1 DEF takeCeremony, storeVars
<1>8. ASSUME NEW b \in Browsers, Verify(b) \/ VerificationFails(b) PROVE Goal
  <2>1. handler' \in [Browsers -> Handlers] /\ AuthorizedKind'
    BY <1>8, HandlerTypes DEF Verify, VerificationFails, Fails, Handlers, Stored, AuthorizedKind
  <2>2. QED
    BY <1>8, <2>1 DEF Verify, VerificationFails, storeVars, managerVars
<1>9. ASSUME NEW b \in Browsers, Answer(b) PROVE Goal
  <2>1. handler' \in [Browsers -> Handlers] /\ AuthorizedKind'
    BY <1>9, HandlerTypes DEF Answer, Fails, AuthorizedKind
  <2>2. promised' \in [Credentials -> Labels \cup {None, Unknown}]
    BY <1>9 DEF Answer, Handlers
  <2>3. QED
    BY <1>9, <2>1, <2>2 DEF Answer
<1>10. ASSUME NEW b \in Browsers, SessionEnds(b) PROVE Goal
  BY <1>10 DEF SessionEnds, storeVars, AuthorizedKind
<1>11. CASE CeremonyExpires \/ TokenExpires \/ RotateChecks \/ RotateSets
  BY <1>11 DEF CeremonyExpires, TokenExpires, RotateChecks, RotateSets, storeVars, AuthorizedKind
<1>12. CASE PasskeyCrash
  <2>1. handler' \in [Browsers -> Handlers] /\ AuthorizedKind'
    BY <1>12, HandlerTypes DEF PasskeyCrash, AuthorizedKind
  <2>2. memory' \in Records
    BY <1>12 DEF PasskeyCrash, Records
  <2>3. passkeyChanges' \in 0 .. MaxChanges
    BY <1>12 DEF PasskeyCrash, Counts
  <2>4. /\ up' = FALSE /\ token' = FALSE /\ rotating' = FALSE /\ sessions' = {}
        /\ UNCHANGED <<file, promised, cookie, registered, issued>>
    BY <1>12 DEF PasskeyCrash
  <2>5. QED
    BY <2>1, <2>2, <2>3, <2>4
<1>13. CASE PasskeyStart
  BY <1>13 DEF PasskeyStart, AuthorizedKind
<1>14. QED
  BY <1>1, <1>2, <1>3, <1>4, <1>5, <1>6, <1>7, <1>8, <1>9, <1>10, <1>11, <1>12, <1>13
     DEF PasskeyNext, BrowserNext

(* After a change of k in memory, saved or not, no answer under way names k  *)
(* but the one that tells of a change that was saved.                        *)
LEMMA AgreeAfterTouch ==
    ASSUME PasskeyTypeOK, AnswersAgree, PasskeyAnswersSurvive, up, up', Kept => Kept',
           NEW b \in Browsers, NEW k \in Credentials, NEW next \in Handlers,
           NEW label \in Labels \cup {None},
           memory' = [memory EXCEPT ![k] = label], file' = memory' \/ file' = file,
           Touches(b, k, next),
           next.at = "answer" => /\ Kept' /\ file' = memory'
                                 /\ next.key = k /\ next.value = label
    PROVE  AnswersAgree' /\ PasskeyAnswersSurvive'
<1> USE DEF PasskeyTypeOK, Records
<1>1. memory'[k] = label /\ \A j \in Credentials \ {k} : memory'[j] = memory[j]
  OBVIOUS
<1>2. PasskeyAnswersSurvive'
  BY <1>1, TouchesFrame DEF PasskeyAnswersSurvive
<1>3. ASSUME NEW o \in Browsers, handler'[o].at = "answer"
      PROVE  /\ Kept'
             /\ handler'[o].key # None =>
                  /\ file'[handler'[o].key] = handler'[o].value
                  /\ memory'[handler'[o].key] = handler'[o].value
  <2>1. CASE o = b
    BY <1>1, <1>3, <2>1, TouchesFrame
  <2>2. CASE o # b
    <3> DEFINE j == handler'[o].key
    <3>1. /\ handler[o].at = "answer" /\ handler'[o].value = handler[o].value
          /\ j = handler[o].key \/ j = None
          /\ j = k => k = None
      BY <1>3, <2>2, TouchesFrame
    <3>2. Kept'
      BY <3>1 DEF AnswersAgree
    <3>3. ASSUME j # None PROVE file'[j] = handler'[o].value /\ memory'[j] = handler'[o].value
      <4>1. j \in Credentials \ {k}
        BY <3>1, <3>3 DEF Handlers
      <4>2. file[j] = handler[o].value /\ memory[j] = handler[o].value
        BY <3>1, <3>3 DEF AnswersAgree
      <4>3. QED
        BY <1>1, <3>1, <4>1, <4>2
    <3>4. QED
      BY <3>2, <3>3
  <2>3. QED
    BY <2>1, <2>2
<1>4. QED
  BY <1>2, <1>3 DEF AnswersAgree

(* A step that leaves memory, file and history alone, and makes no answer.   *)
LEMMA AgreeWithoutTouch ==
    ASSUME PasskeyTypeOK, AnswersAgree, PasskeyAnswersSurvive,
           NEW b \in Browsers, NEW next \in Handlers, up,
           UNCHANGED <<up, memory, file, promised>>,
           handler' = [handler EXCEPT ![b] = next],
           next.at # "answer"
    PROVE  AnswersAgree' /\ PasskeyAnswersSurvive'
<1>1. PasskeyAnswersSurvive'
  BY DEF PasskeyAnswersSurvive
<1>2. Kept' = Kept
  BY DEF Kept, HasCredentials, Stored
<1>3. AnswersAgree'
  BY <1>2 DEF AnswersAgree, PasskeyTypeOK
<1>4. QED
  BY <1>1, <1>3

(* Nothing that the answers are about changes.                               *)
LEMMA AgreeUnchanged ==
    ASSUME AnswersAgree, PasskeyAnswersSurvive, UNCHANGED <<up, memory, file, promised, handler>>
    PROVE  AnswersAgree' /\ PasskeyAnswersSurvive'
  BY DEF AnswersAgree, PasskeyAnswersSurvive, Kept, HasCredentials, Stored

(* The requests that change or save the store.                               *)
LEMMA StoreStep ==
    ASSUME PasskeyInv, Kept => Kept', NEW b \in Browsers, NEW k \in Credentials,
           NEW label \in Labels, Delete(b, k) \/ Rename(b, k, label) \/ Add(b, k, label)
    PROVE  AnswersAgree' /\ PasskeyAnswersSurvive'
<1> USE PasskeysAssumption DEF PasskeyInv
<1>1. CASE Delete(b, k)
  <2>1. CASE UNCHANGED <<storeVars, handler>>
    BY <1>1, <2>1, AgreeUnchanged DEF Delete, storeVars
  <2>2. CASE memory' = [memory EXCEPT ![k] = None] /\ Saves(memory')
             /\ Touches(b, k, Answering(k, None))
    <3>1. up /\ up'
      BY <1>1 DEF Delete
    <3>2. PICK j \in Stored(memory) : j # k
      BY <1>1, DeleteLeavesOne DEF Delete
    <3>3. Kept'
      BY <2>2, <3>2 DEF Kept, HasCredentials, Stored, Saves, PasskeyTypeOK, Records
    <3>4. Answering(k, None) \in Handlers /\ Answering(k, None).key = k
          /\ Answering(k, None).value = None
      BY HandlerTypes
    <3>5. QED
      BY <2>2, <3>1, <3>3, <3>4, AgreeAfterTouch DEF Saves
  <2>3. QED
    BY <1>1, <2>1, <2>2 DEF Delete
<1>2. CASE Rename(b, k, label)
  <2>1. CASE UNCHANGED <<storeVars, handler>>
    BY <1>2, <2>1, AgreeUnchanged DEF Rename, storeVars
  <2>2. CASE memory' = [memory EXCEPT ![k] = label] /\ Saves(memory')
             /\ Touches(b, k, Answering(k, label))
    <3>1. up /\ up'
      BY <1>2 DEF Rename
    <3>2. Kept'
      BY <2>2 DEF Kept, HasCredentials, Stored, Saves, PasskeyTypeOK, Records
    <3>3. Answering(k, label) \in Handlers /\ Answering(k, label).key = k
          /\ Answering(k, label).value = label
      BY HandlerTypes
    <3>4. QED
      BY <2>2, <3>1, <3>2, <3>3, AgreeAfterTouch DEF Saves
  <2>3. QED
    BY <1>2, <2>1, <2>2 DEF Rename
<1>3. CASE Add(b, k, label)
  <2> DEFINE next == [handler[b] EXCEPT !.at = "answer", !.key = k, !.value = label]
  <2>1. up /\ up'
    BY <1>3 DEF Add
  <2>2. CASE Fails(b) /\ UNCHANGED storeVars
    BY <1>3, <2>1, <2>2, HandlerTypes, AgreeWithoutTouch DEF Add, Fails, storeVars
  <2>3. CASE memory' = [memory EXCEPT ![k] = label] /\ Saves(memory') /\ Touches(b, k, next)
    <3>1. next \in Handlers /\ next.key = k /\ next.value = label
      BY DEF PasskeyTypeOK, Handlers
    <3>2. Kept'
      BY <2>3 DEF Kept, HasCredentials, Stored, Saves, PasskeyTypeOK, Records
    <3> HIDE DEF next
    <3>3. QED
      BY <2>1, <2>3, <3>1, <3>2, AgreeAfterTouch DEF Saves
  <2>4. CASE memory' = [memory EXCEPT ![k] = label] /\ Touches(b, k, Idle) /\ UNCHANGED file
    BY <2>1, <2>4, HandlerTypes, AgreeAfterTouch
  <2>5. QED
    BY <1>3, <2>2, <2>3, <2>4 DEF Add
<1>4. QED
  BY <1>1, <1>2, <1>3

(* A login saves all there is in memory: whatever it is, it has the passkey  *)
(* of the login in it, and what was answered.                                *)
LEMMA UpdateStep ==
    ASSUME PasskeyInv, Kept => Kept', NEW b \in Browsers, Update(b)
    PROVE  AnswersAgree' /\ PasskeyAnswersSurvive'
<1> USE PasskeysAssumption DEF PasskeyInv
<1> DEFINE next == [handler[b] EXCEPT !.at = "answer", !.key = None, !.first = TRUE]
<1>1. UNCHANGED <<up, memory, promised>> /\ up
  BY DEF Update
<1>2. CASE Fails(b) /\ UNCHANGED file
  BY <1>1, <1>2, HandlerTypes, AgreeWithoutTouch DEF Fails
<1>3. CASE handler[b].key \in Stored(memory) /\ Saves(memory)
           /\ handler' = [handler EXCEPT ![b] = next]
  <2>1. Kept'
    BY <1>1, <1>3 DEF Kept, HasCredentials, Stored, Saves
  <2>2. PasskeyAnswersSurvive'
    BY <1>1, <1>3 DEF PasskeyAnswersSurvive, Saves
  <2>3. next.key = None
    BY DEF PasskeyTypeOK, Handlers
  <2> HIDE DEF next
  <2>4. ASSUME NEW o \in Browsers, handler'[o].key # None, handler'[o].at = "answer"
        PROVE  /\ file'[handler'[o].key] = handler'[o].value
               /\ memory'[handler'[o].key] = handler'[o].value
    <3>1. o # b /\ handler'[o] = handler[o]
      BY <1>3, <2>3, <2>4 DEF PasskeyTypeOK
    <3>2. QED
      BY <1>1, <1>3, <2>4, <3>1 DEF AnswersAgree, Saves
  <2>5. QED
    BY <1>1, <2>1, <2>2, <2>4 DEF AnswersAgree
<1>4. QED
  BY <1>2, <1>3 DEF Update

(* The browser is told what it may count on.                                 *)
LEMMA AnswerStep ==
    ASSUME PasskeyInv, NEW b \in Browsers, Answer(b)
    PROVE  AnswersAgree' /\ PasskeyAnswersSurvive' /\ (registered' => Kept')
<1> USE PasskeysAssumption DEF PasskeyInv
<1>1. UNCHANGED <<up, memory, file>> /\ up /\ handler[b].at = "answer"
  BY DEF Answer
<1>2. Kept /\ Kept'
  BY <1>1 DEF AnswersAgree, Kept, HasCredentials, Stored
<1>3. AnswersAgree'
  BY <1>1, <1>2, HandlerTypes DEF AnswersAgree, Answer, Fails, PasskeyTypeOK
<1>4. PasskeyAnswersSurvive'
  <2>1. CASE handler[b].key = None
    BY <1>1, <2>1 DEF Answer, PasskeyAnswersSurvive
  <2>2. CASE handler[b].key # None
    <3>1. file[handler[b].key] = handler[b].value /\ memory[handler[b].key] = handler[b].value
      BY <1>1, <2>2 DEF AnswersAgree
    <3>2. promised' = [promised EXCEPT ![handler[b].key] = handler[b].value]
      BY <2>2 DEF Answer
    <3>3. QED
      BY <1>1, <3>1, <3>2 DEF PasskeyAnswersSurvive, PasskeyTypeOK
  <2>3. QED
    BY <2>1, <2>2
<1>5. QED
  BY <1>2, <1>3, <1>4

(* The steps of a ceremony.                                                  *)
LEMMA CeremonyStep ==
    ASSUME PasskeyInv, NEW b \in Browsers, NEW kind \in Kinds,
           \/ BeginRegistration(b) \/ BeginLogin(b) \/ putCeremony(b)
           \/ takeCeremony(b, kind) \/ Verify(b) \/ VerificationFails(b)
    PROVE  AnswersAgree' /\ PasskeyAnswersSurvive'
<1> USE PasskeysAssumption DEF PasskeyInv
<1>1. UNCHANGED <<up, memory, file, promised>> /\ up
  BY DEF BeginRegistration, BeginLogin, putCeremony, takeCeremony, Verify, VerificationFails,
         storeVars
<1>2. \E next \in Handlers : /\ next.at # "answer"
                             /\ handler' = [handler EXCEPT ![b] = next] \/ handler' = handler
  <2>1. CASE BeginRegistration(b) \/ BeginLogin(b)
    <3>1. \A c \in Kinds : [Idle EXCEPT !.at = "authorized", !.kind = c] \in Handlers
      BY DEF Idle, Handlers
    <3>2. QED
      BY <2>1, <3>1 DEF BeginRegistration, BeginLogin, Kinds, Idle
  <2>2. CASE putCeremony(b) \/ VerificationFails(b)
    BY <2>2, HandlerTypes DEF putCeremony, VerificationFails, Fails
  <2>3. CASE takeCeremony(b, kind)
    <3> DEFINE next == [Idle EXCEPT !.at = "taken", !.kind = kind]
    <3>1. next \in Handlers /\ next.at # "answer"
      BY DEF Idle, Handlers
    <3>2. handler' = handler \/ handler' = [handler EXCEPT ![b] = next]
      BY <2>3 DEF takeCeremony
    <3> HIDE DEF next
    <3>3. QED
      BY <3>1, <3>2
  <2>4. CASE Verify(b)
    <3>1. handler[b] \in Handlers
      BY DEF PasskeyTypeOK
    <3>2. CASE handler[b].kind = "register"
      <4> DEFINE next == [handler[b] EXCEPT !.at = "verified", !.first = ~HasCredentials]
      <4>1. next \in Handlers /\ next.at # "answer"
        BY <3>1 DEF Handlers
      <4>2. handler' = [handler EXCEPT ![b] = next]
        BY <2>4, <3>2 DEF Verify, PasskeyTypeOK
      <4> HIDE DEF next
      <4>3. QED
        BY <4>1, <4>2
    <3>3. CASE handler[b].kind # "register"
      <4>1. PICK k \in Credentials : handler' = [handler EXCEPT ![b].at = "verified", ![b].key = k]
        BY <2>4, <3>3 DEF Verify, Stored
      <4> DEFINE next == [handler[b] EXCEPT !.at = "verified", !.key = k]
      <4>2. next \in Handlers /\ next.at # "answer"
        BY <3>1 DEF Handlers
      <4>3. handler' = [handler EXCEPT ![b] = next]
        BY <4>1 DEF PasskeyTypeOK
      <4> HIDE DEF next
      <4>4. QED
        BY <4>2, <4>3
    <3>4. QED
      BY <3>2, <3>3
  <2>5. QED
    BY <2>1, <2>2, <2>3, <2>4
<1>3. QED
  BY <1>1, <1>2, AgreeWithoutTouch, AgreeUnchanged

-----------------------------------------------------------------------------
(* Every step preserves the invariant.                                       *)
LEMMA PasskeyStepInv == PasskeyInv /\ PasskeyNext => PasskeyInv'
<1> SUFFICES ASSUME PasskeyInv, PasskeyNext PROVE PasskeyInv'
  OBVIOUS
<1> USE PasskeysAssumption DEF PasskeyInv
<1>1. PasskeyTypeOK' /\ AuthorizedKind' /\ IsFiniteSet(ceremonies')
  BY CeremoniesStep, TypeStep DEF PasskeyTypeOK
<1>2. Kept => Kept'
  BY KeptStep
<1>3. AnswersAgree' /\ PasskeyAnswersSurvive' /\ (registered' => Kept')
  <2>1. ASSUME NEW b \in Browsers, Answer(b)
        PROVE  AnswersAgree' /\ PasskeyAnswersSurvive' /\ (registered' => Kept')
    BY <2>1, AnswerStep
  <2>2. ASSUME NEW b \in Browsers, BrowserNext(b), ~ Answer(b)
        PROVE  AnswersAgree' /\ PasskeyAnswersSurvive' /\ UNCHANGED registered
    <3>1. ASSUME NEW k \in Credentials, NEW label \in Labels,
                 Delete(b, k) \/ Rename(b, k, label) \/ Add(b, k, label)
          PROVE  AnswersAgree' /\ PasskeyAnswersSurvive' /\ UNCHANGED registered
      BY <1>2, <3>1, StoreStep DEF Delete, Rename, Add
    <3>2. ASSUME NEW k \in Credentials, Delete(b, k)
          PROVE  AnswersAgree' /\ PasskeyAnswersSurvive' /\ UNCHANGED registered
      <4>1. PICK label \in Labels : TRUE
        BY <3>2, StoredLabel DEF Delete
      <4>2. QED
        BY <3>1, <3>2, <4>1
    <3>3. CASE Update(b)
      BY <1>2, <3>3, UpdateStep DEF Update
    <3>4. ASSUME NEW kind \in Kinds,
                 \/ BeginRegistration(b) \/ BeginLogin(b) \/ putCeremony(b)
                 \/ takeCeremony(b, kind) \/ Verify(b) \/ VerificationFails(b)
          PROVE  AnswersAgree' /\ PasskeyAnswersSurvive' /\ UNCHANGED registered
      <4>1. UNCHANGED registered
        BY <3>4 DEF BeginRegistration, BeginLogin, putCeremony, takeCeremony, Verify,
                    VerificationFails
      <4>2. QED
        BY <3>4, <4>1, CeremonyStep
    <3>5. CASE SessionEnds(b)
      BY <3>5, AgreeUnchanged DEF SessionEnds, storeVars
    <3>6. \E kind \in Kinds : TRUE
      BY DEF Kinds
    <3>7. QED
      BY <2>2, <3>1, <3>2, <3>3, <3>4, <3>5, <3>6 DEF BrowserNext
  <2>3. CASE CeremonyExpires \/ TokenExpires \/ RotateChecks \/ RotateSets
    <3>1. UNCHANGED <<up, memory, file, promised, handler, registered>>
      BY <2>3 DEF CeremonyExpires, TokenExpires, RotateChecks, RotateSets, storeVars
    <3>2. QED
      BY <1>2, <3>1, AgreeUnchanged
  <2>4. CASE PasskeyCrash
    <3>1. /\ ~ up' /\ UNCHANGED <<file, promised, registered>>
          /\ handler' = [b \in Browsers |-> Idle]
      BY <2>4 DEF PasskeyCrash
    <3>2. AnswersAgree'
      BY <3>1, HandlerTypes DEF AnswersAgree
    <3>3. QED
      BY <1>2, <3>1, <3>2 DEF PasskeyAnswersSurvive
  <2>5. CASE PasskeyStart
    <3>1. /\ ~ up /\ up' /\ memory' = file /\ UNCHANGED <<file, promised, handler, registered>>
      BY <2>5 DEF PasskeyStart
    <3>2. AnswersAgree'
      BY <3>1, HandlerTypes DEF AnswersAgree
    <3>3. QED
      BY <1>2, <3>1, <3>2 DEF PasskeyAnswersSurvive
  <2>6. QED
    BY <1>2, <2>1, <2>2, <2>3, <2>4, <2>5 DEF PasskeyNext
<1>4. QED
  BY <1>1, <1>3

(* A step in which nothing happens preserves it as well.                     *)
LEMMA PasskeyStutter == PasskeyInv /\ UNCHANGED passkeyVars => PasskeyInv'
  BY DEF PasskeyInv, passkeyVars, storeVars, managerVars, PasskeyTypeOK, AuthorizedKind,
         AnswersAgree, PasskeyAnswersSurvive, Kept, HasCredentials, Stored

-----------------------------------------------------------------------------
(* The store, its ceremonies and the requests under way agree in every state *)
(* that a hub reaches.                                                       *)
THEOREM PasskeyInvariance == PasskeySpec => []PasskeyInv
  BY PasskeyInitInv, PasskeyStepInv, PasskeyStutter, PTL DEF PasskeySpec

(* Once a first passkey is registered the hub always has one.                *)
THEOREM APasskeyIsKept == PasskeySpec => []KeepsAPasskey
<1>1. PasskeyInv => KeepsAPasskey
  BY DEF PasskeyInv, KeepsAPasskey, Kept
<1>2. QED
  BY <1>1, PasskeyInvariance, PTL

(* What a browser was told of a passkey is what the hub has, and what it     *)
(* will have when it starts again.                                           *)
THEOREM AnswersHold == PasskeySpec => []PasskeyAnswersSurvive
<1>1. PasskeyInv => PasskeyAnswersSurvive
  BY DEF PasskeyInv
<1>2. QED
  BY <1>1, PasskeyInvariance, PTL
=============================================================================
