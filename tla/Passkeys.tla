------------------------------- MODULE Passkeys -------------------------------
(***************************************************************************)
(* The passkeys of a hub: the store, which lives in memory and in a file   *)
(* that is replaced atomically and may refuse to be, the ceremonies that   *)
(* register one or log in with one, the bootstrap token that allows the    *)
(* first registration, and the browsers' sessions (pkg/auth).  A handler   *)
(* works on its own between the mutexes of the store and of the manager;   *)
(* the hub may crash between any two steps.                                *)
(***************************************************************************)
EXTENDS Integers, FiniteSets

CONSTANTS
    Credentials,    \* what authenticators create
    Labels,         \* valid labels
    Browsers,       \* each holds a session cookie and a ceremony cookie
    None,           \* no credential
    Unknown,        \* nobody was told what became of the credential
    MaxCeremonies,  \* the capacity of the ceremonies, 64 in the code
    MaxIssued,      \* bound: ceremonies that are begun
    MaxChanges      \* bound: renames, deletions, failures and crashes

ASSUME PasskeysAssumption ==
    /\ IsFiniteSet(Credentials)
    /\ None \notin Labels /\ Unknown \notin Labels /\ None # Unknown
    /\ MaxCeremonies \in Nat \ {0} /\ MaxIssued \in Nat /\ MaxChanges \in Nat

VARIABLES
    up,             \* the hub runs
    memory,         \* PasskeyStore.data: the label of each credential
    file,           \* passkeys.json
    token,          \* a bootstrap token is in force
    rotating,       \* a rotation has seen an empty store
    sessions,       \* browsers with a live session
    ceremonies,     \* PasskeyManager.ceremonies
    cookie,         \* the ceremony each browser was given last
    handler,        \* the request of each browser that is being handled
    promised,       \* history: what the last answer said of each credential
    registered,     \* history: a registration was answered with success
    issued,         \* counts the ceremonies that were begun
    passkeyChanges  \* counts renames, deletions, failures and crashes

storeVars == <<memory, file, promised>>
managerVars == <<token, rotating, sessions, ceremonies, cookie>>
passkeyVars == <<up, storeVars, managerVars, handler, registered, issued, passkeyChanges>>

Kinds == {"register", "login"}
Records == [Credentials -> Labels \cup {None}]
Idle == [at |-> "idle", kind |-> None, key |-> None, value |-> None, first |-> FALSE]
Handlers == [at : {"idle", "authorized", "taken", "verified", "answer"},
             kind : Kinds \cup {None}, key : Credentials \cup {None},
             value : Labels \cup {None}, first : BOOLEAN]

PasskeyTypeOK ==
    /\ up \in BOOLEAN /\ token \in BOOLEAN /\ rotating \in BOOLEAN /\ registered \in BOOLEAN
    /\ memory \in Records /\ file \in Records
    /\ promised \in [Credentials -> Labels \cup {None, Unknown}]
    /\ sessions \subseteq Browsers
    /\ ceremonies \subseteq [id : 1 .. MaxIssued, kind : Kinds]
    /\ Cardinality(ceremonies) <= MaxCeremonies
    /\ cookie \in [Browsers -> 0 .. MaxIssued]
    /\ handler \in [Browsers -> Handlers]
    /\ issued \in 0 .. MaxIssued /\ passkeyChanges \in 0 .. MaxChanges

Stored(records) == {k \in Credentials : records[k] # None}
HasCredentials == Stored(memory) # {}

Counts == passkeyChanges < MaxChanges /\ passkeyChanges' = passkeyChanges + 1

-----------------------------------------------------------------------------
(* The store, each operation under its mutex *)

(* saveLocked: a temporary file is renamed, so that all is saved or nothing. *)
Saves(records) == file' = records

(* Something was done to k: nobody knows what until b's request, in its next *)
(* state, is answered, and no earlier answer tells any more.                 *)
Touches(b, k, next) ==
    /\ promised' = [promised EXCEPT ![k] = Unknown]
    /\ handler' = [o \in Browsers |->
         IF o = b THEN next
         ELSE IF handler[o].at = "answer" /\ handler[o].key = k THEN [handler[o] EXCEPT !.key = None]
         ELSE handler[o]]

Answering(k, value) == [Idle EXCEPT !.at = "answer", !.key = k, !.value = value]

Fails(b) == handler' = [handler EXCEPT ![b] = Idle]

(* Rename and Delete put back what they changed when the file refuses.       *)
Rename(b, k, label) ==
    /\ up /\ handler[b] = Idle /\ b \in sessions
    /\ k \in Stored(memory)
    /\ Counts
    /\ \/ /\ memory' = [memory EXCEPT ![k] = label]
          /\ Saves(memory')
          /\ Touches(b, k, Answering(k, label))
       \/ UNCHANGED <<storeVars, handler>>
    /\ UNCHANGED <<up, managerVars, registered, issued>>

(* Defect: a deletion that cannot be saved is not taken back in memory.      *)
DeleteWithoutUndo(b, k) ==
    /\ up /\ handler[b] = Idle /\ b \in sessions
    /\ k \in Stored(memory)
    /\ Cardinality(Stored(memory)) > 1
    /\ Counts
    /\ memory' = [memory EXCEPT ![k] = None]
    /\ \/ Saves(memory') /\ Touches(b, k, Answering(k, None))
       \/ UNCHANGED <<file, promised, handler>>
    /\ UNCHANGED <<up, managerVars, registered, issued>>

(* Defect: the final passkey can be deleted.                                 *)
DeleteAny(b, k) ==
    /\ up /\ handler[b] = Idle /\ b \in sessions
    /\ k \in Stored(memory)
    /\ Counts
    /\ memory' = [memory EXCEPT ![k] = None]
    /\ Saves(memory')
    /\ Touches(b, k, Answering(k, None))
    /\ UNCHANGED <<up, managerVars, registered, issued>>

Delete(b, k) ==
    /\ up /\ handler[b] = Idle /\ b \in sessions
    /\ k \in Stored(memory)
    /\ Cardinality(Stored(memory)) > 1
    /\ Counts
    /\ \/ /\ memory' = [memory EXCEPT ![k] = None]
          /\ Saves(memory')
          /\ Touches(b, k, Answering(k, None))
       \/ UNCHANGED <<storeVars, handler>>
    /\ UNCHANGED <<up, managerVars, registered, issued>>

(* add leaves the credential in memory when the file refuses.                *)
Add(b, k, label) ==
    /\ up /\ handler[b].at = "verified" /\ handler[b].kind = "register"
    /\ \/ /\ k \in Stored(memory)
          /\ Fails(b)
          /\ UNCHANGED <<storeVars, passkeyChanges>>
       \/ /\ k \notin Stored(memory)
          /\ memory' = [memory EXCEPT ![k] = label]
          /\ Saves(memory')
          /\ Touches(b, k, [handler[b] EXCEPT !.at = "answer", !.key = k, !.value = label])
          /\ UNCHANGED passkeyChanges
       \/ /\ k \notin Stored(memory)
          /\ Counts
          /\ memory' = [memory EXCEPT ![k] = label]
          /\ Touches(b, k, Idle)
          /\ UNCHANGED file
    /\ UNCHANGED <<up, managerVars, registered, issued>>

(* update, after a login with k: it saves all there is in memory.            *)
Update(b) ==
    /\ up /\ handler[b].at = "verified" /\ handler[b].kind = "login"
    /\ \/ /\ handler[b].key \in Stored(memory)
          /\ Saves(memory)
          /\ handler' = [handler EXCEPT ![b] = [@ EXCEPT !.at = "answer", !.key = None, !.first = TRUE]]
          /\ UNCHANGED passkeyChanges
       \/ /\ handler[b].key \notin Stored(memory)
          /\ Fails(b)
          /\ UNCHANGED <<file, passkeyChanges>>
       \/ /\ Counts
          /\ Fails(b)
          /\ UNCHANGED file
    /\ UNCHANGED <<up, memory, promised, managerVars, registered, issued>>

-----------------------------------------------------------------------------
(* Ceremonies *)

(* A registration needs a session, or the token while there is no passkey;   *)
(* the token is used up by it.                                               *)
BeginRegistration(b) ==
    /\ up /\ handler[b] = Idle
    /\ IF HasCredentials THEN b \in sessions /\ UNCHANGED token
       ELSE token /\ token' = FALSE
    /\ handler' = [handler EXCEPT ![b] = [Idle EXCEPT !.at = "authorized", !.kind = "register"]]
    /\ UNCHANGED <<up, storeVars, rotating, sessions, ceremonies, cookie, registered,
                   issued, passkeyChanges>>

BeginLogin(b) ==
    /\ up /\ handler[b] = Idle
    /\ HasCredentials
    /\ handler' = [handler EXCEPT ![b] = [Idle EXCEPT !.at = "authorized", !.kind = "login"]]
    /\ UNCHANGED <<up, storeVars, managerVars, registered, issued, passkeyChanges>>

(* Defect: the capacity is not looked at.                                    *)
putCeremonyAlways(b) ==
    /\ up /\ handler[b].at = "authorized"
    /\ issued < MaxIssued
    /\ issued' = issued + 1
    /\ ceremonies' = ceremonies \cup {[id |-> issued', kind |-> handler[b].kind]}
    /\ cookie' = [cookie EXCEPT ![b] = issued']
    /\ Fails(b)
    /\ UNCHANGED <<up, storeVars, token, rotating, sessions, registered, passkeyChanges>>

putCeremony(b) ==
    /\ up /\ handler[b].at = "authorized"
    /\ IF Cardinality(ceremonies) >= MaxCeremonies
       THEN UNCHANGED <<ceremonies, cookie, issued>>
       ELSE /\ issued < MaxIssued
            /\ issued' = issued + 1
            /\ ceremonies' = ceremonies \cup {[id |-> issued', kind |-> handler[b].kind]}
            /\ cookie' = [cookie EXCEPT ![b] = issued']
    /\ Fails(b)
    /\ UNCHANGED <<up, storeVars, token, rotating, sessions, registered, passkeyChanges>>

(* It is swept by the next putCeremony, or refused when it is taken.         *)
CeremonyExpires ==
    /\ \E c \in ceremonies : ceremonies' = ceremonies \ {c}
    /\ UNCHANGED <<up, storeVars, token, rotating, sessions, cookie, handler, registered,
                   issued, passkeyChanges>>

(* It is removed even when it turns out to be of the other kind.             *)
takeCeremony(b, kind) ==
    /\ up /\ handler[b] = Idle
    /\ \E c \in ceremonies :
         /\ c.id = cookie[b]
         /\ ceremonies' = ceremonies \ {c}
         /\ handler' = IF c.kind # kind THEN handler
                       ELSE [handler EXCEPT ![b] = [Idle EXCEPT !.at = "taken", !.kind = kind]]
    /\ UNCHANGED <<up, storeVars, token, rotating, sessions, cookie, registered, issued,
                   passkeyChanges>>

(* WebAuthn agrees, against the credentials there are now.                   *)
Verify(b) ==
    /\ up /\ handler[b].at = "taken"
    /\ IF handler[b].kind = "register"
       THEN handler' = [handler EXCEPT ![b].at = "verified", ![b].first = ~HasCredentials]
       ELSE \E k \in Stored(memory) :
              handler' = [handler EXCEPT ![b].at = "verified", ![b].key = k]
    /\ UNCHANGED <<up, storeVars, managerVars, registered, issued, passkeyChanges>>

VerificationFails(b) ==
    /\ up /\ handler[b].at = "taken"
    /\ Fails(b)
    /\ UNCHANGED <<up, storeVars, managerVars, registered, issued, passkeyChanges>>

(* The browser is told.  A registration ends the bootstrap; the first one    *)
(* and a login open a session.                                               *)
Answer(b) ==
    /\ up /\ handler[b].at = "answer"
    /\ promised' = IF handler[b].key = None THEN promised
                   ELSE [promised EXCEPT ![handler[b].key] = handler[b].value]
    /\ sessions' = IF handler[b].first THEN sessions \cup {b} ELSE sessions
    /\ IF handler[b].kind = "register" THEN token' = FALSE /\ registered' = TRUE
       ELSE UNCHANGED <<token, registered>>
    /\ Fails(b)
    /\ UNCHANGED <<up, memory, file, rotating, ceremonies, cookie, issued, passkeyChanges>>

-----------------------------------------------------------------------------
(* The bootstrap token and the sessions *)

TokenExpires ==
    /\ token
    /\ token' = FALSE
    /\ UNCHANGED <<up, storeVars, rotating, sessions, ceremonies, cookie, handler,
                   registered, issued, passkeyChanges>>

(* RotateBootstrapToken looks at the store, then takes the manager's mutex.  *)
RotateChecks ==
    /\ up /\ ~rotating /\ ~HasCredentials
    /\ rotating' = TRUE
    /\ UNCHANGED <<up, storeVars, token, sessions, ceremonies, cookie, handler, registered,
                   issued, passkeyChanges>>

RotateSets ==
    /\ rotating
    /\ rotating' = FALSE
    /\ token' = TRUE
    /\ UNCHANGED <<up, storeVars, sessions, ceremonies, cookie, handler, registered, issued,
                   passkeyChanges>>

(* Logout, expiry and the cleanup of expired sessions.                       *)
SessionEnds(b) ==
    /\ b \in sessions
    /\ sessions' = sessions \ {b}
    /\ UNCHANGED <<up, storeVars, token, rotating, ceremonies, cookie, handler, registered,
                   issued, passkeyChanges>>

-----------------------------------------------------------------------------
(* Only the file survives.                                                   *)
PasskeyCrash ==
    /\ up
    /\ Counts
    /\ up' = FALSE
    /\ memory' = [k \in Credentials |-> None]
    /\ token' = FALSE /\ rotating' = FALSE
    /\ sessions' = {} /\ ceremonies' = {}
    /\ handler' = [b \in Browsers |-> Idle]
    /\ UNCHANGED <<file, promised, cookie, registered, issued>>

PasskeyStart ==
    /\ ~up
    /\ up' = TRUE
    /\ memory' = file
    /\ token' = (Stored(file) = {})
    /\ UNCHANGED <<file, promised, rotating, sessions, ceremonies, cookie, handler,
                   registered, issued, passkeyChanges>>

PasskeyInit ==
    /\ up = FALSE
    /\ memory = [k \in Credentials |-> None] /\ file = memory /\ promised = memory
    /\ token = FALSE /\ rotating = FALSE
    /\ sessions = {} /\ ceremonies = {}
    /\ cookie = [b \in Browsers |-> 0]
    /\ handler = [b \in Browsers |-> Idle]
    /\ registered = FALSE
    /\ issued = 0 /\ passkeyChanges = 0

BrowserNext(b) ==
    \/ BeginRegistration(b) \/ BeginLogin(b) \/ putCeremony(b)
    \/ \E kind \in Kinds : takeCeremony(b, kind)
    \/ Verify(b) \/ VerificationFails(b) \/ Update(b) \/ Answer(b) \/ SessionEnds(b)
    \/ \E k \in Credentials : Delete(b, k)
    \/ \E k \in Credentials, label \in Labels : Rename(b, k, label) \/ Add(b, k, label)

PasskeyNext ==
    \/ \E b \in Browsers : BrowserNext(b)
    \/ CeremonyExpires \/ TokenExpires \/ RotateChecks \/ RotateSets
    \/ PasskeyCrash \/ PasskeyStart

PasskeySpec == PasskeyInit /\ [][PasskeyNext]_passkeyVars

-----------------------------------------------------------------------------
(* What a browser was told of a passkey is what the hub has and what it will *)
(* have when it starts again: also after a rename or a deletion that failed, *)
(* after a registration that failed while others go on, and after a crash    *)
(* (passkey.go:178-275).  Only a passkey of which nobody was     *)
(* told since may be there or not.                                           *)
PasskeyAnswersSurvive ==
    \A k \in Credentials :
        promised[k] # Unknown => file[k] = promised[k] /\ (up => memory[k] = promised[k])

(* Once a first passkey is registered the hub always has one, whatever is    *)
(* deleted by whom at the same time, whatever save fails and whenever the    *)
(* hub starts again: nobody needs a bootstrap token that is not to be had    *)
(* any more (passkey.go:203-233, 353-364).                                   *)
KeepsAPasskey ==
    registered => Stored(file) # {} /\ (up => HasCredentials)
=============================================================================
