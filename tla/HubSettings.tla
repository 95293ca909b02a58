------------------------------ MODULE HubSettings ------------------------------
(***************************************************************************)
(* What browsers leave with the hub: their push subscriptions and the      *)
(* preferences (pkg/webpush, pkg/preferences, pkg/server/server.go).  The  *)
(* subscriptions' file is replaced atomically and read back; the           *)
(* preferences' file is overwritten in place, and what browsers see of     *)
(* them is a second copy in the canonical projection.                      *)
(***************************************************************************)
EXTENDS Integers

CONSTANTS
    Endpoints,      \* push subscriptions
    Putters,        \* requests that put preferences
    Values,         \* preferences
    Default,        \* the preferences of a new hub
    Missing,        \* there is no preferences file
    Torn,           \* the preferences file was not written to its end
    NoStore,        \* the hub runs without a preferences store
    Untold,         \* nobody was told what became of a subscription
    MaxTroubles     \* bound: crashes and writes that fail

ASSUME HubSettingsAssumption ==
    /\ Default \in Values
    /\ {Missing, Torn, NoStore} \cap Values = {}
    /\ Missing # Torn
    /\ Untold \notin BOOLEAN
    /\ MaxTroubles \in Nat

VARIABLES
    hubRuns,        \* the hub runs
    subscriptions,  \* webpush.Store.subscriptions
    subsFile,       \* push-subscriptions.json
    told,           \* history: what the last answer said of each endpoint
    returning,      \* history: endpoints reported gone and still in the file
    sending,        \* the sender's copy: endpoints it has still to send to
    prefs,          \* preferences.Store.data
    prefsFile,      \* preferences.json
    shownPrefs,     \* the preferences of the canonical projection
    putting,        \* what each writer has stored and not yet shown
    disturbed,      \* history: the last writers overlapped, or one failed
    troubles        \* counts crashes and writes that fail

pushVars == <<subscriptions, subsFile, told, returning, sending>>
prefVars == <<prefs, prefsFile, shownPrefs, putting, disturbed>>
settingVars == <<hubRuns, pushVars, prefVars, troubles>>

SettingsTypeOK ==
    /\ hubRuns \in BOOLEAN /\ disturbed \in BOOLEAN
    /\ subscriptions \subseteq Endpoints /\ subsFile \subseteq Endpoints
    /\ told \in [Endpoints -> BOOLEAN \cup {Untold}]
    /\ returning \subseteq subsFile /\ sending \subseteq Endpoints
    /\ prefs \in Values \cup {NoStore}
    /\ prefsFile \in Values \cup {Missing, Torn}
    /\ shownPrefs \in Values \cup {NoStore}
    /\ putting \in [Putters -> Values \cup {NoStore}]
    /\ troubles \in 0 .. MaxTroubles

Trouble == troubles < MaxTroubles /\ troubles' = troubles + 1

-----------------------------------------------------------------------------
(* Push subscriptions *)

(* Add and Remove write the file and then the map.  The write may fail       *)
(* before the file is replaced, or after it, when the directory is synced.   *)
Change(e, next, present) ==
    /\ \/ /\ subsFile' = next /\ subscriptions' = next
          /\ told' = [told EXCEPT ![e] = present]
          /\ UNCHANGED troubles
       \/ /\ Trouble
          /\ subsFile' \in {subsFile, next}
          /\ told' = [told EXCEPT ![e] = Untold]
          /\ UNCHANGED subscriptions
    /\ returning' = (returning \ {e}) \cap subsFile'

Subscribe(e) ==
    /\ hubRuns
    /\ Change(e, subscriptions \cup {e}, TRUE)
    /\ UNCHANGED <<hubRuns, sending, prefVars>>

(* Of an endpoint that the map does not have the browser is told that it is  *)
(* gone, and the file is not looked at.                                      *)
Unsubscribe(e) ==
    /\ hubRuns
    /\ IF e \in subscriptions THEN Change(e, subscriptions \ {e}, FALSE)
       ELSE /\ told' = [told EXCEPT ![e] = FALSE]
            /\ returning' = returning \cup ({e} \cap subsFile)
            /\ UNCHANGED <<subsFile, subscriptions, troubles>>
    /\ UNCHANGED <<hubRuns, sending, prefVars>>

(* sendAll works on a copy; statusEnabled has found a store to ask.          *)
SenderTakes ==
    /\ hubRuns /\ prefs # NoStore /\ sending = {}
    /\ sending' = subscriptions
    /\ UNCHANGED <<hubRuns, subscriptions, subsFile, told, returning, prefVars, troubles>>

Sends(e) ==
    /\ hubRuns /\ e \in sending
    /\ sending' = sending \ {e}
    /\ UNCHANGED <<hubRuns, subscriptions, subsFile, told, returning, prefVars, troubles>>

(* The send fails and the answer says that the endpoint is gone.             *)
SendGone(e) ==
    /\ hubRuns /\ e \in sending
    /\ sending' = sending \ {e}
    /\ IF e \in subscriptions THEN Change(e, subscriptions \ {e}, FALSE)
       ELSE UNCHANGED <<subsFile, subscriptions, told, returning, troubles>>
    /\ UNCHANGED <<hubRuns, prefVars>>

-----------------------------------------------------------------------------
(* Preferences *)

(* Somebody else has stored preferences and has not shown them yet.          *)
Overlaps(w) == \E o \in Putters \ {w} : putting[o] # NoStore

(* Update changes the store in memory, whether or not the file follows.      *)
PutPreferences(w, v) ==
    /\ hubRuns /\ prefs # NoStore /\ putting[w] = NoStore
    /\ prefs' = v
    /\ \/ /\ prefsFile' = v
          /\ putting' = [putting EXCEPT ![w] = v]
          /\ disturbed' = Overlaps(w)
          /\ UNCHANGED troubles
       \/ /\ Trouble
          /\ prefsFile' \in {prefsFile, Torn}
          /\ disturbed' = TRUE
          /\ UNCHANGED putting
    /\ UNCHANGED <<hubRuns, pushVars, shownPrefs>>

(* SetMetadata: what was stored is committed to the projection.              *)
ShowPreferences(w) ==
    /\ hubRuns /\ putting[w] # NoStore
    /\ shownPrefs' = putting[w]
    /\ putting' = [putting EXCEPT ![w] = NoStore]
    /\ UNCHANGED <<hubRuns, pushVars, prefs, prefsFile, disturbed, troubles>>

(* The request's context ends before the commit.                             *)
ShowFails(w) ==
    /\ hubRuns /\ putting[w] # NoStore
    /\ Trouble
    /\ putting' = [putting EXCEPT ![w] = NoStore]
    /\ disturbed' = TRUE
    /\ UNCHANGED <<hubRuns, pushVars, prefs, prefsFile, shownPrefs>>

-----------------------------------------------------------------------------
(* The hub *)

Stops ==
    /\ hubRuns' = FALSE
    /\ subscriptions' = {} /\ sending' = {}
    /\ prefs' = NoStore /\ shownPrefs' = NoStore
    /\ putting' = [w \in Putters |-> NoStore]
    /\ disturbed' = FALSE

(* A crash may come while the preferences are written, never while the       *)
(* subscriptions are replaced.                                               *)
SettingsCrash ==
    /\ hubRuns
    /\ Trouble
    /\ prefsFile' \in IF prefs = NoStore THEN {prefsFile} ELSE {prefsFile, Torn}
    /\ Stops
    /\ UNCHANGED <<subsFile, told, returning>>

(* The sender asks a store that is not there: an event ends the process.     *)
SenderPanics ==
    /\ hubRuns /\ prefs = NoStore
    /\ Trouble
    /\ Stops
    /\ UNCHANGED <<subsFile, told, returning, prefsFile>>

Loaded ==
    CASE prefsFile = Missing -> Default
      [] prefsFile = Torn -> NoStore
      [] OTHER -> prefsFile

(* Defect: the projection starts with the defaults.                          *)
SettingsStartDefault ==
    /\ ~hubRuns
    /\ hubRuns' = TRUE
    /\ subscriptions' = subsFile
    /\ prefs' = Loaded
    /\ shownPrefs' = Default
    /\ UNCHANGED <<subsFile, told, returning, sending, prefsFile, putting, disturbed, troubles>>

(* A file that cannot be read leaves the hub without a store; otherwise what *)
(* was loaded is shown.                                                      *)
SettingsStart ==
    /\ ~hubRuns
    /\ hubRuns' = TRUE
    /\ subscriptions' = subsFile
    /\ prefs' = Loaded
    /\ shownPrefs' = Loaded
    /\ UNCHANGED <<subsFile, told, returning, sending, prefsFile, putting, disturbed, troubles>>

SettingsInit ==
    /\ hubRuns = FALSE
    /\ subscriptions = {} /\ subsFile = {} /\ sending = {}
    /\ told = [e \in Endpoints |-> FALSE] /\ returning = {}
    /\ prefs = NoStore /\ prefsFile = Missing /\ shownPrefs = NoStore
    /\ putting = [w \in Putters |-> NoStore]
    /\ disturbed = FALSE
    /\ troubles = 0

SettingsNext ==
    \/ \E e \in Endpoints : Subscribe(e) \/ Unsubscribe(e) \/ Sends(e) \/ SendGone(e)
    \/ \E w \in Putters : ShowPreferences(w) \/ ShowFails(w) \/ \E v \in Values : PutPreferences(w, v)
    \/ SenderTakes \/ SenderPanics \/ SettingsCrash \/ SettingsStart

SettingsSpec == SettingsInit /\ [][SettingsNext]_settingVars

-----------------------------------------------------------------------------
(* A browser that was told it is subscribed is, in memory and in the file,   *)
(* until somebody changes that: a write that fails for one endpoint takes    *)
(* none of the others with it.  One that was told it is gone is in neither,  *)
(* but for the case in which the file had it and memory did not, after a     *)
(* write that failed when the file had been replaced (subscriptions.go:75-106 *)
(* and 129-182, server.go:601-624).                                          *)
SubscriptionsSurvive ==
    \A e \in Endpoints :
        /\ told[e] = TRUE => e \in subsFile /\ (hubRuns => e \in subscriptions)
        /\ told[e] = FALSE /\ e \notin returning => e \notin subsFile \cup subscriptions

(* Once a browser's preferences were put by a writer alone, and nothing      *)
(* failed, the hub goes by them, browsers see them and the file has them for *)
(* the next start, whatever overlapped, failed or broke off before: only     *)
(* writers that overlap, and a write or a publication that failed, leave the *)
(* three apart, until somebody puts preferences again or the hub restarts    *)
(* (server.go:639-659, preferences.go:127-150).                              *)
PreferencesShown ==
    (hubRuns /\ ~disturbed /\ \A w \in Putters : putting[w] = NoStore) =>
        shownPrefs = prefs /\ prefs = Loaded
=============================================================================
