---------------------------- MODULE HubPartsProofs ----------------------------
(***************************************************************************)
(* Proofs about the parts of a hub, and of an agent, that share no         *)
(* variable (MCHubParts): for each the inductive invariant that its        *)
(* promises rest on, those of passkeys and pairing being proved in         *)
(* PasskeysProofs and PairingProofs; and, at the end, that a hub made of   *)
(* all of them keeps what each of them promises.                           *)
(***************************************************************************)
EXTENDS MCHubParts, PasskeysProofs, PairingProofs, SequenceTheorems

-----------------------------------------------------------------------------
(* The events of tools                                                      *)

(* The event e is the newest of its pane's between the tracker's mutex and  *)
(* the projection.                                                          *)
Newest(p, e) ==
    \/ \E i \in DOMAIN unsent :
         /\ unsent[i].event = e /\ e.pane = p
         /\ \A j \in DOMAIN unsent : j > i => unsent[j].event.pane # p
    \/ /\ \A j \in DOMAIN unsent : unsent[j].event.pane # p
       /\ \E i \in DOMAIN channel :
            /\ channel[i] = e /\ e.pane = p
            /\ \A j \in DOMAIN channel : j > i => channel[j].pane # p

(* The tracker holds what waits, by its key, and the promoter only looks at *)
(* what came from the hub's own host.                                       *)
Keyed ==
    /\ \A k \in PaneKeys :
         events[k] # NoEvent => KeyOf(events[k]) = k /\ events[k].status = "waiting"
    /\ \A k \in PaneKeys : lastActive[k] # NoEvent => lastActive[k].host = "local"
    /\ \A e \in promoting : e.host = "local"

(* What browsers are shown of a pane is this event.                         *)
ShownAs(p, e) == shown[p, e.tool] = [status |-> e.status, auto |-> e.auto]

(* What the tracker holds is on its way to the projection, with nothing     *)
(* newer behind it, or has arrived.                                         *)
Told ==
    \A p \in Panes \ excused :
        LET e == events[<<"local", p>>] IN
        e # NoEvent => Newest(p, e) \/ (~ InFlight(p) /\ ShownAs(p, e))

ToolInv == ToolTypeOK /\ Keyed /\ Told

LEMMA Removed ==
    ASSUME NEW S, NEW s \in Seq(S), NEW i \in 1 .. Len(s)
    PROVE  /\ RemoveAt(s, i) \in Seq(S)
           /\ Len(RemoveAt(s, i)) = Len(s) - 1
           /\ \A j \in 1 .. Len(s) - 1 :
                RemoveAt(s, i)[j] = IF j < i THEN s[j] ELSE s[j + 1]
<1> DEFINE n == Len(s)
           a == SubSeq(s, 1, i - 1)
           b == SubSeq(s, i + 1, n)
<1>1. n \in Nat /\ i \in 1 .. n /\ \A j \in 1 .. n : s[j] \in S
  OBVIOUS
<1>2. RemoveAt(s, i) = a \o b
  BY DEF RemoveAt
<1>3. a \in Seq(S) /\ Len(a) = i - 1 /\ \A j \in 1 .. i - 1 : a[j] = s[j]
  <2> HIDE DEF n
  <2>1. 1 \in Int /\ i - 1 \in Int /\ \A j \in 1 .. i - 1 : s[j] \in S
    BY <1>1
  <2>2. /\ SubSeq(s, 1, i - 1) \in Seq(S)
        /\ Len(SubSeq(s, 1, i - 1)) = IF 1 <= i - 1 THEN i - 1 - 1 + 1 ELSE 0
        /\ \A j \in 1 .. i - 1 - 1 + 1 : SubSeq(s, 1, i - 1)[j] = s[1 + j - 1]
    BY <2>1, SubSeqProperties
  <2>3. (IF 1 <= i - 1 THEN i - 1 - 1 + 1 ELSE 0) = i - 1 /\ i - 1 - 1 + 1 = i - 1
        /\ \A j \in 1 .. i - 1 : 1 + j - 1 = j
    BY <1>1
  <2>4. QED
    BY <2>2, <2>3
<1>4. b \in Seq(S) /\ Len(b) = n - i /\ \A j \in 1 .. n - i : b[j] = s[i + j]
  <2> HIDE DEF n
  <2>1. i + 1 \in Int /\ n \in Int /\ \A j \in i + 1 .. n : s[j] \in S
    BY <1>1
  <2>2. /\ SubSeq(s, i + 1, n) \in Seq(S)
        /\ Len(SubSeq(s, i + 1, n)) = IF i + 1 <= n THEN n - (i + 1) + 1 ELSE 0
        /\ \A j \in 1 .. n - (i + 1) + 1 : SubSeq(s, i + 1, n)[j] = s[i + 1 + j - 1]
    BY <2>1, SubSeqProperties
  <2>3. (IF i + 1 <= n THEN n - (i + 1) + 1 ELSE 0) = n - i /\ n - (i + 1) + 1 = n - i
        /\ \A j \in 1 .. n - i : i + 1 + j - 1 = i + j
    BY <1>1
  <2>4. ASSUME NEW j \in 1 .. n - i PROVE b[j] = s[i + j]
    <3>1. j \in 1 .. n - (i + 1) + 1
      BY <2>3
    <3>2. SubSeq(s, i + 1, n)[j] = s[i + 1 + j - 1]
      BY <2>2, <3>1
    <3>3. QED
      BY <2>3, <3>2
  <2>5. Len(b) = n - i
    BY <2>2, <2>3
  <2>6. QED
    BY <2>2, <2>4, <2>5
<1> HIDE DEF n, a, b
<1>5. /\ a \o b \in Seq(S) /\ Len(a \o b) = Len(a) + Len(b)
      /\ \A j \in 1 .. Len(a) + Len(b) :
           (a \o b)[j] = IF j <= Len(a) THEN a[j] ELSE b[j - Len(a)]
  BY <1>3, <1>4, ConcatProperties
<1>6. Len(a) + Len(b) = n - 1
  BY <1>1, <1>3, <1>4
<1>7. ASSUME NEW j \in 1 .. n - 1
      PROVE  (a \o b)[j] = IF j < i THEN s[j] ELSE s[j + 1]
  <2>1. (a \o b)[j] = IF j <= i - 1 THEN a[j] ELSE b[j - (i - 1)]
    BY <1>3, <1>5, <1>6
  <2>2. CASE j < i
    BY <1>1, <1>3, <2>1, <2>2
  <2>3. CASE j >= i
    <3>1. j - (i - 1) \in 1 .. n - i /\ i + (j - (i - 1)) = j + 1 /\ ~ (j <= i - 1)
      BY <1>1, <2>3
    <3>2. QED
      BY <1>1, <1>4, <2>1, <2>3, <3>1
  <2>4. j < i \/ j >= i
    BY <1>1
  <2>5. QED
    BY <2>2, <2>3, <2>4
<1>8. QED
  BY <1>2, <1>5, <1>6, <1>7 DEF n

LEMMA ToolInitInv == ToolInit => ToolInv
<1> SUFFICES ASSUME ToolInit PROVE ToolInv
  OBVIOUS
<1>1. unsent = <<>> /\ channel = <<>> /\ Len(unsent) = 0 /\ Len(channel) = 0
      /\ unsent \in Seq([by : Threads, event : Event]) /\ channel \in Seq(Event)
  BY DEF ToolInit
<1>2. ToolTypeOK
  BY <1>1, ToolEventsAssumption DEF ToolInit, ToolTypeOK
<1>3. Keyed
  BY DEF ToolInit, Keyed
<1>4. Told
  BY DEF ToolInit, Told, PaneKeys
<1>5. QED
  BY <1>2, <1>3, <1>4 DEF ToolInv

(* The queues, by their elements.                                           *)
LEMMA Queues ==
    ASSUME ToolInv
    PROVE  /\ unsent \in Seq([by : Threads, event : Event])
           /\ channel \in Seq(Event)
           /\ Len(unsent) \in Nat /\ DOMAIN unsent = 1 .. Len(unsent)
           /\ Len(channel) \in Nat /\ DOMAIN channel = 1 .. Len(channel)
           /\ \A i \in DOMAIN unsent : unsent[i].event \in Event
           /\ \A i \in DOMAIN channel : channel[i] \in Event
<1>1. unsent \in Seq([by : Threads, event : Event]) /\ channel \in Seq(Event)
  BY DEF ToolInv, ToolTypeOK
<1>2. \A i \in DOMAIN unsent : unsent[i] \in [by : Threads, event : Event]
  <2> DEFINE R == [by : Threads, event : Event]
  <2>1. unsent \in Seq(R)
    BY <1>1
  <2> HIDE DEF R
  <2>2. \A i \in DOMAIN unsent : unsent[i] \in R
    BY <2>1
  <2>3. QED
    BY <2>2 DEF R
<1>3. \A i \in DOMAIN unsent : unsent[i].event \in Event
  BY <1>2
<1>4. QED
  BY <1>1, <1>3

(* A record: what it is of becomes the newest of its pane, which is not     *)
(* excused any more, and what is on its way of the other panes stays so.    *)
LEMMA RecordKeeps ==
    ASSUME ToolInv, NEW t \in Threads, NEW e \in Event, Record(t, e),
           UNCHANGED <<channel, shown>>, e.host = "local" \/ e.status = "completed",
           promoting' \subseteq promoting
    PROVE  /\ events' \in [PaneKeys -> Event \cup {NoEvent}]
           /\ lastActive' \in [PaneKeys -> Event \cup {NoEvent}]
           /\ unsent' \in Seq([by : Threads, event : Event]) /\ Len(unsent') <= MaxUnsent
           /\ channel' \in Seq(Event) /\ Len(channel') <= ChannelCap
           /\ Keyed' /\ Told' /\ excused' \subseteq Panes
<1> DEFINE r == [by |-> t, event |-> e]
           n == Len(unsent)
<1>1. e.pane \in Panes /\ e.host \in {"local", "unset"} /\ KeyOf(e) \in PaneKeys
  BY DEF Event, KeyOf, PaneKeys
<1>2. n \in Nat /\ n < MaxUnsent /\ DOMAIN unsent = 1 .. n
      /\ r \in [by : Threads, event : Event]
  BY Queues DEF Record
<1>3. /\ unsent' \in Seq([by : Threads, event : Event]) /\ Len(unsent') = n + 1
      /\ DOMAIN unsent' = 1 .. n + 1
      /\ unsent'[n + 1] = r /\ \A j \in 1 .. n : unsent'[j] = unsent[j]
  BY <1>2, Queues DEF Record
<1>4. Len(unsent') <= MaxUnsent
  <2> HIDE DEF n
  <2>1. QED
    BY <1>2, <1>3, ToolEventsAssumption
<1>5. /\ events' \in [PaneKeys -> Event \cup {NoEvent}]
      /\ lastActive' \in [PaneKeys -> Event \cup {NoEvent}]
  BY DEF Record, ToolInv, ToolTypeOK
<1>6. \A k \in PaneKeys : k # KeyOf(e) => events'[k] = events[k]
  BY DEF Record, ToolInv, ToolTypeOK
<1>7. events'[KeyOf(e)] # NoEvent => events'[KeyOf(e)] = e /\ e.status = "waiting"
  BY <1>1 DEF Event, Statuses, Record, ToolInv, ToolTypeOK
<1>8. Keyed'
  <2>1. \A k \in PaneKeys :
          events'[k] # NoEvent => KeyOf(events'[k]) = k /\ events'[k].status = "waiting"
    BY <1>6, <1>7 DEF ToolInv, Keyed, KeyOf
  <2>2. \A k \in PaneKeys : lastActive'[k] # NoEvent => lastActive'[k].host = "local"
    BY <1>1 DEF Record, ToolInv, ToolTypeOK, Keyed
  <2>3. QED
    BY <2>1, <2>2 DEF ToolInv, Keyed, KeyOf
<1> HIDE DEF r, n
<1>9. ASSUME NEW p \in Panes, p \notin excused', NEW x, x # NoEvent, events'[<<"local", p>>] = x
      PROVE  Newest(p, x)' \/ (~ InFlight(p) /\ ShownAs(p, x))'
  <2>1. <<"local", p>> \in PaneKeys
    BY DEF PaneKeys
  <2>2. CASE p = e.pane
    <3>1. e.host = "local" /\ KeyOf(e) = <<"local", p>>
      BY <1>1, <1>9, <2>2 DEF KeyOf, Record
    <3>2. x = e
      BY <1>7, <1>9, <3>1
    <3>3. unsent'[n + 1].event = e /\ n + 1 \in DOMAIN unsent'
          /\ \A j \in DOMAIN unsent' : ~ (j > n + 1)
      BY <1>2, <1>3 DEF r
    <3>4. QED
      BY <2>2, <3>2, <3>3 DEF Newest
  <2>3. CASE p # e.pane
    <3>1. <<"local", p>> # KeyOf(e) /\ x = events[<<"local", p>>] /\ p \notin excused
      <4>1. <<"local", p>> # KeyOf(e)
        BY <2>3 DEF KeyOf
      <4>2. p \notin excused
        BY <1>9, <2>3 DEF Record
      <4>3. QED
        BY <1>6, <1>9, <2>1, <4>1, <4>2
    <3>2. unsent'[n + 1].event.pane # p
      BY <1>3, <2>3 DEF r
    <3>3. Newest(p, x) \/ (~ InFlight(p) /\ ShownAs(p, x))
      BY <1>9, <2>3, <3>1 DEF ToolInv, Told
    <3>4. CASE \E i \in DOMAIN unsent :
                 /\ unsent[i].event = x /\ x.pane = p
                 /\ \A j \in DOMAIN unsent : j > i => unsent[j].event.pane # p
      <4>1. PICK i \in 1 .. n :
                 /\ unsent[i].event = x /\ x.pane = p
                 /\ \A j \in 1 .. n : j > i => unsent[j].event.pane # p
        BY <1>2, <3>4
      <4>2. i \in 1 .. n + 1 /\ unsent'[i].event = x
        BY <1>2, <1>3, <4>1
      <4>3. ASSUME NEW j \in 1 .. n + 1, j > i PROVE unsent'[j].event.pane # p
        <5>1. j = n + 1 \/ j \in 1 .. n
          BY <1>2
        <5>2. QED
          BY <1>3, <3>2, <4>1, <4>3, <5>1
      <4>4. QED
        BY <1>3, <4>1, <4>2, <4>3 DEF Newest
    <3>5. CASE \A j \in DOMAIN unsent : unsent[j].event.pane # p
      <4>1. \A j \in DOMAIN unsent' : unsent'[j].event.pane # p
        <5>1. ASSUME NEW j \in 1 .. n + 1 PROVE unsent'[j].event.pane # p
          <6>1. j = n + 1 \/ j \in 1 .. n
            BY <1>2
          <6>2. QED
            BY <1>2, <1>3, <3>2, <3>5, <6>1
        <5>2. QED
          BY <1>3, <5>1
      <4>2. channel' = channel /\ shown' = shown
        OBVIOUS
      <4>3. CASE Newest(p, x)
        <5>1. PICK i \in DOMAIN channel :
                 /\ channel[i] = x /\ x.pane = p
                 /\ \A j \in DOMAIN channel : j > i => channel[j].pane # p
          BY <3>5, <4>3 DEF Newest
        <5>2. QED
          BY <4>1, <4>2, <5>1 DEF Newest
      <4>4. CASE ~ InFlight(p) /\ ShownAs(p, x)
        BY <4>1, <4>2, <4>4 DEF InFlight, ShownAs
      <4>5. QED
        BY <3>3, <4>3, <4>4
    <3>6. QED
      BY <3>3, <3>4, <3>5 DEF Newest, InFlight
  <2>4. QED
    BY <2>2, <2>3
<1>10. Told'
  BY <1>9 DEF Told, Newest, InFlight, ShownAs
<1>11. channel' \in Seq(Event) /\ Len(channel') <= ChannelCap
  BY DEF ToolInv, ToolTypeOK
<1>12. excused' \subseteq Panes
  BY <1>1 DEF Record, ToolInv, ToolTypeOK
<1>13. QED
  BY <1>3, <1>4, <1>5, <1>8, <1>10, <1>11, <1>12

(* A step that at most takes entries out of the tracker.                    *)
LEMMA TakesOut ==
    ASSUME ToolInv, UNCHANGED <<unsent, channel, shown>>, excused \subseteq excused',
           NEW E \in [PaneKeys -> Event \cup {NoEvent}], events' = E,
           \A k \in PaneKeys : E[k] \in {events[k], NoEvent}
    PROVE  /\ Told'
           /\ \A k \in PaneKeys :
                events'[k] # NoEvent => KeyOf(events'[k]) = k /\ events'[k].status = "waiting"
<1>1. \A p \in Panes : <<"local", p>> \in PaneKeys
  BY DEF PaneKeys
<1>2. \A k \in PaneKeys : events'[k] # NoEvent => events'[k] = events[k]
  OBVIOUS
<1>3. ASSUME NEW p \in Panes, p \notin excused', NEW x, x # NoEvent, events'[<<"local", p>>] = x
      PROVE  Newest(p, x)' \/ (~ InFlight(p) /\ ShownAs(p, x))'
  <2>1. x = events[<<"local", p>>] /\ p \in Panes \ excused
    BY <1>1, <1>2, <1>3
  <2>2. Newest(p, x) \/ (~ InFlight(p) /\ ShownAs(p, x))
    BY <1>3, <2>1 DEF ToolInv, Told
  <2>3. QED
    BY <2>2 DEF Newest, InFlight, ShownAs
<1>4. Told'
  BY <1>3 DEF Told, Newest, InFlight, ShownAs
<1>5. QED
  BY <1>2, <1>4 DEF ToolInv, Keyed, KeyOf

(* A broadcast keeps the order of a pane's events, or is excused.           *)
LEMMA BroadcastKeeps ==
    ASSUME ToolInv, NEW i \in DOMAIN unsent, Broadcast(i)
    PROVE  ToolInv'
<1> DEFINE e == unsent[i].event
           n == Len(unsent)
           m == Len(channel)
           R == [by : Threads, event : Event]
<1>1. /\ unsent \in Seq(R) /\ channel \in Seq(Event)
      /\ n \in Nat /\ DOMAIN unsent = 1 .. n /\ i \in 1 .. n /\ n <= MaxUnsent
      /\ m \in Nat /\ DOMAIN channel = 1 .. m /\ m <= ChannelCap
      /\ e \in Event /\ e.pane \in Panes
      /\ MaxUnsent \in Nat /\ ChannelCap \in Nat
  BY Queues, ToolEventsAssumption DEF ToolInv, ToolTypeOK, Event
<1>2. /\ unsent' \in Seq(R) /\ Len(unsent') = n - 1 /\ DOMAIN unsent' = 1 .. n - 1
      /\ \A j \in 1 .. n - 1 : unsent'[j] = IF j < i THEN unsent[j] ELSE unsent[j + 1]
  <2>1. unsent' = RemoveAt(unsent, i)
    BY DEF Broadcast
  <2>2. i \in 1 .. Len(unsent)
    BY <1>1
  <2> HIDE DEF R
  <2>3. /\ RemoveAt(unsent, i) \in Seq(R) /\ Len(RemoveAt(unsent, i)) = Len(unsent) - 1
        /\ \A j \in 1 .. Len(unsent) - 1 :
             RemoveAt(unsent, i)[j] = IF j < i THEN unsent[j] ELSE unsent[j + 1]
    BY <1>1, <2>2, Removed
  <2>4. unsent' \in Seq(R) /\ Len(unsent') = n - 1
    BY <2>1, <2>3
  <2>5. DOMAIN unsent' = 1 .. n - 1
    BY <2>4
  <2>6. QED
    BY <2>1, <2>3, <2>4, <2>5
<1>3. UNCHANGED <<agentIn, events, lastActive, shown, workVars, dismissing, turns>>
      /\ excused' \subseteq Panes /\ excused \subseteq excused'
  <2>1. excused' \in {excused, excused \cup {e.pane}}
    BY DEF Broadcast
  <2>2. UNCHANGED <<agentIn, events, lastActive, shown, workVars, dismissing, turns>>
    BY DEF Broadcast
  <2>3. QED
    BY <1>1, <2>1, <2>2 DEF ToolInv, ToolTypeOK
<1>4. \/ channel' = channel /\ e.pane \in excused'
      \/ m < ChannelCap /\ channel' = Append(channel, e)
         /\ (e.pane \notin excused' => \A j \in 1 .. i - 1 : unsent[j].event.pane # e.pane)
  <2>1. CASE Len(channel) >= ChannelCap
    BY <1>1, <2>1 DEF Broadcast
  <2>2. CASE ~ (Len(channel) >= ChannelCap)
    <3>1. m < ChannelCap
      BY <1>1, <2>2
    <3>2. channel' = Append(channel, e)
      BY <2>2 DEF Broadcast
    <3>3. (\E j \in 1 .. i - 1 : unsent[j].event.pane = e.pane) => e.pane \in excused'
      BY DEF Broadcast
    <3>4. QED
      BY <3>1, <3>2, <3>3
  <2>3. QED
    BY <2>1, <2>2
<1>5. channel' \in Seq(Event) /\ Len(channel') <= ChannelCap
  <2>1. CASE channel' = channel
    BY <1>1, <2>1
  <2>2. CASE m < ChannelCap /\ channel' = Append(channel, e)
    <3>1. Len(channel') = m + 1 /\ channel' \in Seq(Event)
      BY <1>1, <2>2
    <3> HIDE DEF m
    <3>2. m + 1 <= ChannelCap
      BY <1>1, <2>2
    <3>3. QED
      BY <3>1, <3>2
  <2>3. QED
    BY <1>4, <2>1, <2>2
<1> HIDE DEF n, m, e
<1>6. Len(unsent') <= MaxUnsent
  BY <1>1, <1>2
<1>7. ToolTypeOK'
  BY <1>2, <1>3, <1>5, <1>6 DEF ToolInv, ToolTypeOK, workVars, R
<1>8. Keyed'
  BY <1>3 DEF ToolInv, Keyed, workVars
<1>9. ASSUME NEW p \in Panes, p \notin excused', NEW x, x # NoEvent, events'[<<"local", p>>] = x
      PROVE  Newest(p, x)' \/ (~ InFlight(p) /\ ShownAs(p, x))'
  <2>1. p \notin excused /\ events[<<"local", p>>] = x
    BY <1>3, <1>9
  <2>2. Newest(p, x) \/ (~ InFlight(p) /\ ShownAs(p, x))
    BY <1>9, <2>1 DEF ToolInv, Told
  <2>3. ASSUME NEW j \in 1 .. n - 1
        PROVE  \E k \in 1 .. n : k # i /\ unsent'[j] = unsent[k] /\ (k = j \/ k = j + 1)
    <3>1. CASE j < i
      BY <1>1, <1>2, <3>1
    <3>2. CASE j >= i
      BY <1>1, <1>2, <3>2
    <3>3. QED
      BY <1>1, <3>1, <3>2
  <2>4. CASE p # e.pane
    <3>1. ASSUME \A k \in 1 .. n : unsent[k].event.pane # p
          PROVE  \A j \in DOMAIN unsent' : unsent'[j].event.pane # p
      BY <1>2, <2>3, <3>1
    <3>2. CASE \E k \in DOMAIN unsent :
                 /\ unsent[k].event = x /\ x.pane = p
                 /\ \A j \in DOMAIN unsent : j > k => unsent[j].event.pane # p
      <4>1. PICK k \in 1 .. n :
                 /\ unsent[k].event = x /\ x.pane = p
                 /\ \A j \in 1 .. n : j > k => unsent[j].event.pane # p
        BY <1>1, <3>2
      <4>2. k # i
        BY <2>4, <4>1 DEF e
      <4> DEFINE l == IF k < i THEN k ELSE k - 1
      <4>3. l \in 1 .. n - 1 /\ (l < i => l = k) /\ (~ (l < i) => l + 1 = k)
        BY <1>1, <4>2
      <4> HIDE DEF l
      <4>4. unsent'[l].event = x
        BY <1>2, <4>1, <4>3
      <4>5. ASSUME NEW j \in 1 .. n - 1, j > l PROVE unsent'[j].event.pane # p
        <5>1. CASE j < i
          <6>1. j \in 1 .. n /\ j > k /\ unsent'[j] = unsent[j]
            BY <1>1, <1>2, <4>3, <4>5, <5>1
          <6>2. QED
            BY <4>1, <6>1
        <5>2. CASE j >= i
          <6>1. j + 1 \in 1 .. n /\ j + 1 > k /\ unsent'[j] = unsent[j + 1]
            BY <1>1, <1>2, <4>3, <4>5, <5>2
          <6>2. QED
            BY <4>1, <6>1
        <5>3. j < i \/ j >= i
          BY <1>1
        <5>4. QED
          BY <5>1, <5>2, <5>3
      <4>6. QED
        BY <1>2, <4>1, <4>3, <4>4, <4>5 DEF Newest
    <3>3. CASE \A k \in DOMAIN unsent : unsent[k].event.pane # p
      <4>1. \A j \in DOMAIN unsent' : unsent'[j].event.pane # p
        BY <1>1, <3>1, <3>3
      <4>2. CASE channel' = channel
        BY <1>3, <2>2, <3>3, <4>1, <4>2 DEF Newest, InFlight, ShownAs
      <4>3. CASE channel' = Append(channel, e)
        <5>1. DOMAIN channel' = 1 .. m + 1 /\ channel'[m + 1] = e
              /\ \A j \in 1 .. m : channel'[j] = channel[j]
          BY <1>1, <4>3 DEF m
        <5>2. CASE Newest(p, x)
          <6>1. PICK k \in 1 .. m :
                   /\ channel[k] = x /\ x.pane = p
                   /\ \A j \in 1 .. m : j > k => channel[j].pane # p
            BY <1>1, <3>3, <5>2 DEF Newest
          <6>2. k \in 1 .. m + 1 /\ channel'[k] = x
            BY <1>1, <5>1, <6>1
          <6>3. ASSUME NEW j \in 1 .. m + 1, j > k PROVE channel'[j].pane # p
            <7>1. j = m + 1 \/ j \in 1 .. m
              BY <1>1
            <7>2. QED
              BY <2>4, <5>1, <6>1, <6>3, <7>1
          <6>4. QED
            BY <4>1, <5>1, <6>1, <6>2, <6>3 DEF Newest
        <5>3. CASE ~ InFlight(p) /\ ShownAs(p, x)
          <6>1. ASSUME NEW j \in 1 .. m + 1 PROVE channel'[j].pane # p
            <7>1. j = m + 1 \/ j \in 1 .. m
              BY <1>1
            <7>2. QED
              BY <1>1, <2>4, <5>1, <5>3, <7>1 DEF InFlight
          <6>2. QED
            BY <1>3, <4>1, <5>1, <5>3, <6>1 DEF InFlight, ShownAs
        <5>4. QED
          BY <2>2, <5>2, <5>3
      <4>4. QED
        BY <1>4, <4>2, <4>3
    <3>4. QED
      BY <2>2, <3>2, <3>3 DEF Newest, InFlight
  <2>5. CASE p = e.pane
    <3>1. channel' = Append(channel, e) /\ \A j \in 1 .. i - 1 : unsent[j].event.pane # p
      BY <1>4, <1>9, <2>5
    <3>2. DOMAIN channel' = 1 .. m + 1 /\ channel'[m + 1] = e
      BY <1>1, <3>1 DEF m
    <3>3. InFlight(p)
      BY <1>1, <2>5 DEF InFlight, e
    <3>4. PICK k \in 1 .. n :
                 /\ unsent[k].event = x /\ x.pane = p
                 /\ \A j \in 1 .. n : j > k => unsent[j].event.pane # p
      BY <1>1, <2>2, <2>5, <3>3 DEF Newest, e
    <3>5. k >= i
      BY <1>1, <2>5, <3>4 DEF e
    <3>6. CASE k = i
      <4>1. x = e
        BY <3>4, <3>6 DEF e
      <4>2. ASSUME NEW j \in 1 .. n - 1 PROVE unsent'[j].event.pane # p
        <5>1. CASE j < i
          <6>1. j \in 1 .. i - 1 /\ unsent'[j] = unsent[j]
            BY <1>1, <1>2, <5>1
          <6>2. QED
            BY <3>1, <6>1
        <5>2. CASE j >= i
          <6>1. j + 1 \in 1 .. n /\ j + 1 > k /\ unsent'[j] = unsent[j + 1]
            BY <1>1, <1>2, <3>6, <5>2
          <6>2. QED
            BY <3>4, <6>1
        <5>3. j < i \/ j >= i
          BY <1>1
        <5>4. QED
          BY <5>1, <5>2, <5>3
      <4>3. m + 1 \in 1 .. m + 1 /\ \A j \in 1 .. m + 1 : ~ (j > m + 1)
        BY <1>1
      <4>4. QED
        BY <1>2, <3>2, <3>4, <4>1, <4>2, <4>3 DEF Newest
    <3>7. CASE k > i
      <4>1. k - 1 \in 1 .. n - 1 /\ ~ (k - 1 < i) /\ k - 1 + 1 = k
        BY <1>1, <3>7
      <4>2. unsent'[k - 1].event = x
        BY <1>2, <3>4, <4>1
      <4>3. ASSUME NEW j \in 1 .. n - 1, j > k - 1 PROVE unsent'[j].event.pane # p
        <5>1. j + 1 \in 1 .. n /\ j + 1 > k /\ unsent'[j] = unsent[j + 1]
          BY <1>1, <1>2, <3>7, <4>3
        <5>2. QED
          BY <3>4, <5>1
      <4>4. QED
        BY <1>2, <3>4, <4>1, <4>2, <4>3 DEF Newest
    <3>8. QED
      BY <1>1, <3>5, <3>6, <3>7
  <2>6. QED
    BY <2>4, <2>5
<1>10. Told'
  BY <1>9 DEF Told, Newest, InFlight, ShownAs
<1>11. QED
  BY <1>7, <1>8, <1>10 DEF ToolInv


LEMMA ApplyKeeps ==
    ASSUME ToolInv, ApplyToolEvent
    PROVE  ToolInv'
<1> DEFINE e == Head(channel)
           m == Len(channel)
<1>1. /\ channel \in Seq(Event) /\ channel # <<>>
      /\ m \in Nat /\ m >= 1 /\ DOMAIN channel = 1 .. m /\ m <= ChannelCap /\ ChannelCap \in Nat
      /\ e = channel[1] /\ e \in Event
      /\ channel' = Tail(channel)
  BY Queues, ToolEventsAssumption DEF ApplyToolEvent, ToolInv, ToolTypeOK
<1>2. /\ channel' \in Seq(Event) /\ Len(channel') = m - 1 /\ DOMAIN channel' = 1 .. m - 1
      /\ \A j \in 1 .. m - 1 : channel'[j] = channel[j + 1]
  BY <1>1, HeadTailProperties
<1>3. <<e.pane, e.tool>> \in Panes \X Tools /\ [status |-> e.status, auto |-> e.auto] \in Shown
  BY <1>1 DEF Event, Shown
<1>4. /\ shown' \in [Panes \X Tools -> Shown \cup {NoEvent}]
      /\ \A pt \in Panes \X Tools : pt # <<e.pane, e.tool>> => shown'[pt] = shown[pt]
      /\ e.status = "waiting" =>
           shown'[<<e.pane, e.tool>>] = [status |-> e.status, auto |-> e.auto]
  BY <1>3 DEF ApplyToolEvent, ToolInv, ToolTypeOK
<1>5. UNCHANGED <<agentIn, recordVars, workVars, dismissing, turns>>
  BY DEF ApplyToolEvent
<1> HIDE DEF e, m
<1>6. ToolTypeOK'
  BY <1>1, <1>2, <1>4, <1>5 DEF ToolInv, ToolTypeOK, recordVars, workVars
<1>7. Keyed'
  BY <1>5 DEF ToolInv, Keyed, recordVars, workVars
<1>8. ASSUME NEW p \in Panes, p \notin excused', NEW x, x # NoEvent, events'[<<"local", p>>] = x
      PROVE  Newest(p, x)' \/ (~ InFlight(p) /\ ShownAs(p, x))'
  <2>1. p \notin excused /\ events[<<"local", p>>] = x /\ unsent' = unsent
    BY <1>5, <1>8 DEF recordVars
  <2>2. Newest(p, x) \/ (~ InFlight(p) /\ ShownAs(p, x))
    BY <1>8, <2>1 DEF ToolInv, Told
  <2>3. <<"local", p>> \in PaneKeys
    BY DEF PaneKeys
  <2>4. x \in Event /\ x.status = "waiting"
    BY <1>8, <2>1, <2>3 DEF ToolInv, ToolTypeOK, Keyed
  <2>5. x.tool \in Tools
    BY <2>4 DEF Event
  <2>6. CASE \A j \in DOMAIN unsent : unsent[j].event.pane # p
    <3>1. \A j \in DOMAIN unsent' : unsent'[j].event.pane # p
      BY <2>1, <2>6
    <3>2. CASE Newest(p, x)
      <4>1. PICK k \in 1 .. m :
               /\ channel[k] = x /\ x.pane = p
               /\ \A j \in 1 .. m : j > k => channel[j].pane # p
        BY <1>1, <2>6, <3>2 DEF Newest
      <4>2. CASE k = 1
        <5>1. x = e /\ e.pane = p
          BY <1>1, <4>1, <4>2
        <5>2. ShownAs(p, x)'
          BY <1>4, <2>4, <5>1 DEF ShownAs
        <5>3. ASSUME NEW j \in 1 .. m - 1 PROVE channel'[j].pane # p
          <6>1. j + 1 \in 1 .. m /\ j + 1 > k
            BY <1>1, <4>2
          <6>2. QED
            BY <1>2, <4>1, <6>1
        <5>4. QED
          BY <1>2, <3>1, <5>2, <5>3 DEF InFlight
      <4>3. CASE k > 1
        <5>1. k - 1 \in 1 .. m - 1 /\ k - 1 + 1 = k
          BY <1>1, <4>3
        <5>2. channel'[k - 1] = x
          BY <1>2, <4>1, <5>1
        <5>3. ASSUME NEW j \in 1 .. m - 1, j > k - 1 PROVE channel'[j].pane # p
          <6>1. j + 1 \in 1 .. m /\ j + 1 > k
            BY <1>1, <5>3
          <6>2. QED
            BY <1>2, <4>1, <6>1
        <5>4. QED
          BY <1>2, <3>1, <4>1, <5>1, <5>2, <5>3 DEF Newest
      <4>4. QED
        BY <1>1, <4>2, <4>3
    <3>3. CASE ~ InFlight(p) /\ ShownAs(p, x)
      <4>1. \A j \in 1 .. m : channel[j].pane # p
        BY <1>1, <3>3 DEF InFlight
      <4>2. 1 \in 1 .. m
        BY <1>1
      <4>3. e.pane # p
        BY <1>1, <4>1, <4>2
      <4>4. <<p, x.tool>> # <<e.pane, e.tool>> /\ <<p, x.tool>> \in Panes \X Tools
        BY <2>5, <4>3
      <4>5. ShownAs(p, x)'
        BY <1>4, <3>3, <4>4 DEF ShownAs
      <4>6. ASSUME NEW j \in 1 .. m - 1 PROVE channel'[j].pane # p
        <5>1. j + 1 \in 1 .. m
          BY <1>1
        <5>2. QED
          BY <1>2, <4>1, <5>1
      <4>7. QED
        BY <1>2, <3>1, <4>5, <4>6 DEF InFlight
    <3>4. QED
      BY <2>2, <3>2, <3>3
  <2>7. QED
    BY <2>1, <2>2, <2>6 DEF Newest, InFlight
<1>9. Told'
  BY <1>8 DEF Told, Newest, InFlight, ShownAs
<1>10. QED
  BY <1>6, <1>7, <1>9 DEF ToolInv

(* A dismissal of what the tracker still holds is excused.                  *)
LEMMA DismissShownKeeps ==
    ASSUME ToolInv, DismissShown
    PROVE  ToolInv'
<1>1. UNCHANGED <<agentIn, events, lastActive, unsent, channel, workVars, turns>>
      /\ dismissing' = {}
  BY DEF DismissShown
<1>2. excused' \subseteq Panes /\ excused \subseteq excused'
  BY DEF DismissShown, ToolInv, ToolTypeOK
<1>3. shown' \in [Panes \X Tools -> Shown \cup {NoEvent}]
  BY DEF DismissShown, ToolInv, ToolTypeOK
<1>4. ToolTypeOK'
  BY <1>1, <1>2, <1>3 DEF ToolInv, ToolTypeOK, workVars
<1>5. Keyed'
  BY <1>1 DEF ToolInv, Keyed, workVars
<1>6. ASSUME NEW p \in Panes, p \notin excused', NEW x, x # NoEvent, events'[<<"local", p>>] = x
      PROVE  Newest(p, x)' \/ (~ InFlight(p) /\ ShownAs(p, x))'
  <2>1. p \notin excused /\ events[<<"local", p>>] = x /\ unsent' = unsent /\ channel' = channel
    BY <1>1, <1>2, <1>6
  <2>2. p \notin dismissing
    BY <1>6, <2>1 DEF DismissShown
  <2>3. Newest(p, x) \/ (~ InFlight(p) /\ ShownAs(p, x))
    BY <1>6, <2>1 DEF ToolInv, Told
  <2>4. <<"local", p>> \in PaneKeys
    BY DEF PaneKeys
  <2>5. x \in Event
    BY <1>6, <2>1, <2>4 DEF ToolInv, ToolTypeOK
  <2>6. <<p, x.tool>> \in Panes \X Tools
    BY <2>5 DEF Event
  <2>7. shown'[<<p, x.tool>>] = shown[<<p, x.tool>>]
    BY <2>2, <2>6 DEF DismissShown
  <2>8. QED
    BY <2>1, <2>3, <2>7 DEF Newest, InFlight, ShownAs
<1>7. Told'
  BY <1>6 DEF Told, Newest, InFlight, ShownAs
<1>8. QED
  BY <1>4, <1>5, <1>7 DEF ToolInv

LEMMA HooksKeep ==
    ASSUME ToolInv, NEW p \in Panes, Hooks(p)
    PROVE  ToolInv'
<1>1. CASE AgentStarts(p) \/ AgentEnds(p)
  <2>1. UNCHANGED <<recordVars, shownVars, workVars, dismissing>>
    BY <1>1 DEF AgentStarts, AgentEnds
  <2>2. agentIn' \in [Panes -> Tools \cup {Nobody}]
    BY <1>1 DEF AgentStarts, AgentEnds, ToolInv, ToolTypeOK
  <2>3. turns' \in 0 .. MaxTurns
    BY <1>1, ToolEventsAssumption DEF AgentStarts, AgentEnds, ToolInv, ToolTypeOK
  <2>4. ToolTypeOK'
    BY <2>1, <2>2, <2>3 DEF ToolInv, ToolTypeOK, recordVars, shownVars, workVars
  <2>5. events' = events /\ events \in [PaneKeys -> Event \cup {NoEvent}]
    BY <2>1 DEF ToolInv, ToolTypeOK, recordVars
  <2>6. Told' /\ Keyed'
    BY <2>1, <2>5, TakesOut DEF ToolInv, Keyed, recordVars, shownVars, workVars
  <2>7. QED
    BY <2>4, <2>6 DEF ToolInv
<1>2. ASSUME NEW s \in Statuses, localToolEventHandler(p, s) PROVE ToolInv'
  <2> DEFINE e == [tool |-> agentIn[p], status |-> s, host |-> "local",
                   pane |-> p, auto |-> FALSE]
  <2>1. e \in Event /\ p \in Threads
    BY <1>2 DEF localToolEventHandler, Event, Threads, ToolInv, ToolTypeOK
  <2>2. Record(p, e) /\ UNCHANGED <<agentIn, shownVars, workVars, dismissing>>
    BY <1>2 DEF localToolEventHandler
  <2>3. turns' \in 0 .. MaxTurns
    BY <1>2, ToolEventsAssumption DEF localToolEventHandler, ToolInv, ToolTypeOK
  <2>4. e.host = "local" /\ UNCHANGED <<channel, shown>> /\ promoting' \subseteq promoting
    BY <2>2 DEF shownVars, workVars
  <2> HIDE DEF e
  <2>5. /\ events' \in [PaneKeys -> Event \cup {NoEvent}]
        /\ lastActive' \in [PaneKeys -> Event \cup {NoEvent}]
        /\ unsent' \in Seq([by : Threads, event : Event]) /\ Len(unsent') <= MaxUnsent
        /\ channel' \in Seq(Event) /\ Len(channel') <= ChannelCap
        /\ Keyed' /\ Told' /\ excused' \subseteq Panes
    BY <2>1, <2>2, <2>4, RecordKeeps
  <2>6. ToolTypeOK'
    BY <2>2, <2>3, <2>5 DEF ToolInv, ToolTypeOK, shownVars, workVars
  <2>7. QED
    BY <2>5, <2>6 DEF ToolInv
<1>3. QED
  BY <1>1, <1>2 DEF Hooks

(* A step of a goroutine that records nothing.                              *)
LEMMA NothingRecorded ==
    ASSUME ToolInv, NEW E \in [PaneKeys -> Event \cup {NoEvent}], events' = E,
           \A k \in PaneKeys : E[k] \in {events[k], NoEvent},
           UNCHANGED <<agentIn, lastActive, unsent, shownVars, excused, turns>>,
           reconciling' \subseteq Event, promoting' \subseteq promoting,
           detecting' \in [todo : SUBSET Panes, skip : SUBSET Panes, found : SUBSET Panes,
                           on : BOOLEAN],
           seen' \in [Panes -> Tools \cup {Nobody}],
           monitored' \in [Panes -> Monitored \cup {NoEvent}],
           checking' \subseteq Panes, prompting' \subseteq Panes, dismissing' \subseteq Panes
    PROVE  ToolInv'
<1>1. Told' /\ \A k \in PaneKeys :
                  events'[k] # NoEvent => KeyOf(events'[k]) = k /\ events'[k].status = "waiting"
  BY TakesOut DEF shownVars
<1>2. Keyed'
  BY <1>1 DEF ToolInv, Keyed, KeyOf
<1>3. ToolTypeOK'
  BY DEF ToolInv, ToolTypeOK, shownVars
<1>4. QED
  BY <1>1, <1>2, <1>3 DEF ToolInv

LEMMA GetAllTakesOut ==
    ASSUME ToolInv, NEW stale, GetAll(stale)
    PROVE  /\ events' \in [PaneKeys -> Event \cup {NoEvent}]
           /\ \A k \in PaneKeys : events'[k] \in {events[k], NoEvent}
BY DEF GetAll, ToolInv, ToolTypeOK

LEMMA ReconcileKeep ==
    ASSUME ToolInv, Reconcile
    PROVE  ToolInv'
<1> USE DEF recordVars, shownVars
<1>1. CASE ReconcileBegins
  <2>1. PICK stale \in SUBSET Tracked(events) : GetAll(stale)
    BY <1>1 DEF ReconcileBegins
  <2>2. /\ events' \in [PaneKeys -> Event \cup {NoEvent}]
        /\ \A k \in PaneKeys : events'[k] \in {events[k], NoEvent}
    BY <2>1, GetAllTakesOut
  <2>3. reconciling' \subseteq Event
    BY <1>1, <2>2 DEF ReconcileBegins, Tracked
  <2>4. QED
    BY <1>1, <2>2, <2>3, NothingRecorded DEF ReconcileBegins, ToolInv, ToolTypeOK
<1>2. ASSUME NEW e \in reconciling, ReconcileKeeps(e) PROVE ToolInv'
  <2>1. events' = events /\ events \in [PaneKeys -> Event \cup {NoEvent}]
    BY <1>2 DEF ReconcileKeeps, ToolInv, ToolTypeOK
  <2>2. QED
    BY <1>2, <2>1, NothingRecorded DEF ReconcileKeeps, ToolInv, ToolTypeOK
<1>3. ASSUME NEW e \in reconciling, ReconcileClears(e) PROVE ToolInv'
  <2> DEFINE c == [e EXCEPT !.status = "completed", !.host = "unset", !.auto = FALSE]
  <2>1. e \in Event
    BY DEF ToolInv, ToolTypeOK
  <2>2. c \in Event /\ c.status = "completed"
    BY <2>1 DEF Event, Statuses
  <2>3. /\ Record("reconciler", c) /\ "reconciler" \in Threads
        /\ UNCHANGED <<agentIn, shownVars, detecting, seen, monitored,
                       checking, prompting, promoting, dismissing>>
        /\ reconciling' \subseteq Event
    BY <1>3 DEF ReconcileClears, Threads, ToolInv, ToolTypeOK
  <2>4. turns' \in 0 .. MaxTurns
    BY <1>3, ToolEventsAssumption DEF ReconcileClears, ToolInv, ToolTypeOK
  <2>5. e.pane \in Panes
    BY <2>1 DEF Event
  <2> HIDE DEF c
  <2>6. /\ events' \in [PaneKeys -> Event \cup {NoEvent}]
        /\ lastActive' \in [PaneKeys -> Event \cup {NoEvent}]
        /\ unsent' \in Seq([by : Threads, event : Event]) /\ Len(unsent') <= MaxUnsent
        /\ channel' \in Seq(Event) /\ Len(channel') <= ChannelCap
        /\ Keyed' /\ Told' /\ excused' \subseteq Panes
    BY <2>2, <2>3, RecordKeeps
  <2>7. ToolTypeOK'
    BY <2>3, <2>4, <2>5, <2>6 DEF ToolInv, ToolTypeOK
  <2>8. QED
    BY <2>6, <2>7 DEF ToolInv
<1>4. QED
  BY <1>1, <1>2, <1>3 DEF Reconcile

LEMMA DetectKeep ==
    ASSUME ToolInv, Detect
    PROVE  ToolInv'
<1> USE DEF recordVars, shownVars
<1> DEFINE Passes == [todo : SUBSET Panes, skip : SUBSET Panes, found : SUBSET Panes,
                      on : BOOLEAN]
<1>1. detecting \in Passes /\ seen \in [Panes -> Tools \cup {Nobody}]
      /\ events \in [PaneKeys -> Event \cup {NoEvent}]
  BY DEF ToolInv, ToolTypeOK
<1>2. CASE DetectBegins
  <2>1. PICK stale \in SUBSET Tracked(events) : GetAll(stale)
    BY <1>2 DEF DetectBegins
  <2>2. /\ events' \in [PaneKeys -> Event \cup {NoEvent}]
        /\ \A k \in PaneKeys : events'[k] \in {events[k], NoEvent}
    BY <2>1, GetAllTakesOut
  <2>3. detecting' \in Passes
    BY <1>2 DEF DetectBegins
  <2>4. QED
    BY <1>2, <2>2, <2>3, NothingRecorded DEF DetectBegins, ToolInv, ToolTypeOK
<1>3. ASSUME NEW p \in Panes, DetectNothing(p) PROVE ToolInv'
  <2>1. detecting' \in Passes
    BY <1>1, <1>3 DEF DetectNothing
  <2>2. QED
    BY <1>1, <1>3, <2>1, NothingRecorded DEF DetectNothing, ToolInv, ToolTypeOK
<1>4. CASE DetectEnds
  <2>1. detecting' \in Passes /\ seen' \in [Panes -> Tools \cup {Nobody}]
    BY <1>1, <1>4 DEF DetectEnds
  <2>2. QED
    BY <1>1, <1>4, <2>1, NothingRecorded DEF DetectEnds, ToolInv, ToolTypeOK
<1>5. ASSUME NEW p \in Panes, DetectAgent(p) PROVE ToolInv'
  <2> DEFINE e == [tool |-> agentIn[p], status |-> "active", host |-> "local",
                   pane |-> p, auto |-> TRUE]
  <2>1. detecting' \in Passes
    BY <1>1, <1>5 DEF DetectAgent
  <2>2. agentIn[p] \in Tools
    BY <1>5 DEF DetectAgent, Skipped, ToolInv, ToolTypeOK
  <2>3. seen' \in [Panes -> Tools \cup {Nobody}]
    BY <1>1, <1>5, <2>2 DEF DetectAgent
  <2>4. UNCHANGED <<agentIn, shownVars, reconciling, monitored, checking, prompting,
                    promoting, dismissing, turns>>
    BY <1>5 DEF DetectAgent
  <2>5. CASE UNCHANGED recordVars
    BY <1>1, <2>1, <2>3, <2>4, <2>5, NothingRecorded DEF ToolInv, ToolTypeOK
  <2>6. CASE Record("detector", e)
    <3>1. e \in Event /\ e.host = "local" /\ "detector" \in Threads
      BY <2>2 DEF Event, Statuses, Threads
    <3> HIDE DEF e
    <3>2. /\ events' \in [PaneKeys -> Event \cup {NoEvent}]
          /\ lastActive' \in [PaneKeys -> Event \cup {NoEvent}]
          /\ unsent' \in Seq([by : Threads, event : Event]) /\ Len(unsent') <= MaxUnsent
          /\ channel' \in Seq(Event) /\ Len(channel') <= ChannelCap
          /\ Keyed' /\ Told' /\ excused' \subseteq Panes
      BY <2>4, <2>6, <3>1, RecordKeeps
    <3>3. ToolTypeOK'
      BY <2>1, <2>3, <2>4, <3>2 DEF ToolInv, ToolTypeOK
    <3>4. QED
      BY <3>2, <3>3 DEF ToolInv
  <2>7. QED
    BY <1>5, <2>5, <2>6 DEF DetectAgent
<1>6. QED
  BY <1>2, <1>3, <1>4, <1>5 DEF Detect

LEMMA SilenceKeep ==
    ASSUME ToolInv, Silence
    PROVE  ToolInv'
<1> USE DEF recordVars, shownVars
<1>1. /\ monitored \in [Panes -> Monitored \cup {NoEvent}] /\ MaxChecks \in Nat
      /\ events \in [PaneKeys -> Event \cup {NoEvent}]
  BY ToolEventsAssumption DEF ToolInv, ToolTypeOK
<1>2. CASE SilenceTick
  <2>1. Synced \in [Panes -> Monitored \cup {NoEvent}]
    BY <1>1 DEF Synced, Monitored, ToolInv, ToolTypeOK
  <2>2. PICK quiet \in SUBSET {p \in Panes : Synced[p] # NoEvent} :
          LET targets == {p \in quiet : ~Synced[p].prompted /\ Synced[p].checks < MaxChecks} IN
          /\ checking' = targets
          /\ monitored' = [p \in Panes |->
                             IF p \in targets THEN [Synced[p] EXCEPT !.checks = @ + 1]
                             ELSE Synced[p]]
    BY <1>2 DEF SilenceTick
  <2>3. ASSUME NEW p \in quiet, Synced[p].checks < MaxChecks
        PROVE  [Synced[p] EXCEPT !.checks = @ + 1] \in Monitored
    <3>1. Synced[p] \in Monitored
      BY <2>1
    <3>2. QED
      BY <1>1, <2>3, <3>1 DEF Monitored
  <2>4. monitored' \in [Panes -> Monitored \cup {NoEvent}] /\ checking' \subseteq Panes
    BY <2>1, <2>2, <2>3
  <2>5. QED
    BY <1>1, <1>2, <2>4, NothingRecorded DEF SilenceTick, ToolInv, ToolTypeOK
<1>3. ASSUME NEW p \in Panes, NoPrompt(p) PROVE ToolInv'
  BY <1>1, <1>3, NothingRecorded DEF NoPrompt, ToolInv, ToolTypeOK
<1>4. ASSUME NEW p \in Panes, MarkPrompted(p) \/ RecordOutput(p) PROVE ToolInv'
  <2>1. monitored' \in [Panes -> Monitored \cup {NoEvent}]
    <3>1. monitored[p] # NoEvent => monitored[p] \in Monitored
      BY <1>1
    <3>2. CASE MarkPrompted(p)
      <4>1. monitored[p] # NoEvent => [monitored[p] EXCEPT !.prompted = TRUE] \in Monitored
        BY <3>1 DEF Monitored
      <4>2. \/ monitored' = monitored
            \/ /\ monitored[p] # NoEvent
               /\ monitored' = [monitored EXCEPT ![p] = [monitored[p] EXCEPT !.prompted = TRUE]]
        BY <3>2 DEF MarkPrompted
      <4>3. QED
        BY <1>1, <4>1, <4>2
    <3>3. CASE RecordOutput(p)
      <4>1. [monitored[p] EXCEPT !.prompted = FALSE, !.checks = 0] \in Monitored
        <5>1. PICK o \in Monitored : o = monitored[p]
          BY <3>1, <3>3 DEF RecordOutput
        <5>2. 0 \in 0 .. MaxChecks
          BY <1>1
        <5> DEFINE q == [o EXCEPT !.prompted = FALSE]
        <5>3. q \in Monitored
          BY <5>1 DEF Monitored
        <5>4. [o EXCEPT !.prompted = FALSE, !.checks = 0] = [q EXCEPT !.checks = 0]
          OBVIOUS
        <5> HIDE DEF q
        <5>5. [q EXCEPT !.checks = 0] \in Monitored
          BY <5>2, <5>3 DEF Monitored
        <5>6. QED
          BY <5>1, <5>4, <5>5
      <4>2. monitored' = [monitored EXCEPT ![p] =
                            [monitored[p] EXCEPT !.prompted = FALSE, !.checks = 0]]
        BY <1>1, <3>3 DEF RecordOutput
      <4>3. QED
        BY <1>1, <4>1, <4>2
    <3>4. QED
      BY <1>4, <3>2, <3>3
  <2>2. QED
    BY <1>1, <1>4, <2>1, NothingRecorded DEF MarkPrompted, RecordOutput, ToolInv, ToolTypeOK
<1>5. ASSUME NEW p \in Panes, PromptDetected(p) PROVE ToolInv'
  <2> DEFINE e == [tool |-> monitored[p].tool, status |-> "waiting", host |-> "local",
                   pane |-> p, auto |-> TRUE]
  <2>1. monitored[p] \in Monitored
    BY <1>1, <1>5 DEF PromptDetected
  <2>2. /\ Record("silence", e)
        /\ UNCHANGED <<agentIn, shownVars, reconciling, detecting, seen, monitored,
                       promoting, dismissing, turns>>
        /\ checking' \subseteq Panes /\ prompting' \subseteq Panes
    BY <1>5 DEF PromptDetected, ToolInv, ToolTypeOK
  <2>3. e \in Event /\ e.host = "local" /\ "silence" \in Threads
    BY <2>1 DEF Event, Monitored, Statuses, Threads
  <2> HIDE DEF e
  <2>4. /\ events' \in [PaneKeys -> Event \cup {NoEvent}]
        /\ lastActive' \in [PaneKeys -> Event \cup {NoEvent}]
        /\ unsent' \in Seq([by : Threads, event : Event]) /\ Len(unsent') <= MaxUnsent
        /\ channel' \in Seq(Event) /\ Len(channel') <= ChannelCap
        /\ Keyed' /\ Told' /\ excused' \subseteq Panes
    BY <2>2, <2>3, RecordKeeps
  <2>5. ToolTypeOK'
    BY <2>2, <2>4 DEF ToolInv, ToolTypeOK
  <2>6. QED
    BY <2>4, <2>5 DEF ToolInv
<1>6. QED
  BY <1>2, <1>3, <1>4, <1>5 DEF Silence

LEMMA PromoteKeep ==
    ASSUME ToolInv, Promote
    PROVE  ToolInv'
<1> USE DEF recordVars, shownVars
<1>1. CASE PromoteTakes
  <2>1. PICK old \in SUBSET Tracked(lastActive) :
          /\ promoting' = {lastActive[k] : k \in old}
          /\ lastActive' = [k \in PaneKeys |-> IF k \in old THEN NoEvent ELSE lastActive[k]]
    BY <1>1 DEF PromoteTakes
  <2>2. \A k \in old : lastActive[k] \in Event /\ lastActive[k].host = "local"
    BY DEF Tracked, ToolInv, ToolTypeOK, Keyed
  <2>3. promoting' \subseteq Event /\ \A e \in promoting' : e.host = "local"
    BY <2>1, <2>2
  <2>4. lastActive' \in [PaneKeys -> Event \cup {NoEvent}]
        /\ \A k \in PaneKeys : lastActive'[k] # NoEvent => lastActive'[k].host = "local"
    BY <2>1 DEF ToolInv, ToolTypeOK, Keyed
  <2>5. ToolTypeOK'
    BY <1>1, <2>3, <2>4 DEF PromoteTakes, ToolInv, ToolTypeOK
  <2>6. events' = events /\ events \in [PaneKeys -> Event \cup {NoEvent}]
        /\ UNCHANGED <<unsent, channel, shown>> /\ excused' = excused
    BY <1>1 DEF PromoteTakes, ToolInv, ToolTypeOK
  <2>7. Told' /\ Keyed'
    BY <2>3, <2>4, <2>6, TakesOut DEF Keyed
  <2>8. QED
    BY <2>5, <2>7 DEF ToolInv
<1>2. ASSUME NEW e \in promoting, PromoteRecords(e) PROVE ToolInv'
  <2> DEFINE w == [e EXCEPT !.status = "waiting"]
  <2>1. e \in Event /\ e.host = "local"
    BY DEF ToolInv, ToolTypeOK, Keyed
  <2>2. w \in Event /\ w.host = "local" /\ "promoter" \in Threads
    BY <2>1 DEF Event, Statuses, Threads
  <2>3. /\ Record("promoter", w) /\ promoting' \subseteq promoting /\ promoting' \subseteq Event
        /\ UNCHANGED <<agentIn, shownVars, reconciling, detecting, seen, monitored,
                       checking, prompting, dismissing, turns>>
    BY <1>2 DEF PromoteRecords, ToolInv, ToolTypeOK
  <2> HIDE DEF w
  <2>4. /\ events' \in [PaneKeys -> Event \cup {NoEvent}]
        /\ lastActive' \in [PaneKeys -> Event \cup {NoEvent}]
        /\ unsent' \in Seq([by : Threads, event : Event]) /\ Len(unsent') <= MaxUnsent
        /\ channel' \in Seq(Event) /\ Len(channel') <= ChannelCap
        /\ Keyed' /\ Told' /\ excused' \subseteq Panes
    BY <2>2, <2>3, RecordKeeps
  <2>5. ToolTypeOK'
    BY <2>3, <2>4 DEF ToolInv, ToolTypeOK
  <2>6. QED
    BY <2>4, <2>5 DEF ToolInv
<1>3. QED
  BY <1>1, <1>2 DEF Promote

LEMMA DismissTrackedKeeps ==
    ASSUME ToolInv, NEW P \in SUBSET Panes, DismissTracked(P)
    PROVE  ToolInv'
<1>1. /\ events' \in [PaneKeys -> Event \cup {NoEvent}]
      /\ \A k \in PaneKeys : events'[k] \in {events[k], NoEvent}
  BY DEF DismissTracked, ToolInv, ToolTypeOK
<1>2. QED
  BY <1>1, NothingRecorded DEF DismissTracked, ToolInv, ToolTypeOK, workVars

LEMMA ToolStepInv == ToolInv /\ [ToolNext]_toolVars => ToolInv'
<1> SUFFICES ASSUME ToolInv, [ToolNext]_toolVars PROVE ToolInv'
  OBVIOUS
<1>1. ASSUME NEW p \in Panes, Hooks(p) PROVE ToolInv'
  BY <1>1, HooksKeep
<1>2. CASE Reconcile \/ Detect \/ Silence \/ Promote
  BY <1>2, ReconcileKeep, DetectKeep, SilenceKeep, PromoteKeep
<1>3. ASSUME NEW i \in DOMAIN unsent, Broadcast(i) PROVE ToolInv'
  BY <1>3, BroadcastKeeps
<1>4. CASE ApplyToolEvent \/ DismissShown
  BY <1>4, ApplyKeeps, DismissShownKeeps
<1>5. CASE \E P \in {{p} : p \in Panes} \cup {Panes} : DismissTracked(P)
  BY <1>5, DismissTrackedKeeps
<1>6. CASE UNCHANGED toolVars
  <2>1. events' = events /\ events \in [PaneKeys -> Event \cup {NoEvent}]
    BY <1>6 DEF toolVars, recordVars, ToolInv, ToolTypeOK
  <2>2. QED
    BY <1>6, <2>1, NothingRecorded
       DEF toolVars, recordVars, shownVars, workVars, ToolInv, ToolTypeOK
<1>7. QED
  BY <1>1, <1>2, <1>3, <1>4, <1>5, <1>6 DEF ToolNext

(* What the tracker holds is on its way or has arrived, in every state.     *)
THEOREM ToolInvariance == ToolSpec => []ToolInv
BY ToolInitInv, ToolStepInv, PTL DEF ToolSpec

(* An agent that waits is shown to wait once its last report has arrived in *)
(* order and nothing was dismissed or cleared since, whatever went wrong    *)
(* with the reports before it.                                              *)
THEOREM WaitingShown == ToolSpec => []WaitingIsShown
<1>1. ToolInv => WaitingIsShown
  <2> SUFFICES ASSUME ToolInv,
                      NEW p \in Panes, NEW x, x = events[<<"local", p>>],
                      ~ InFlight(p), p \notin dismissing \cup excused, x # NoEvent
               PROVE  ShownAs(p, x)
    BY DEF WaitingIsShown, ShownAs
  <2>1. Newest(p, x) \/ (~ InFlight(p) /\ ShownAs(p, x))
    BY DEF ToolInv, Told
  <2>2. ~ Newest(p, x)
    BY DEF Newest, InFlight
  <2>3. QED
    BY <2>1, <2>2
<1>2. QED
  BY <1>1, ToolInvariance, PTL

-----------------------------------------------------------------------------
(* The activity of a session                                                *)

(* Going round the ring.                                                    *)
LEMMA Wraps ==
    ASSUME NEW N \in Nat \ {0}, NEW a \in 0 .. N - 1, NEW k \in 0 .. N
    PROVE  (a + k) % N = IF a + k < N THEN a + k ELSE a + k - N
<1>1. CASE a + k < N
  BY <1>1
<1>2. CASE a + k >= N
  <2>1. (a + k - N) % N = a + k - N
    <3>1. PICK m \in 0 .. N - 1 : m = a + k - N
      BY <1>2
    <3>2. m % N = m
      OBVIOUS
    <3>3. QED
      BY <3>1, <3>2
  <2>2. (a + k) % N = (a + k - N) % N
    BY <1>2
  <2>3. QED
    BY <1>2, <2>1, <2>2
<1>3. QED
  BY <1>1, <1>2

(* Where the ring keeps the i-th oldest bucket.                             *)
Place(h, i) == (h + 1 + i) % BucketCount

(* The ring b, with its newest bucket at h and of the time T, shows the     *)
(* history.                                                                 *)
Shows(b, h, T) ==
    \A i \in Ring :
        LET t == T - (BucketCount - 1) + i IN
        b[Place(h, i)] = IF t < 0 THEN 0 ELSE history[t]

(* Nothing was counted after the head, and no bucket holds more than was    *)
(* counted.                                                                 *)
RingInv ==
    /\ RingTypeOK
    /\ \A i \in Ring : buckets[i] <= totalBytes
    /\ \A t \in Clock : history[t] <= totalBytes /\ (t > headTime => history[t] = 0)
    /\ Shows(buckets, headIdx, headTime)

LEMMA PlaceOf ==
    ASSUME NEW h \in Ring, NEW i \in Ring
    PROVE  /\ Place(h, i) = IF h + 1 + i < BucketCount THEN h + 1 + i ELSE h + 1 + i - BucketCount
           /\ Place(h, i) \in Ring
<1>1. BucketCount \in Nat \ {0} /\ h \in 0 .. BucketCount - 1 /\ 1 + i \in 0 .. BucketCount
  BY ActivityRingAssumption DEF Ring
<1>2. (h + (1 + i)) % BucketCount
      = IF h + (1 + i) < BucketCount THEN h + (1 + i) ELSE h + (1 + i) - BucketCount
  BY <1>1, Wraps
<1>3. h + (1 + i) = h + 1 + i
  BY <1>1
<1>4. QED
  BY <1>1, <1>2, <1>3 DEF Place, Ring

(* What advancing the ring does.                                            *)
LEMMA AdvancedTo ==
    ASSUME RingInv, NEW t \in Clock
    PROVE  /\ Advanced(t) \in [Ring -> 0 .. MaxBytes]
           /\ \A i \in Ring : Advanced(t)[i] <= totalBytes
           /\ HeadAt(t) \in Ring /\ Later(t) \in Clock /\ Later(t) >= headTime
           /\ Shows(Advanced(t), HeadAt(t), Later(t))
<1> DEFINE s == StepsTo(t)
           h == HeadAt(t)
           N == BucketCount
<1>1. N \in Nat \ {0} /\ t \in Nat /\ headTime \in Nat /\ headIdx \in 0 .. N - 1
      /\ MaxClock \in Nat /\ t <= MaxClock /\ headTime <= MaxClock
  BY ActivityRingAssumption DEF RingInv, RingTypeOK, Clock, Ring
<1>2. s \in 0 .. N /\ Later(t) \in Clock /\ Later(t) >= headTime + s
      /\ (s < N => Later(t) = headTime + s)
  BY <1>1 DEF StepsTo, Later, Clock
<1>3. h = (IF headIdx + s < N THEN headIdx + s ELSE headIdx + s - N) /\ h \in 0 .. N - 1
  <2>1. (headIdx + s) % N = IF headIdx + s < N THEN headIdx + s ELSE headIdx + s - N
    BY <1>1, <1>2, Wraps
  <2>2. h = IF headIdx + s < N THEN headIdx + s ELSE headIdx + s - N
    BY <2>1 DEF HeadAt
  <2> HIDE DEF s, h
  <2>3. QED
    BY <1>1, <1>2, <2>2
<1>4. Advanced(t) \in [Ring -> 0 .. MaxBytes]
      /\ \A i \in Ring : Advanced(t)[i] <= totalBytes
  BY ActivityRingAssumption DEF Advanced, RingInv, RingTypeOK
<1>5. ASSUME NEW i \in Ring
      PROVE  LET T == Later(t) - (N - 1) + i IN
             Advanced(t)[Place(h, i)] = IF T < 0 THEN 0 ELSE history[T]
  <2>1. i \in 0 .. N - 1
    BY DEF Ring
  <2>2. Place(h, i) \in Ring
        /\ Place(h, i) = (IF h + 1 + i < N THEN h + 1 + i ELSE h + 1 + i - N)
    BY <1>3, PlaceOf DEF Ring
  <2>3. CASE i + s < N
    <3>1. i + s \in Ring
      BY <1>1, <1>2, <2>1, <2>3 DEF Ring
    <3>2. Place(headIdx, i + s)
          = IF headIdx + 1 + (i + s) < N THEN headIdx + 1 + (i + s) ELSE headIdx + 1 + (i + s) - N
      BY <1>1, <3>1, PlaceOf DEF Ring
    <3>3. Place(h, i) = Place(headIdx, i + s)
      <4> HIDE DEF s, h
      <4>1. QED
        BY <1>1, <1>2, <1>3, <2>1, <2>2, <2>3, <3>2
    <3>4. Place(h, i) \notin ClearedTo(t)
      <4>1. SUFFICES ASSUME NEW k \in 1 .. s, Place(h, i) = (headIdx + k) % N PROVE FALSE
        BY DEF ClearedTo
      <4>2. k \in 0 .. N
        BY <1>1, <1>2
      <4>3. Place(h, i) = IF headIdx + k < N THEN headIdx + k ELSE headIdx + k - N
        BY <1>1, <4>1, <4>2, Wraps
      <4> HIDE DEF s, h
      <4>4. QED
        BY <1>1, <1>2, <2>1, <2>3, <3>2, <3>3, <4>2, <4>3
    <3>5. Later(t) - (N - 1) + i = headTime - (N - 1) + (i + s)
      <4> HIDE DEF s, h
      <4>1. s < N /\ Later(t) = headTime + s
        BY <1>1, <1>2, <2>1, <2>3
      <4>2. QED
        BY <1>1, <1>2, <2>1, <4>1
    <3>6. Advanced(t)[Place(h, i)] = buckets[Place(headIdx, i + s)]
      BY <2>2, <3>3, <3>4 DEF Advanced
    <3>7. QED
      BY <3>1, <3>5, <3>6 DEF RingInv, Shows
  <2>4. CASE i + s >= N
    <3> DEFINE k == i + s + 1 - N
    <3>1. k \in 1 .. s /\ k \in 0 .. N
      <4> HIDE DEF s, h
      <4>1. QED
        BY <1>1, <1>2, <2>1, <2>4
    <3>2. (headIdx + k) % N = IF headIdx + k < N THEN headIdx + k ELSE headIdx + k - N
      BY <1>1, <3>1, Wraps
    <3>3. Place(h, i) = (headIdx + k) % N
      <4>1. Place(h, i) = IF headIdx + k < N THEN headIdx + k ELSE headIdx + k - N
        <5> HIDE DEF s, h
        <5>1. QED
          BY <1>1, <1>2, <1>3, <2>1, <2>2, <2>4
      <4>2. QED
        BY <3>2, <4>1
    <3>4. Place(h, i) \in ClearedTo(t)
      BY <3>1, <3>3 DEF ClearedTo
    <3>5. Advanced(t)[Place(h, i)] = 0
      BY <2>2, <3>4 DEF Advanced
    <3> DEFINE T == Later(t) - (N - 1) + i
    <3>6. T \in Int /\ T > headTime /\ T <= Later(t)
      <4> DEFINE L == Later(t)
      <4>1. L \in Nat /\ L >= headTime + s
        BY <1>2 DEF Clock
      <4> HIDE DEF s, h, L
      <4>2. L - (N - 1) + i > headTime /\ L - (N - 1) + i <= L
        BY <1>1, <1>2, <2>1, <2>4, <4>1
      <4>3. QED
        BY <1>1, <2>1, <4>1, <4>2 DEF L
    <3>7. T \in Clock /\ T > headTime
      BY <1>1, <1>2, <3>6 DEF Clock
    <3>8. history[T] = 0
      BY <3>7 DEF RingInv
    <3>9. QED
      BY <3>5, <3>8
  <2>5. QED
    BY <1>1, <1>2, <2>1, <2>3, <2>4
<1>6. Later(t) >= headTime /\ h \in Ring
  BY <1>1, <1>2, <1>3 DEF Ring, Clock
<1>7. QED
  BY <1>2, <1>4, <1>5, <1>6 DEF Shows

LEMMA RingInitInv == RingInit => RingInv
<1> SUFFICES ASSUME RingInit PROVE RingInv
  OBVIOUS
<1>1. RingTypeOK
  BY ActivityRingAssumption DEF RingInit, RingTypeOK, Clock, Ring
<1>2. \A i \in Ring : Place(headIdx, i) \in Ring
  BY <1>1, PlaceOf DEF RingTypeOK
<1>3. ASSUME NEW i \in Ring, headTime - (BucketCount - 1) + i >= 0
      PROVE  headTime - (BucketCount - 1) + i \in Clock
  BY <1>3, ActivityRingAssumption DEF RingInit, Ring, Clock
<1>4. Shows(buckets, headIdx, headTime)
  <2>1. ASSUME NEW i \in Ring
        PROVE  LET t == headTime - (BucketCount - 1) + i IN
               buckets[Place(headIdx, i)] = IF t < 0 THEN 0 ELSE history[t]
    <3>1. headTime - (BucketCount - 1) + i \in Int
      BY <1>1, ActivityRingAssumption DEF RingTypeOK, Ring, Clock
    <3>2. buckets[Place(headIdx, i)] = 0
      BY <1>2 DEF RingInit
    <3>3. QED
      BY <1>3, <3>1, <3>2 DEF RingInit
  <2>2. QED
    BY <2>1 DEF Shows
<1>5. QED
  BY <1>1, <1>4, ActivityRingAssumption DEF RingInv, RingInit

LEMMA CountStep ==
    ASSUME RingInv, NEW w \in Writers, NEW n \in 1 .. 2, CountOutput(w, n)
    PROVE  RingInv'
<1> DEFINE t == writing[w]
           b == Advanced(t)
           h == HeadAt(t)
           T == Later(t)
           N == BucketCount
<1>1. t \in Clock
  BY DEF CountOutput, RingInv, RingTypeOK
<1>2. /\ b \in [Ring -> 0 .. MaxBytes] /\ \A i \in Ring : b[i] <= totalBytes
      /\ h \in Ring /\ T \in Clock /\ T >= headTime /\ Shows(b, h, T)
  BY <1>1, AdvancedTo
<1>3. /\ totalBytes' = totalBytes + n /\ totalBytes + n <= MaxBytes
      /\ buckets' = [b EXCEPT ![h] = @ + n]
      /\ headIdx' = h /\ headTime' = T
      /\ history' = [history EXCEPT ![T] = @ + n]
      /\ writing' = [writing EXCEPT ![w] = NotWriting] /\ clock' = clock
  BY DEF CountOutput
<1>4. n \in Nat /\ totalBytes \in Nat /\ MaxBytes \in Nat /\ N \in Nat \ {0}
      /\ T \in Nat /\ T <= MaxClock /\ headTime \in Nat
      /\ history \in [Clock -> 0 .. MaxBytes]
  BY <1>2, ActivityRingAssumption DEF RingInv, RingTypeOK, Clock
<1> HIDE DEF t, b, h, T
<1>5. \A i \in Ring : buckets'[i] = IF i = h THEN b[i] + n ELSE b[i]
  BY <1>2, <1>3
<1>6. \A u \in Clock : history'[u] = IF u = T THEN history[u] + n ELSE history[u]
  BY <1>2, <1>3, <1>4
<1>7. \A i \in Ring : b[i] \in 0 .. MaxBytes /\ b[i] <= totalBytes
  BY <1>2
<1>8. \A u \in Clock : history[u] \in 0 .. MaxBytes /\ history[u] <= totalBytes
                       /\ (u > headTime => history[u] = 0)
  BY <1>4 DEF RingInv
<1>9. \A i \in Ring : buckets'[i] \in 0 .. MaxBytes /\ buckets'[i] <= totalBytes'
  BY <1>3, <1>4, <1>5, <1>7
<1>10. \A u \in Clock : history'[u] \in 0 .. MaxBytes /\ history'[u] <= totalBytes'
                        /\ (u > headTime' => history'[u] = 0)
  BY <1>2, <1>3, <1>4, <1>6, <1>8 DEF Clock
<1>11. RingTypeOK'
  <2>1. buckets' \in [Ring -> 0 .. MaxBytes]
    BY <1>2, <1>3, <1>9
  <2>2. history' \in [Clock -> 0 .. MaxBytes]
    BY <1>3, <1>4, <1>10
  <2>3. writing' \in [Writers -> Clock \cup {NotWriting}]
    BY <1>3 DEF RingInv, RingTypeOK
  <2>4. clock' \in Clock
    BY <1>3 DEF RingInv, RingTypeOK
  <2>5. QED
    BY <1>2, <1>3, <1>4, <2>1, <2>2, <2>3, <2>4 DEF RingTypeOK
<1>12. ASSUME NEW i \in Ring
       PROVE  LET u == T - (N - 1) + i IN
              buckets'[Place(h, i)] = IF u < 0 THEN 0 ELSE history'[u]
  <2> DEFINE u == T - (N - 1) + i
             p == Place(h, i)
  <2>1. p \in Ring /\ p = (IF h + 1 + i < N THEN h + 1 + i ELSE h + 1 + i - N)
    BY <1>2, PlaceOf
  <2>2. b[p] = IF u < 0 THEN 0 ELSE history[u]
    BY <1>2 DEF Shows
  <2>3. i \in 0 .. N - 1 /\ h \in 0 .. N - 1 /\ u \in Int
    BY <1>2, <1>4 DEF Ring
  <2>4. (p = h <=> i = N - 1) /\ (u = T <=> i = N - 1) /\ u <= T
    <3> HIDE DEF p
    <3>1. QED
      BY <1>4, <2>1, <2>3
  <2>5. u >= 0 => u \in Clock
    BY <1>4, <2>3, <2>4, ActivityRingAssumption DEF Clock
  <2>6. QED
    <3> HIDE DEF p, u
    <3>1. CASE i = N - 1
      <4>1. p = h /\ u = T /\ ~ (u < 0) /\ u \in Clock
        BY <1>4, <2>3, <2>4, <2>5, <3>1
      <4>2. b[p] = history[u] /\ buckets'[p] = b[p] + n /\ history'[u] = history[u] + n
        BY <1>5, <1>6, <2>1, <2>2, <4>1 DEF p, u
      <4>3. QED
        BY <4>1, <4>2 DEF p, u
    <3>2. CASE i # N - 1
      <4>1. p # h /\ u # T
        BY <2>4, <3>2
      <4>2. buckets'[p] = b[p]
        BY <1>5, <2>1, <4>1 DEF p
      <4>3. CASE u < 0
        BY <2>2, <4>2, <4>3 DEF p, u
      <4>4. CASE u >= 0
        <5>1. history'[u] = history[u]
          BY <1>6, <2>5, <4>1, <4>4
        <5>2. QED
          BY <2>2, <2>3, <4>2, <4>4, <5>1 DEF p, u
      <4>5. QED
        BY <2>3, <4>3, <4>4
    <3>3. QED
      BY <3>1, <3>2
<1>13. Shows(buckets, headIdx, headTime)'
  BY <1>3, <1>12 DEF Shows, Place, Ring
<1>14. QED
  BY <1>9, <1>10, <1>11, <1>13 DEF RingInv, Ring, Clock

LEMMA RingStepInv == RingInv /\ [RingNext]_ringVars => RingInv'
<1> SUFFICES ASSUME RingInv, [RingNext]_ringVars PROVE RingInv'
  OBVIOUS
<1>1. ASSUME NEW w \in Writers, NEW n \in 1 .. 2, CountOutput(w, n) PROVE RingInv'
  BY <1>1, CountStep
<1>2. CASE GetSnapshot
  <2>1. clock \in Clock
    BY DEF RingInv, RingTypeOK
  <2>2. /\ buckets' \in [Ring -> 0 .. MaxBytes] /\ \A i \in Ring : buckets'[i] <= totalBytes
        /\ headIdx' \in Ring /\ headTime' \in Clock /\ headTime' >= headTime
        /\ Shows(buckets', headIdx', headTime')
        /\ UNCHANGED <<clock, writing, totalBytes, history>>
    BY <1>2, <2>1, AdvancedTo DEF GetSnapshot
  <2>3. RingTypeOK'
    BY <2>2 DEF RingInv, RingTypeOK
  <2>4. \A u \in Clock : u > headTime' => history[u] = 0
    BY <2>2, ActivityRingAssumption DEF RingInv, RingTypeOK, Clock
  <2>5. Shows(buckets, headIdx, headTime)'
    BY <2>2 DEF Shows, Place, Ring
  <2>6. QED
    BY <2>2, <2>3, <2>4, <2>5 DEF RingInv, Ring, Clock
<1>3. CASE TimePasses \/ (\E w \in Writers : ReadClock(w)) \/ UNCHANGED ringVars
  <2>1. UNCHANGED <<buckets, headIdx, headTime, totalBytes, history>>
    BY <1>3 DEF TimePasses, ReadClock, ringVars
  <2>2. clock' \in Clock /\ writing' \in [Writers -> Clock \cup {NotWriting}]
    BY <1>3 DEF TimePasses, ReadClock, ringVars, RingInv, RingTypeOK
  <2>3. RingTypeOK'
    BY <2>1, <2>2 DEF RingInv, RingTypeOK
  <2>4. Shows(buckets, headIdx, headTime)'
    BY <2>1 DEF RingInv, Shows, Place, Ring
  <2>5. QED
    BY <2>1, <2>3, <2>4 DEF RingInv, Ring, Clock
<1>4. QED
  BY <1>1, <1>2, <1>3 DEF RingNext

(* The counts of a session's output are of their type, and its ring shows   *)
(* the history, in every state.                                             *)
THEOREM RingInvariance == RingSpec => []RingInv
BY RingInitInv, RingStepInv, PTL DEF RingSpec

(* Get's sparkline is the history of the output, whatever the size of the   *)
(* ring, the number of writers and the order they come in.                  *)
THEOREM SparklineShowsHistory == RingSpec => []SparklineIsHistory
<1>1. RingInv => SparklineIsHistory
  BY DEF RingInv, Shows, Place, SparklineIsHistory, Sparkline
<1>2. QED
  BY <1>1, RingInvariance, PTL

-----------------------------------------------------------------------------
(* What browsers leave with the hub                                         *)

(* Somebody is between the store and the projection only while the hub      *)
(* runs, and alone unless writers have overlapped; and unless a write has   *)
(* failed the file has what the hub goes by.                                *)
Putting ==
    /\ ~ hubRuns => \A w \in Putters : putting[w] = NoStore
    /\ hubRuns /\ ~ disturbed =>
         \A w \in Putters : putting[w] # NoStore =>
             putting[w] = prefs /\ \A o \in Putters : o # w => putting[o] = NoStore
    /\ hubRuns /\ ~ disturbed => prefs = Loaded

SettingsInv == SettingsTypeOK /\ SubscriptionsSurvive /\ Putting /\ PreferencesShown

LEMMA SettingsInitInv == SettingsInit => SettingsInv
<1> SUFFICES ASSUME SettingsInit PROVE SettingsInv
  OBVIOUS
<1>1. SettingsTypeOK
  <2>1. told \in [Endpoints -> BOOLEAN \cup {Untold}]
    BY DEF SettingsInit
  <2>2. putting \in [Putters -> Values \cup {NoStore}] /\ troubles \in 0 .. MaxTroubles
    BY HubSettingsAssumption DEF SettingsInit
  <2>3. QED
    BY <2>1, <2>2 DEF SettingsInit, SettingsTypeOK
<1>2. SubscriptionsSurvive /\ Putting /\ PreferencesShown
  BY DEF SettingsInit, SubscriptionsSurvive, Putting, PreferencesShown, Loaded
<1>3. QED
  BY <1>1, <1>2 DEF SettingsInv

(* What is said of one endpoint, while the hub runs.                        *)
Said(o) ==
    /\ told[o] = TRUE => o \in subsFile /\ o \in subscriptions
    /\ told[o] = FALSE /\ o \notin returning => o \notin subsFile /\ o \notin subscriptions

PushTypeOK ==
    /\ subsFile \subseteq Endpoints /\ subscriptions \subseteq Endpoints
    /\ returning \subseteq subsFile
    /\ told \in [Endpoints -> BOOLEAN \cup {Untold}]
    /\ troubles \in 0 .. MaxTroubles

(* A change to one endpoint leaves what is said of the others true: what is *)
(* written is memory but for this one.                                      *)
LEMMA ChangeKeeps ==
    ASSUME SettingsInv, hubRuns, NEW e \in Endpoints, NEW next, NEW present \in BOOLEAN,
           Change(e, next, present),
           \/ present /\ next = subscriptions \cup {e}
           \/ ~ present /\ next = subscriptions \ {e}
    PROVE  PushTypeOK' /\ \A o \in Endpoints : Said(o)'
<1> USE HubSettingsAssumption DEF SettingsInv, SettingsTypeOK
<1>1. next \subseteq Endpoints
  OBVIOUS
<1>2. \A o \in Endpoints : o # e => (o \in next <=> o \in subscriptions)
  OBVIOUS
<1>3. e \in next <=> present
  OBVIOUS
<1>4. \A o \in Endpoints : o # e => told'[o] = told[o]
  BY DEF Change
<1>5. PushTypeOK'
  <2>1. subsFile' \subseteq Endpoints /\ subscriptions' \subseteq Endpoints
    BY <1>1 DEF Change
  <2>2. told' \in [Endpoints -> BOOLEAN \cup {Untold}] /\ returning' \subseteq subsFile'
    BY DEF Change
  <2>3. troubles' \in 0 .. MaxTroubles
    BY DEF Change, Trouble
  <2>4. QED
    BY <2>1, <2>2, <2>3 DEF PushTypeOK
<1>6. ASSUME NEW o \in Endpoints PROVE Said(o)'
  <2>1. CASE o = e
    <3>1. CASE told'[e] = Untold
      BY <2>1, <3>1 DEF Said
    <3>2. CASE told'[e] # Untold
      <4>1. told'[e] = present /\ subsFile' = next /\ subscriptions' = next
        BY <3>2 DEF Change
      <4>2. QED
        BY <1>3, <2>1, <4>1 DEF Said
    <3>3. QED
      BY <3>1, <3>2
  <2>2. CASE o # e
    <3>1. \/ subsFile' = next /\ subscriptions' \in {subscriptions, next}
          \/ subsFile' = subsFile /\ subscriptions' = subscriptions
      BY DEF Change
    <3>2. o \in subscriptions' <=> o \in subscriptions
      BY <1>2, <2>2, <3>1
    <3>3. o \in subsFile' <=> (IF subsFile' = subsFile THEN o \in subsFile ELSE o \in subscriptions)
      BY <1>2, <2>2, <3>1
    <3>4. o \in returning' <=> o \in returning /\ o \in subsFile'
      BY <2>2 DEF Change
    <3>5. /\ told[o] = TRUE => o \in subsFile /\ o \in subscriptions
          /\ told[o] = FALSE /\ o \notin returning => o \notin subsFile /\ o \notin subscriptions
      BY DEF SubscriptionsSurvive
    <3>6. CASE told[o] = FALSE /\ o \in returning /\ o \notin subsFile'
      <4>1. o \notin subscriptions \/ subsFile' = subsFile
        BY <3>3, <3>6
      <4>2. CASE o \notin subscriptions
        BY <1>4, <2>2, <3>2, <3>6, <4>2 DEF Said
      <4>3. CASE subsFile' = subsFile /\ o \in subscriptions
        BY <3>6, <4>3
      <4>4. QED
        BY <4>1, <4>2, <4>3
    <3>7. CASE ~ (told[o] = FALSE /\ o \in returning /\ o \notin subsFile')
      BY <1>4, <2>2, <3>2, <3>3, <3>4, <3>5, <3>7 DEF Said
    <3>8. QED
      BY <3>6, <3>7
  <2>3. QED
    BY <2>1, <2>2
<1>7. QED
  BY <1>5, <1>6

(* An endpoint that memory does not have is reported gone, or nothing is    *)
(* said at all.                                                             *)
LEMMA NothingWritten ==
    ASSUME SettingsInv, hubRuns, UNCHANGED <<subsFile, subscriptions, troubles>>,
           \/ UNCHANGED <<told, returning>>
           \/ \E e \in Endpoints \ subscriptions :
                /\ told' = [told EXCEPT ![e] = FALSE]
                /\ returning' = returning \cup ({e} \cap subsFile)
    PROVE  PushTypeOK' /\ \A o \in Endpoints : Said(o)'
<1> USE HubSettingsAssumption DEF SettingsInv, SettingsTypeOK
<1>1. PushTypeOK'
  <2>1. told' \in [Endpoints -> BOOLEAN \cup {Untold}] /\ returning' \subseteq subsFile'
    OBVIOUS
  <2>2. QED
    BY <2>1 DEF PushTypeOK
<1>2. ASSUME NEW o \in Endpoints PROVE Said(o)'
  BY DEF Said, SubscriptionsSurvive
<1>3. QED
  BY <1>1, <1>2

LEMMA PushStep ==
    ASSUME SettingsInv,
           \/ \E e \in Endpoints : Subscribe(e) \/ Unsubscribe(e) \/ Sends(e) \/ SendGone(e)
           \/ SenderTakes
    PROVE  SettingsInv'
<1>1. hubRuns /\ hubRuns' = hubRuns /\ UNCHANGED prefVars
  BY DEF Subscribe, Unsubscribe, Sends, SendGone, SenderTakes
<1>2. sending' \subseteq Endpoints
  BY DEF SettingsInv, SettingsTypeOK, Subscribe, Unsubscribe, Sends, SendGone, SenderTakes
<1>3. PushTypeOK' /\ \A o \in Endpoints : Said(o)'
  <2>1. ASSUME NEW e \in Endpoints, Change(e, subscriptions \cup {e}, TRUE)
        PROVE  PushTypeOK' /\ \A o \in Endpoints : Said(o)'
    BY <1>1, <2>1, ChangeKeeps
  <2>2. ASSUME NEW e \in Endpoints, Change(e, subscriptions \ {e}, FALSE)
        PROVE  PushTypeOK' /\ \A o \in Endpoints : Said(o)'
    BY <1>1, <2>2, ChangeKeeps
  <2>3. ASSUME UNCHANGED <<subsFile, subscriptions, troubles>>,
               \/ UNCHANGED <<told, returning>>
               \/ \E e \in Endpoints \ subscriptions :
                    /\ told' = [told EXCEPT ![e] = FALSE]
                    /\ returning' = returning \cup ({e} \cap subsFile)
        PROVE  PushTypeOK' /\ \A o \in Endpoints : Said(o)'
    BY <1>1, <2>3, NothingWritten
  <2>4. QED
    BY <2>1, <2>2, <2>3 DEF Subscribe, Unsubscribe, Sends, SendGone, SenderTakes
<1>4. SettingsTypeOK'
  BY <1>1, <1>2, <1>3 DEF SettingsInv, SettingsTypeOK, PushTypeOK, prefVars
<1>5. SubscriptionsSurvive'
  BY <1>3 DEF SubscriptionsSurvive, Said
<1>6. Putting' /\ PreferencesShown'
  BY <1>1 DEF SettingsInv, Putting, PreferencesShown, Loaded, prefVars
<1>7. QED
  BY <1>4, <1>5, <1>6 DEF SettingsInv

LEMMA PreferencesStep ==
    ASSUME SettingsInv, NEW w \in Putters,
           ShowPreferences(w) \/ ShowFails(w) \/ \E v \in Values : PutPreferences(w, v)
    PROVE  SettingsInv'
<1> USE HubSettingsAssumption DEF SettingsInv
<1>1. hubRuns /\ hubRuns' = hubRuns /\ UNCHANGED pushVars
  BY DEF ShowPreferences, ShowFails, PutPreferences
<1>2. SubscriptionsSurvive'
  BY <1>1 DEF SubscriptionsSurvive, pushVars
<1>3. \A o \in Putters : o # w => putting'[o] = putting[o]
  BY DEF ShowPreferences, ShowFails, PutPreferences, SettingsTypeOK
<1>4. ASSUME NEW v \in Values, PutPreferences(w, v) PROVE SettingsInv'
  <2>1. SettingsTypeOK'
    <3>1. disturbed' \in BOOLEAN
      BY <1>4 DEF PutPreferences, Overlaps
    <3>2. troubles' \in 0 .. MaxTroubles /\ putting' \in [Putters -> Values \cup {NoStore}]
      BY <1>4 DEF PutPreferences, Trouble, SettingsTypeOK
    <3>3. QED
      BY <1>1, <1>4, <3>1, <3>2 DEF PutPreferences, SettingsTypeOK, pushVars
  <2>2. CASE disturbed'
    BY <1>1, <1>2, <2>1, <2>2 DEF Putting, PreferencesShown
  <2>3. CASE ~ disturbed'
    <3>1. putting' = [putting EXCEPT ![w] = v] /\ prefs' = v /\ ~ Overlaps(w)
      BY <1>4, <2>3 DEF PutPreferences
    <3>2. putting'[w] = v /\ v # NoStore /\ \A o \in Putters : o # w => putting'[o] = NoStore
      BY <3>1 DEF SettingsTypeOK, Overlaps
    <3>3. prefsFile' = v /\ v \notin {Missing, Torn}
      BY <1>4, <2>3 DEF PutPreferences
    <3>4. Loaded' = v
      BY <3>3 DEF Loaded
    <3>5. QED
      BY <1>1, <1>2, <2>1, <3>1, <3>2, <3>4 DEF Putting, PreferencesShown
  <2>4. QED
    BY <2>2, <2>3
<1>5. CASE ShowPreferences(w) \/ ShowFails(w)
  <2>1. SettingsTypeOK'
    <3>1. troubles' \in 0 .. MaxTroubles /\ putting' \in [Putters -> Values \cup {NoStore}]
      BY <1>5 DEF ShowPreferences, ShowFails, Trouble, SettingsTypeOK
    <3>2. QED
      BY <1>1, <1>5, <3>1 DEF ShowPreferences, ShowFails, SettingsTypeOK, pushVars
  <2>2. putting'[w] = NoStore /\ prefs' = prefs
    BY <1>5 DEF ShowPreferences, ShowFails, SettingsTypeOK
  <2>3. Loaded' = Loaded
    BY <1>5 DEF Loaded, ShowPreferences, ShowFails
  <2>4. Putting'
    BY <1>1, <1>3, <1>5, <2>2, <2>3 DEF Putting, ShowPreferences, ShowFails
  <2>5. PreferencesShown'
    BY <1>1, <1>5, <2>2, <2>3 DEF Putting, PreferencesShown, ShowPreferences, ShowFails
  <2>6. QED
    BY <1>2, <2>1, <2>4, <2>5
<1>6. QED
  BY <1>4, <1>5

LEMMA HubStep ==
    ASSUME SettingsInv, SenderPanics \/ SettingsCrash \/ SettingsStart
    PROVE  SettingsInv'
<1> USE HubSettingsAssumption DEF SettingsInv
<1>1. CASE SenderPanics \/ SettingsCrash
  <2>1. SettingsTypeOK'
    <3>1. troubles' \in 0 .. MaxTroubles /\ prefsFile' \in Values \cup {Missing, Torn}
      BY <1>1 DEF SenderPanics, SettingsCrash, Trouble, SettingsTypeOK
    <3>2. putting' \in [Putters -> Values \cup {NoStore}]
      BY <1>1 DEF SenderPanics, SettingsCrash, Stops
    <3>3. QED
      BY <1>1, <3>1, <3>2 DEF SenderPanics, SettingsCrash, Stops, SettingsTypeOK
  <2>2. SubscriptionsSurvive' /\ Putting' /\ PreferencesShown'
    BY <1>1 DEF SenderPanics, SettingsCrash, Stops, SubscriptionsSurvive, Putting,
                PreferencesShown
  <2>3. QED
    BY <2>1, <2>2
<1>2. CASE SettingsStart
  <2>1. Loaded \in Values \cup {NoStore}
    BY DEF Loaded, SettingsTypeOK
  <2>2. SettingsTypeOK'
    BY <1>2, <2>1 DEF SettingsStart, SettingsTypeOK
  <2>3. Loaded' = Loaded
    BY <1>2 DEF Loaded, SettingsStart
  <2>4. SubscriptionsSurvive' /\ Putting' /\ PreferencesShown'
    BY <1>2, <2>3 DEF SettingsStart, SubscriptionsSurvive, Putting, PreferencesShown
  <2>5. QED
    BY <2>2, <2>4
<1>3. QED
  BY <1>1, <1>2

LEMMA SettingsStepInv == SettingsInv /\ [SettingsNext]_settingVars => SettingsInv'
<1>1. SettingsInv /\ SettingsNext => SettingsInv'
  BY PushStep, PreferencesStep, HubStep DEF SettingsNext
<1>2. SettingsInv /\ UNCHANGED settingVars => SettingsInv'
  BY DEF settingVars, pushVars, prefVars, SettingsInv, SettingsTypeOK, SubscriptionsSurvive,
         Putting, PreferencesShown, Loaded
<1>3. QED
  BY <1>1, <1>2

(* What the hub keeps for browsers holds in every state.                    *)
THEOREM SettingsInvariance == SettingsSpec => []SettingsInv
BY SettingsInitInv, SettingsStepInv, PTL DEF SettingsSpec

(* A browser that was told it is subscribed is, and will be when the hub    *)
(* starts again; one that was told it is gone is, unless the file had it    *)
(* when that was said.                                                      *)
THEOREM SubscriptionsAreKept == SettingsSpec => []SubscriptionsSurvive
<1>1. SettingsInv => SubscriptionsSurvive
  BY DEF SettingsInv
<1>2. QED
  BY <1>1, SettingsInvariance, PTL

(* Once the last writer of preferences was alone and nothing of his failed, *)
(* the hub, the browsers and the file have the same, whatever happened      *)
(* before.                                                                  *)
THEOREM BrowsersSeePreferences == SettingsSpec => []PreferencesShown
<1>1. SettingsInv => PreferencesShown
  BY DEF SettingsInv
<1>2. QED
  BY <1>1, SettingsInvariance, PTL

-----------------------------------------------------------------------------
(* Terminals                                                                *)

(* An open data channel is still to be matched, or is one that Teardown     *)
(* will find.                                                               *)
Attachments ==
    \A s \in Streams :
        /\ peerWS[s] = "open" =>
             s \in attaching \/ (s \in ready /\ (s \in activePTYs \/ Ending(s)))
        /\ s \in attaching \cup activePTYs \cup ready => opening[s] # "none"
        /\ viewer[s] = "bridging" => s \in ready

(* How a stream begins: the agent is asked when the terminal is listed and  *)
(* registered, and a stream that is torn down earlier is so by the          *)
(* connection.                                                              *)
Beginnings ==
    \A s \in Streams :
        /\ viewer[s] \in {"idle", "checked", "owned"} =>
             timer[s] = "unset" /\ (teardown[s] # "none" => s \in tearing)
        /\ viewer[s] \in {"idle", "checked", "owned", "registered"} => opening[s] = "none"
        /\ viewer[s] \in {"owned", "registered"} =>
             s \in ptys \cup tearing \/ teardown[s] \in {"released", "done"}
        /\ s \in pendingPTYs /\ teardown[s] \in {"unindexed", "released", "done"} =>
             s \in tearing /\ opening[s] = "none"

(* Every terminal the agent was asked for is one the closing connection     *)
(* finds, or has released itself.                                           *)
Accounted ==
    /\ control \in {"open", "refusing", "cancelled"} => tearing = {}
    /\ control = "closed" => \A s \in tearing : teardown[s] = "done"
    /\ \A s \in Streams : opening[s] # "none" =>
        \/ s \in tearing \/ teardown[s] \in {"released", "done"}
        \/ control \in {"open", "refusing", "cancelled"} /\ s \in ptys

TerminalInv == TerminalTypeOK /\ Attachments /\ Beginnings /\ Accounted

LEMMA TerminalInitInv == TerminalInit => TerminalInv
BY DEF TerminalInit, TerminalInv, TerminalTypeOK, Attachments, Beginnings, Accounted

LEMMA TerminalStepInv == TerminalInv /\ [TerminalNext]_terminalVars => TerminalInv'
<1> SUFFICES ASSUME TerminalInv, [TerminalNext]_terminalVars PROVE TerminalInv'
  OBVIOUS
<1> USE DEF TerminalInv, connectionVars, relayVars, streamVars, ptyVars, ViewerGoes, OpeningGoes,
            TeardownGoes, Ending
<1>1. TerminalTypeOK'
  <2> USE DEF TerminalTypeOK
  <2>1. ASSUME NEW s \in Streams, Viewer(s) PROVE TerminalTypeOK'
    BY <2>1 DEF Viewer, TestOpen, OwnPTY, RegisterPending, SendOpen, AwaitPeer, BridgeEnds,
                ViewerLeaves, BrowserCloses
  <2>2. ASSUME NEW s \in Streams, Relay(s) PROVE TerminalTypeOK'
    BY <2>2 DEF Relay, TimerFires, Teardown, CompletePending, Unindex, CloseStream
  <2>3. ASSUME NEW s \in Streams, Open(s) PROVE TerminalTypeOK'
    BY <2>3 DEF Open, ReadOpen, OpenPTY, ConnectPTYWebSocket, AddSession, PTYEnds
  <2>4. CASE CloseWith
    BY <2>4 DEF CloseWith, ControlGoes, TakePTYs
  <2>5. CASE AgentDisconnects \/ AgentReconnects
    BY <2>5 DEF AgentDisconnects, AgentReconnects
  <2>6. CASE UNCHANGED terminalVars
    BY <2>6 DEF terminalVars
  <2>7. QED
    BY <2>1, <2>2, <2>3, <2>4, <2>5, <2>6 DEF TerminalNext
<1>2. Attachments'
  <2> USE DEF TerminalTypeOK, Attachments
  <2>1. ASSUME NEW s \in Streams, Viewer(s) PROVE Attachments'
    BY <2>1 DEF Viewer, TestOpen, OwnPTY, RegisterPending, SendOpen, AwaitPeer, BridgeEnds,
                ViewerLeaves, BrowserCloses
  <2>2. ASSUME NEW s \in Streams, Relay(s) PROVE Attachments'
    BY <2>2 DEF Relay, TimerFires, Teardown, CompletePending, Unindex, CloseStream
  <2>3. ASSUME NEW s \in Streams, Open(s) PROVE Attachments'
    BY <2>3 DEF Open, ReadOpen, OpenPTY, ConnectPTYWebSocket, AddSession, PTYEnds
  <2>4. CASE CloseWith
    BY <2>4 DEF CloseWith, ControlGoes, TakePTYs
  <2>5. CASE AgentDisconnects \/ AgentReconnects
    BY <2>5 DEF AgentDisconnects, AgentReconnects
  <2>6. CASE UNCHANGED terminalVars
    BY <2>6 DEF terminalVars
  <2>7. QED
    BY <2>1, <2>2, <2>3, <2>4, <2>5, <2>6 DEF TerminalNext
<1>3. Beginnings'
  <2> USE DEF TerminalTypeOK, Beginnings
  <2>1. ASSUME NEW s \in Streams, Viewer(s) PROVE Beginnings'
    BY <2>1 DEF Viewer, TestOpen, OwnPTY, RegisterPending, SendOpen, AwaitPeer, BridgeEnds,
                ViewerLeaves, BrowserCloses, Accounted
  <2>2. ASSUME NEW s \in Streams, Relay(s) PROVE Beginnings'
    BY <2>2 DEF Relay, TimerFires, Teardown, CompletePending, Unindex, CloseStream, TornDown
  <2>3. ASSUME NEW s \in Streams, Open(s) PROVE Beginnings'
    BY <2>3 DEF Open, ReadOpen, OpenPTY, ConnectPTYWebSocket, AddSession, PTYEnds
  <2>4. CASE CloseWith
    BY <2>4 DEF CloseWith, ControlGoes, TakePTYs, Accounted
  <2>5. CASE AgentDisconnects \/ AgentReconnects
    BY <2>5 DEF AgentDisconnects, AgentReconnects, Running
  <2>6. CASE UNCHANGED terminalVars
    BY <2>6 DEF terminalVars
  <2>7. QED
    BY <2>1, <2>2, <2>3, <2>4, <2>5, <2>6 DEF TerminalNext
<1>4. Accounted'
  <2> USE DEF TerminalTypeOK, Accounted
  <2>1. ASSUME NEW s \in Streams, Viewer(s) PROVE Accounted'
    BY <2>1 DEF Viewer, TestOpen, OwnPTY, RegisterPending, SendOpen, AwaitPeer, BridgeEnds,
                ViewerLeaves, BrowserCloses, Beginnings
  <2>2. ASSUME NEW s \in Streams, Relay(s) PROVE Accounted'
    BY <2>2 DEF Relay, TimerFires, Teardown, CompletePending, Unindex, CloseStream
  <2>3. ASSUME NEW s \in Streams, Open(s) PROVE Accounted'
    BY <2>3 DEF Open, ReadOpen, OpenPTY, ConnectPTYWebSocket, AddSession, PTYEnds
  <2>4. CASE CloseWith
    BY <2>4 DEF CloseWith, ControlGoes, TakePTYs
  <2>5. CASE AgentDisconnects \/ AgentReconnects
    BY <2>5 DEF AgentDisconnects, AgentReconnects, Running
  <2>6. CASE UNCHANGED terminalVars
    BY <2>6 DEF terminalVars
  <2>7. QED
    BY <2>1, <2>2, <2>3, <2>4, <2>5, <2>6 DEF TerminalNext
<1>5. QED
  BY <1>1, <1>2, <1>3, <1>4

THEOREM TerminalInvariance == TerminalSpec => []TerminalInv
BY TerminalInitInv, TerminalStepInv, PTL DEF TerminalSpec

(* A data channel that is open is never left to run for ever: the hub is     *)
(* matching it, or its stream is active or on its way down                   *)
(* (pty_relay.go:92-141).                                                    *)
THEOREM DataChannelsHaveOwners == TerminalSpec => []AttachedHasOwner
<1>1. TerminalInv => AttachedHasOwner
  BY DEF TerminalInv, Attachments, AttachedHasOwner
<1>2. QED
  BY <1>1, TerminalInvariance, PTL

(* Closing the control connection ends every terminal, also one that was     *)
(* listed while the connection was closed (connection.go:95-135,             *)
(* server.go:139-166).                                                       *)
THEOREM ClosingEndsTerminals == TerminalSpec => []ClosedEndsTerminals
<1>1. TerminalInv => ClosedEndsTerminals
  BY DEF TerminalInv, TerminalTypeOK, Attachments, Beginnings, Accounted, Ending, ClosedEndsTerminals
<1>2. QED
  BY <1>1, TerminalInvariance, PTL

-----------------------------------------------------------------------------
(* The outcomes an agent remembers                                          *)

(* A goroutine that has executed its request, or does so.                   *)
Executor(a) == doing[a] = "executing" \/ Complete(a)

Used == {i \in RequestIDs : entries[i] # NoArrival}

(* A goroutine is asked once, and only its own execution has an outcome.    *)
Goroutines ==
    \A a \in Arrivals :
        /\ Complete(a) => doing[a] = "answered" /\ replied[a] \in Terminal
        /\ replied[a] \in Terminal => doing[a] = "answered"

(* Nobody executes a request whose deadline has passed, and its outcome is  *)
(* remembered until then.                                                   *)
Deadlines ==
    /\ \A i \in RequestIDs : deadline[i] # NoTime => deadline[i] <= time + Horizon
    /\ \A a \in Arrivals : Executor(a) =>
        LET i == asked[a][1] IN
        /\ deadline[i] # NoTime
        /\ Complete(a) => deadline[i] <= expires[a]
        /\ entries[i] = a \/ time >= deadline[i]

(* A request has at most one executor, and the cache knows no other.        *)
Executors ==
    /\ \A i \in RequestIDs : entries[i] # NoArrival =>
         entries[i] \in Arrivals /\ Executor(entries[i]) /\ asked[entries[i]][1] = i
    /\ \A a, b \in Arrivals : Executor(a) /\ Executor(b) /\ asked[a][1] = asked[b][1] => a = b
    /\ \A i \in RequestIDs :
         executions[i] = IF \E a \in Arrivals : Executor(a) /\ asked[a][1] = i THEN 1 ELSE 0

(* Who answers with an outcome has it from the executor of its request.     *)
Hearsay ==
    \A a \in Arrivals :
        /\ doing[a] = "joined" =>
             joined[a] \in Arrivals /\ Executor(joined[a]) /\ asked[joined[a]] = asked[a]
        /\ replied[a] \in Terminal => \E b \in Arrivals :
             Complete(b) /\ asked[b] = asked[a] /\ replied[b] = replied[a]

Bounded == IsFiniteSet(Used) /\ Cardinality(Used) <= MaxEntries

OutcomeInv ==
    OutcomeTypeOK /\ Goroutines /\ Deadlines /\ Executors /\ Hearsay /\ Bounded

LEMMA OutcomeInitInv == OutcomeInit => OutcomeInv
<1> SUFFICES ASSUME OutcomeInit PROVE OutcomeInv
  OBVIOUS
<1>1. \A a \in Arrivals : asked[a] \in RequestIDs \X Payloads
  <2> PICK r \in RequestIDs, q \in Payloads : TRUE
    BY OutcomeCacheAssumption
  <2>1. <<r, q>> \in RequestIDs \X Payloads
    OBVIOUS
  <2>2. (CHOOSE x \in RequestIDs \X Payloads : TRUE) \in RequestIDs \X Payloads
    BY <2>1
  <2>3. QED
    BY <2>2 DEF OutcomeInit
<1>2. Cardinality(Arrivals) \in Nat
  BY FS_Interval, FS_CardinalityType, OutcomeCacheAssumption DEF Arrivals
<1>3. OutcomeTypeOK
  BY <1>1, <1>2, OutcomeCacheAssumption DEF OutcomeInit, OutcomeTypeOK, Times, NoTime
<1>4. Used = {}
  BY DEF OutcomeInit, Used
<1>5. Bounded
  BY <1>4, FS_EmptySet, OutcomeCacheAssumption DEF Bounded
<1>6. Goroutines /\ Deadlines /\ Executors /\ Hearsay
  BY DEF OutcomeInit, Goroutines, Deadlines, Executors, Hearsay, Executor, Complete, Terminal
<1>7. QED
  BY <1>3, <1>5, <1>6 DEF OutcomeInv

(* What is swept has outlived the deadline of its request.                  *)
LEMMA SweptFacts ==
    ASSUME OutcomeInv
    PROVE  /\ Swept \in [RequestIDs -> Arrivals \cup {NoArrival}]
           /\ \A i \in RequestIDs :
                /\ Swept[i] = entries[i] \/ Swept[i] = NoArrival
                /\ Swept[i] = NoArrival => \A a \in Arrivals :
                     Executor(a) /\ asked[a][1] = i => time >= deadline[i]
<1>1. Swept \in [RequestIDs -> Arrivals \cup {NoArrival}]
  BY DEF OutcomeInv, OutcomeTypeOK, Swept
<1>2. ASSUME NEW i \in RequestIDs
      PROVE  Swept[i] = entries[i] \/ Swept[i] = NoArrival
  BY DEF Swept
<1>3. ASSUME NEW i \in RequestIDs, Swept[i] = NoArrival,
             NEW a \in Arrivals, Executor(a), asked[a][1] = i
      PROVE  time >= deadline[i]
  <2>1. deadline[i] # NoTime /\ (entries[i] = a \/ time >= deadline[i])
        /\ (Complete(a) => deadline[i] <= expires[a])
    BY <1>3 DEF OutcomeInv, Deadlines
  <2>2. CASE entries[i] = a
    <3>1. a # NoArrival
      BY DEF Arrivals, NoArrival
    <3>2. Expired(a)
      BY <1>3, <2>2, <3>1 DEF Swept
    <3>3. time \in Int /\ deadline[i] \in Int /\ expires[a] \in Int
      BY OutcomeCacheAssumption DEF OutcomeInv, OutcomeTypeOK, Times, NoTime
    <3>4. QED
      BY <2>1, <3>2, <3>3 DEF Expired
  <2>3. QED
    BY <2>1, <2>2
<1>4. QED
  BY <1>1, <1>2, <1>3

(* The table may be swept, and take one entry if it is not full.            *)
LEMMA SweptBound ==
    ASSUME OutcomeInv
    PROVE  /\ entries' = Swept => Bounded'
           /\ \A i \in RequestIDs, a \in Arrivals :
                ~ Full(Swept) /\ entries' = [Swept EXCEPT ![i] = a] => Bounded'
<1> DEFINE U == {i \in RequestIDs : Swept[i] # NoArrival}
<1>1. U \subseteq Used
  BY SweptFacts DEF Used
<1>2. IsFiniteSet(U) /\ Cardinality(U) \in Nat /\ Cardinality(U) <= MaxEntries
  <2>1. IsFiniteSet(Used) /\ Cardinality(Used) <= MaxEntries
    BY DEF OutcomeInv, Bounded
  <2>2. IsFiniteSet(U) /\ Cardinality(U) <= Cardinality(Used) /\ Cardinality(U) \in Nat
        /\ Cardinality(Used) \in Nat
    BY <1>1, <2>1, FS_Subset, FS_CardinalityType
  <2>3. QED
    BY <2>1, <2>2, OutcomeCacheAssumption
<1>3. ASSUME entries' = Swept PROVE Bounded'
  BY <1>2, <1>3 DEF Bounded, Used
<1>4. ASSUME NEW i \in RequestIDs, NEW a \in Arrivals,
             ~ Full(Swept), entries' = [Swept EXCEPT ![i] = a]
      PROVE  Bounded'
  <2>1. a # NoArrival
    BY DEF Arrivals, NoArrival
  <2>2. Used' = U \cup {i}
    BY <1>4, <2>1, SweptFacts DEF Used
  <2>3. Cardinality(U) < MaxEntries
    BY <1>2, <1>4, OutcomeCacheAssumption DEF Full
  <2>4. IsFiniteSet(U \cup {i}) /\ (Cardinality(U \cup {i}) = Cardinality(U) + 1
                                    \/ Cardinality(U \cup {i}) = Cardinality(U))
    BY <1>2, FS_AddElement
  <2>5. QED
    BY <1>2, <2>2, <2>3, <2>4, OutcomeCacheAssumption DEF Bounded
<1>5. QED
  BY <1>3, <1>4

(* The three ends of Dispatch.                                              *)
Refuses(a) ==
    /\ Reply(a, "invalid-target") \/ Reply(a, "request-conflict") \/ Reply(a, "cache-full")
    /\ entries' = entries \/ entries' = Swept
    /\ UNCHANGED <<joined, executions>>

Joins(a, i, p) ==
    /\ Swept[i] # NoArrival /\ asked[Swept[i]][2] = p /\ entries' = Swept
    /\ doing' = [doing EXCEPT ![a] = "joined"]
    /\ joined' = [joined EXCEPT ![a] = Swept[i]]
    /\ UNCHANGED <<replied, executions>>

Executes(a, i) ==
    /\ time < deadline[i] /\ Swept[i] = NoArrival /\ ~ Full(Swept)
    /\ doing' = [doing EXCEPT ![a] = "executing"]
    /\ entries' = [Swept EXCEPT ![i] = a]
    /\ executions' = [executions EXCEPT ![i] = @ + 1]
    /\ UNCHANGED <<replied, joined>>

LEMMA DispatchEnds ==
    ASSUME NEW a, NEW i, NEW p, Dispatch(a, i, p)
    PROVE  /\ Refuses(a) \/ Joins(a, i, p) \/ Executes(a, i)
           /\ doing[a] = "idle" /\ deadline[i] # NoTime
           /\ asked' = [asked EXCEPT ![a] = <<i, p>>]
           /\ UNCHANGED <<time, deadline, expires>>
BY DEF Dispatch, Refuses, Joins, Executes

LEMMA ExecutionCount ==
    ASSUME NEW a \in Arrivals
    PROVE  1 \in 0 .. Cardinality(Arrivals)
<1>1. MaxArrivals \in Int /\ MaxArrivals >= 1
  BY OutcomeCacheAssumption DEF Arrivals
<1>2. Cardinality(1 .. MaxArrivals) = IF 1 > MaxArrivals THEN 0 ELSE MaxArrivals - 1 + 1
  BY <1>1, FS_Interval
<1>3. QED
  BY <1>1, <1>2 DEF Arrivals

LEMMA RefusedInv ==
    ASSUME OutcomeInv, NEW a \in Arrivals, NEW i \in RequestIDs, NEW p \in Payloads,
           doing[a] = "idle", deadline[i] # NoTime, Refuses(a),
           asked' = [asked EXCEPT ![a] = <<i, p>>],
           UNCHANGED <<time, deadline, expires>>
    PROVE  OutcomeInv'
<1> USE DEF OutcomeInv
<1>1. PICK code \in NotExecuted : Reply(a, code)
  BY DEF Refuses, NotExecuted
<1>2. code \notin Terminal
  BY DEF Terminal, NotExecuted
<1>3. ~ Executor(a) /\ a # NoArrival
  BY DEF Goroutines, Executor, Arrivals, NoArrival
<1>4. \A x \in Arrivals : Executor(x)' = Executor(x) /\ Complete(x)' = Complete(x)
  BY <1>1, <1>3 DEF Reply, Executor, Complete, OutcomeTypeOK
<1>5. \A x \in Arrivals : x # a =>
        asked'[x] = asked[x] /\ doing'[x] = doing[x] /\ replied'[x] = replied[x]
  BY <1>1 DEF Reply, OutcomeTypeOK
<1>6. doing'[a] = "answered" /\ replied'[a] \notin Terminal /\ ~ Complete(a)
  BY <1>1, <1>2, <1>3 DEF Reply, OutcomeTypeOK, Executor
<1>7. \A j \in RequestIDs : entries'[j] = entries[j] \/ entries'[j] = NoArrival
  BY SweptFacts DEF Refuses
<1>8. OutcomeTypeOK'
  BY <1>1, SweptFacts DEF Refuses, Reply, OutcomeTypeOK
<1>9. Goroutines'
  BY <1>4, <1>5, <1>6 DEF Goroutines
<1>10. Deadlines'
  <2>1. ASSUME NEW x \in Arrivals, Executor(x)
        PROVE  LET j == asked[x][1] IN entries'[j] = x \/ time >= deadline[j]
    <3>1. asked[x][1] \in RequestIDs
      BY DEF OutcomeTypeOK
    <3>2. x # NoArrival
      BY DEF Arrivals, NoArrival
    <3>3. CASE entries' = entries
      BY <2>1, <3>3 DEF Deadlines
    <3>4. CASE entries' = Swept
      BY <2>1, <3>1, <3>2, <3>4, SweptFacts DEF Deadlines
    <3>5. QED
      BY <3>3, <3>4 DEF Refuses
  <2>2. QED
    BY <1>3, <1>4, <1>5, <2>1 DEF Deadlines, Complete
<1>11. Executors'
  BY <1>3, <1>4, <1>5, <1>7 DEF Executors, Refuses
<1>12. Hearsay'
  BY <1>3, <1>4, <1>5, <1>6 DEF Hearsay, Refuses, Executor
<1>13. Bounded'
  BY SweptBound DEF Refuses, Bounded, Used
<1>14. QED
  BY <1>8, <1>9, <1>10, <1>11, <1>12, <1>13

LEMMA JoinedInv ==
    ASSUME OutcomeInv, NEW a \in Arrivals, NEW i \in RequestIDs, NEW p \in Payloads,
           doing[a] = "idle", deadline[i] # NoTime, Joins(a, i, p),
           asked' = [asked EXCEPT ![a] = <<i, p>>],
           UNCHANGED <<time, deadline, expires>>
    PROVE  OutcomeInv'
<1> USE DEF OutcomeInv
<1> DEFINE e == Swept[i]
<1>1. e = entries[i] /\ e \in Arrivals /\ e # NoArrival
  BY SweptFacts DEF Joins, OutcomeTypeOK
<1>2. Executor(e) /\ asked[e][1] = i /\ asked[e][2] = p
  BY <1>1 DEF Executors, Joins
<1>3. ~ Executor(a) /\ ~ Complete(a) /\ a # NoArrival /\ replied[a] \notin Terminal
  BY DEF Goroutines, Executor, Arrivals, NoArrival
<1>4. \A x \in Arrivals : Executor(x)' = Executor(x) /\ Complete(x)' = Complete(x)
  BY <1>3 DEF Joins, Executor, Complete, OutcomeTypeOK
<1>5. \A x \in Arrivals : x # a =>
        asked'[x] = asked[x] /\ doing'[x] = doing[x] /\ joined'[x] = joined[x]
  BY DEF Joins, OutcomeTypeOK
<1>6. asked'[a] = <<i, p>> /\ doing'[a] = "joined" /\ joined'[a] = e
  BY DEF Joins, OutcomeTypeOK
<1>7. e # a /\ asked[e] = <<i, p>> /\ asked'[e] = <<i, p>>
  BY <1>1, <1>2, <1>3, <1>5 DEF OutcomeTypeOK
<1>8. \A j \in RequestIDs : entries'[j] = entries[j] \/ entries'[j] = NoArrival
  BY SweptFacts DEF Joins
<1>9. OutcomeTypeOK'
  BY <1>1, SweptFacts DEF Joins, OutcomeTypeOK
<1>10. Goroutines'
  BY <1>3, <1>4, <1>5, <1>6 DEF Goroutines, Joins
<1>11. Deadlines'
  <2>1. ASSUME NEW x \in Arrivals, Executor(x)
        PROVE  LET j == asked[x][1] IN entries'[j] = x \/ time >= deadline[j]
    <3>1. asked[x][1] \in RequestIDs
      BY DEF OutcomeTypeOK
    <3>2. x # NoArrival
      BY DEF Arrivals, NoArrival
    <3>3. QED
      BY <2>1, <3>1, <3>2, SweptFacts DEF Deadlines, Joins
  <2>2. QED
    BY <1>3, <1>4, <1>5, <2>1 DEF Deadlines, Complete
<1>12. Executors'
  BY <1>3, <1>4, <1>5, <1>8 DEF Executors, Joins
<1>13. Hearsay'
  <2>1. ASSUME NEW x \in Arrivals, doing'[x] = "joined"
        PROVE  joined'[x] \in Arrivals /\ Executor(joined'[x])
               /\ asked'[joined'[x]] = asked'[x]
    <3>1. CASE x = a
      BY <1>1, <1>2, <1>6, <1>7, <3>1
    <3>2. CASE x # a
      BY <1>3, <1>5, <2>1, <3>2 DEF Hearsay
    <3>3. QED
      BY <3>1, <3>2
  <2>2. ASSUME NEW x \in Arrivals, replied'[x] \in Terminal
        PROVE  \E b \in Arrivals : Complete(b) /\ asked'[b] = asked'[x]
                                   /\ replied'[b] = replied'[x]
    BY <1>3, <1>5, <2>2 DEF Hearsay, Joins
  <2>3. Hearsay'
    BY <1>4, <2>1, <2>2 DEF Hearsay
  <2>4. QED
    BY <2>3
<1>14. Bounded'
  BY SweptBound DEF Joins
<1>15. QED
  BY <1>9, <1>10, <1>11, <1>12, <1>13, <1>14

LEMMA ExecutingInv ==
    ASSUME OutcomeInv, NEW a \in Arrivals, NEW i \in RequestIDs, NEW p \in Payloads,
           doing[a] = "idle", deadline[i] # NoTime, Executes(a, i),
           asked' = [asked EXCEPT ![a] = <<i, p>>],
           UNCHANGED <<time, deadline, expires>>
    PROVE  OutcomeInv'
<1> USE DEF OutcomeInv
<1>1. ~ Executor(a) /\ ~ Complete(a) /\ a # NoArrival /\ replied[a] \notin Terminal
  BY DEF Goroutines, Executor, Arrivals, NoArrival
<1>2. \A x \in Arrivals : Complete(x)' = Complete(x) /\ (x # a => Executor(x)' = Executor(x))
  BY DEF Executes, Executor, Complete, OutcomeTypeOK
<1>3. \A x \in Arrivals : x # a => asked'[x] = asked[x] /\ doing'[x] = doing[x]
  BY DEF Executes, OutcomeTypeOK
<1>4. asked'[a] = <<i, p>> /\ doing'[a] = "executing" /\ Executor(a)'
  BY DEF Executes, OutcomeTypeOK, Executor
<1>5. time \in Int /\ deadline[i] \in Int
  BY OutcomeCacheAssumption DEF OutcomeTypeOK, Times, NoTime
<1>6. \A x \in Arrivals : ~ (Executor(x) /\ asked[x][1] = i)
  BY <1>5, SweptFacts DEF Executes
<1>7. executions[i] = 0
  BY <1>6 DEF Executors
<1>8. \A j \in RequestIDs : entries'[j] = IF j = i THEN a ELSE Swept[j]
  BY SweptFacts DEF Executes
<1>9. executions'[i] = 1 /\ \A j \in RequestIDs : j # i => executions'[j] = executions[j]
  BY <1>7 DEF Executes, OutcomeTypeOK
<1>10. OutcomeTypeOK'
  <2>1. entries' \in [RequestIDs -> Arrivals \cup {NoArrival}]
    BY SweptFacts DEF Executes
  <2>2. executions' \in [RequestIDs -> 0 .. Cardinality(Arrivals)]
    BY <1>7, <1>9, ExecutionCount DEF Executes, OutcomeTypeOK
  <2>3. QED
    BY <2>1, <2>2 DEF Executes, OutcomeTypeOK
<1>11. Goroutines'
  BY <1>1, <1>2, <1>3 DEF Goroutines, Executes
<1>12. Deadlines'
  <2>1. ASSUME NEW x \in Arrivals, Executor(x)
        PROVE  LET j == asked[x][1] IN entries'[j] = x \/ time >= deadline[j]
    <3>1. asked[x][1] \in RequestIDs /\ asked[x][1] # i
      BY <1>6, <2>1 DEF OutcomeTypeOK
    <3>2. x # NoArrival
      BY DEF Arrivals, NoArrival
    <3>3. QED
      BY <1>8, <2>1, <3>1, <3>2, SweptFacts DEF Deadlines
  <2>2. ASSUME NEW x \in Arrivals, Executor(x)'
        PROVE  LET j == asked'[x][1] IN
               /\ deadline[j] # NoTime
               /\ Complete(x) => deadline[j] <= expires[x]
               /\ entries'[j] = x \/ time >= deadline[j]
    <3>1. CASE x = a
      BY <1>1, <1>4, <1>8, <3>1
    <3>2. CASE x # a
      BY <1>2, <1>3, <2>1, <2>2, <3>2 DEF Deadlines
    <3>3. QED
      BY <3>1, <3>2
  <2>3. QED
    BY <1>2, <2>2 DEF Deadlines, Complete
<1>13. Executors'
  <2>1. ASSUME NEW j \in RequestIDs, entries'[j] # NoArrival
        PROVE  \E x \in Arrivals : entries'[j] = x /\ Executor(x)' /\ asked'[x][1] = j
    <3>1. CASE j = i
      BY <1>4, <1>8, <3>1
    <3>2. CASE j # i
      <4>1. entries'[j] = entries[j] /\ entries[j] # NoArrival
        BY <1>8, <2>1, <3>2, SweptFacts
      <4>2. PICK x \in Arrivals : entries[j] = x /\ Executor(x) /\ asked[x][1] = j
        BY <4>1 DEF Executors
      <4>3. QED
        BY <1>1, <1>2, <1>3, <4>1, <4>2
    <3>3. QED
      BY <3>1, <3>2
  <2>2. ASSUME NEW x \in Arrivals, NEW y \in Arrivals,
               Executor(x)', Executor(y)', asked'[x][1] = asked'[y][1]
        PROVE  x = y
    <3>1. x = a <=> asked'[x][1] = i
      BY <1>2, <1>3, <1>4, <1>6, <2>2
    <3>2. y = a <=> asked'[y][1] = i
      BY <1>2, <1>3, <1>4, <1>6, <2>2
    <3>3. QED
      BY <1>2, <1>3, <2>2, <3>1, <3>2 DEF Executors
  <2>3. ASSUME NEW j \in RequestIDs
        PROVE  executions'[j] = IF \E x \in Arrivals : Executor(x)' /\ asked'[x][1] = j
                                THEN 1 ELSE 0
    <3>1. CASE j = i
      BY <1>4, <1>9, <3>1
    <3>2. CASE j # i
      <4>1. (\E x \in Arrivals : Executor(x)' /\ asked'[x][1] = j)
            <=> (\E x \in Arrivals : Executor(x) /\ asked[x][1] = j)
        BY <1>1, <1>2, <1>3, <1>4, <3>2
      <4>2. QED
        BY <1>9, <3>2, <4>1 DEF Executors
    <3>3. QED
      BY <3>1, <3>2
  <2>4. QED
    BY <2>1, <2>2, <2>3 DEF Executors, Executor, Complete
<1>14. Hearsay'
  <2>1. ASSUME NEW x \in Arrivals, doing'[x] = "joined"
        PROVE  \E b \in Arrivals : joined'[x] = b /\ Executor(b)' /\ asked'[b] = asked'[x]
    <3>1. x # a /\ doing[x] = "joined" /\ joined' = joined
      BY <1>3, <1>4, <2>1 DEF Executes
    <3>2. PICK b \in Arrivals : joined[x] = b /\ Executor(b) /\ asked[b] = asked[x]
      BY <3>1 DEF Hearsay
    <3>3. QED
      BY <1>1, <1>2, <1>3, <3>1, <3>2
  <2>2. ASSUME NEW x \in Arrivals, replied'[x] \in Terminal
        PROVE  \E b \in Arrivals : Complete(b)' /\ asked'[b] = asked'[x]
                                   /\ replied'[b] = replied'[x]
    BY <1>1, <1>2, <1>3, <2>2 DEF Hearsay, Executes
  <2>3. QED
    BY <2>1, <2>2 DEF Hearsay, Executor, Complete
<1>15. Bounded'
  BY SweptBound DEF Executes
<1>16. QED
  BY <1>10, <1>11, <1>12, <1>13, <1>14, <1>15

LEMMA ExecuteInv ==
    ASSUME OutcomeInv, NEW a \in Arrivals, NEW outcome \in Terminal, Execute(a, outcome)
    PROVE  OutcomeInv'
<1> USE DEF OutcomeInv
<1> DEFINE i == asked[a][1]
<1>1. Executor(a) /\ i \in RequestIDs /\ deadline[i] # NoTime /\ ~ Complete(a)
      /\ replied[a] \notin Terminal
  <2>1. Executor(a) /\ ~ Complete(a) /\ replied[a] \notin Terminal
    BY DEF Execute, Executor, Goroutines
  <2>2. i \in RequestIDs /\ deadline[i] # NoTime
    BY <2>1 DEF OutcomeTypeOK, Deadlines
  <2>3. QED
    BY <2>1, <2>2
<1>2. time \in Nat /\ deadline[i] \in Int /\ time + TTL \in Times /\ time + TTL # NoTime
  BY <1>1, OutcomeCacheAssumption DEF OutcomeTypeOK, Times, NoTime
<1>3. deadline[i] <= time + TTL
  BY <1>1, <1>2, OutcomeCacheAssumption DEF Deadlines
<1>4. expires'[a] = time + TTL /\ doing'[a] = "answered" /\ replied'[a] = outcome
      /\ Complete(a)' /\ Executor(a)'
  BY <1>2 DEF Execute, Reply, Complete, Executor, OutcomeTypeOK
<1>5. \A x \in Arrivals : x # a =>
        expires'[x] = expires[x] /\ doing'[x] = doing[x] /\ replied'[x] = replied[x]
        /\ Complete(x)' = Complete(x)
  BY DEF Execute, Reply, Complete, OutcomeTypeOK
<1>6. \A x \in Arrivals : Executor(x)' = Executor(x)
  BY <1>1, <1>4, <1>5 DEF Executor
<1>7. OutcomeTypeOK'
  BY <1>2 DEF Execute, Reply, OutcomeTypeOK, Terminal
<1>8. Goroutines'
  BY <1>4, <1>5 DEF Goroutines
<1>9. Deadlines'
  <2>1. ASSUME NEW x \in Arrivals, Executor(x)
        PROVE  LET j == asked[x][1] IN
               /\ deadline[j] # NoTime
               /\ Complete(x)' => deadline[j] <= expires'[x]
               /\ entries[j] = x \/ time >= deadline[j]
    BY <1>3, <1>4, <1>5, <2>1 DEF Deadlines
  <2>2. QED
    BY <1>6, <2>1 DEF Deadlines, Execute
<1>10. Executors'
  BY <1>6 DEF Executors, Execute
<1>11. Hearsay'
  <2>1. ASSUME NEW x \in Arrivals, doing'[x] = "joined"
        PROVE  \E b \in Arrivals : joined[x] = b /\ Executor(b)' /\ asked[b] = asked[x]
    BY <1>4, <1>5, <1>6, <2>1 DEF Hearsay
  <2>2. ASSUME NEW x \in Arrivals, replied'[x] \in Terminal
        PROVE  \E b \in Arrivals : Complete(b)' /\ asked[b] = asked[x]
                                   /\ replied'[b] = replied'[x]
    <3>1. CASE x = a
      BY <1>4, <3>1
    <3>2. CASE x # a
      <4>1. PICK b \in Arrivals : Complete(b) /\ asked[b] = asked[x] /\ replied[b] = replied[x]
        BY <1>5, <2>2, <3>2 DEF Hearsay
      <4>2. b # a
        BY <1>1, <4>1
      <4>3. QED
        BY <1>5, <3>2, <4>1, <4>2
    <3>3. QED
      BY <3>1, <3>2
  <2>3. QED
    BY <2>1, <2>2 DEF Hearsay, Executor, Complete, Execute
<1>12. Bounded'
  BY DEF Bounded, Used, Execute
<1>13. QED
  BY <1>7, <1>8, <1>9, <1>10, <1>11, <1>12

LEMMA HeardInv ==
    ASSUME OutcomeInv, NEW a \in Arrivals, Joined(a)
    PROVE  OutcomeInv'
<1> USE DEF OutcomeInv
<1> DEFINE e == joined[a]
<1>1. e \in Arrivals /\ asked[e] = asked[a] /\ Complete(e) /\ replied[e] \in Terminal
  BY DEF Joined, Hearsay, Goroutines
<1>2. ~ Executor(a) /\ ~ Complete(a) /\ e # a /\ replied[a] \notin Terminal
  BY <1>1 DEF Joined, Executor, Goroutines
<1>3. doing'[a] = "answered" /\ replied'[a] = replied[e]
  BY DEF Joined, Reply, OutcomeTypeOK
<1>4. \A x \in Arrivals : x # a => doing'[x] = doing[x] /\ replied'[x] = replied[x]
  BY DEF Joined, Reply, OutcomeTypeOK
<1>5. \A x \in Arrivals : Executor(x)' = Executor(x) /\ Complete(x)' = Complete(x)
  BY <1>2, <1>3, <1>4 DEF Executor, Complete, Joined
<1>6. OutcomeTypeOK'
  BY <1>1 DEF Joined, Reply, OutcomeTypeOK
<1>7. Goroutines'
  BY <1>1, <1>2, <1>3, <1>4, <1>5 DEF Goroutines
<1>8. Deadlines'
  BY <1>5 DEF Deadlines, Joined, Complete
<1>9. Executors'
  BY <1>5 DEF Executors, Joined
<1>10. Hearsay'
  <2>1. ASSUME NEW x \in Arrivals, doing'[x] = "joined"
        PROVE  \E b \in Arrivals : joined[x] = b /\ Executor(b)' /\ asked[b] = asked[x]
    BY <1>3, <1>4, <1>5, <2>1 DEF Hearsay
  <2>2. ASSUME NEW x \in Arrivals, replied'[x] \in Terminal
        PROVE  \E b \in Arrivals : Complete(b) /\ asked[b] = asked[x]
                                   /\ replied'[b] = replied'[x]
    <3>1. CASE x = a
      BY <1>1, <1>2, <1>3, <1>4, <3>1
    <3>2. CASE x # a
      BY <1>2, <1>4, <2>2, <3>2 DEF Hearsay, Executor
    <3>3. QED
      BY <3>1, <3>2
  <2>3. QED
    BY <1>5, <2>1, <2>2 DEF Hearsay, Executor, Complete, Joined
<1>11. Bounded'
  BY DEF Bounded, Used, Joined
<1>12. QED
  BY <1>6, <1>7, <1>8, <1>9, <1>10, <1>11

LEMMA ClockInv ==
    ASSUME OutcomeInv, \/ Tick
                       \/ \E i \in RequestIDs : MakeRequest(i)
                       \/ UNCHANGED outcomeVars
    PROVE  OutcomeInv'
<1> USE DEF OutcomeInv
<1>1. UNCHANGED <<asked, doing, joined, replied, entries, expires, executions>>
  BY DEF Tick, MakeRequest, outcomeVars
<1>2. time \in Nat /\ time' \in 0 .. MaxTime /\ time' >= time
  BY OutcomeCacheAssumption DEF Tick, MakeRequest, outcomeVars, OutcomeTypeOK
<1>3. deadline' \in [RequestIDs -> Times \cup {NoTime}]
      /\ \A i \in RequestIDs :
           /\ deadline[i] # NoTime => deadline'[i] = deadline[i]
           /\ deadline'[i] # NoTime => deadline'[i] <= time' + Horizon
  <2>1. CASE Tick \/ UNCHANGED outcomeVars
    <3>1. deadline' = deadline
      BY <2>1 DEF Tick, outcomeVars
    <3>2. ASSUME NEW i \in RequestIDs, deadline[i] # NoTime
          PROVE  deadline[i] <= time' + Horizon
      <4>1. deadline[i] <= time + Horizon
        BY <3>2 DEF Deadlines
      <4>2. deadline[i] \in Int
        BY OutcomeCacheAssumption DEF OutcomeTypeOK, Times, NoTime
      <4>3. QED
        BY <1>2, <4>1, <4>2, OutcomeCacheAssumption
    <3>3. QED
      BY <3>1, <3>2 DEF OutcomeTypeOK
  <2>2. ASSUME NEW i \in RequestIDs, MakeRequest(i)
        PROVE  deadline' \in [RequestIDs -> Times \cup {NoTime}]
               /\ \A k \in RequestIDs :
                    /\ deadline[k] # NoTime => deadline'[k] = deadline[k]
                    /\ deadline'[k] # NoTime => deadline'[k] <= time' + Horizon
    <3>1. time' = time /\ time + Horizon \in Times /\ time + Horizon <= time' + Horizon
      BY <1>2, <2>2, OutcomeCacheAssumption DEF MakeRequest, Times
    <3>2. QED
      BY <2>2, <3>1 DEF MakeRequest, OutcomeTypeOK, Deadlines
  <2>3. QED
    BY <2>1, <2>2
<1>4. \A x \in Arrivals : Executor(x)' = Executor(x) /\ Complete(x)' = Complete(x)
  BY <1>1 DEF Executor, Complete
<1>5. OutcomeTypeOK'
  BY <1>1, <1>2, <1>3 DEF OutcomeTypeOK
<1>6. Goroutines'
  BY <1>1, <1>4 DEF Goroutines
<1>7. Deadlines'
  <2>1. ASSUME NEW x \in Arrivals, Executor(x)
        PROVE  LET j == asked[x][1] IN
               /\ deadline'[j] # NoTime
               /\ Complete(x) => deadline'[j] <= expires[x]
               /\ entries[j] = x \/ time' >= deadline'[j]
    <3> DEFINE j == asked[x][1]
    <3>1. j \in RequestIDs
      BY DEF OutcomeTypeOK
    <3>2. deadline[j] # NoTime /\ deadline'[j] = deadline[j] /\ deadline[j] \in Int
      BY <1>3, <2>1, <3>1, OutcomeCacheAssumption DEF Deadlines, OutcomeTypeOK, Times, NoTime
    <3>3. (Complete(x) => deadline[j] <= expires[x]) /\ (entries[j] = x \/ time >= deadline[j])
      BY <2>1 DEF Deadlines
    <3>4. time >= deadline[j] => time' >= deadline[j]
      <4> HIDE DEF j
      <4>1. QED
        BY <1>2, <3>2
    <3>5. QED
      BY <3>2, <3>3, <3>4
  <2>2. QED
    BY <1>1, <1>3, <1>4, <2>1 DEF Deadlines, Complete
<1>8. Executors'
  BY <1>1, <1>4 DEF Executors
<1>9. Hearsay'
  BY <1>1, <1>4 DEF Hearsay
<1>10. Bounded'
  BY <1>1 DEF Bounded, Used
<1>11. QED
  BY <1>5, <1>6, <1>7, <1>8, <1>9, <1>10

LEMMA OutcomeStepInv == OutcomeInv /\ [OutcomeNext]_outcomeVars => OutcomeInv'
<1> SUFFICES ASSUME OutcomeInv, [OutcomeNext]_outcomeVars PROVE OutcomeInv'
  OBVIOUS
<1>1. CASE \/ Tick
           \/ \E i \in RequestIDs : MakeRequest(i)
           \/ UNCHANGED outcomeVars
  BY <1>1, ClockInv
<1>2. ASSUME NEW a \in Arrivals, NEW i \in RequestIDs, NEW p \in Payloads, Dispatch(a, i, p)
      PROVE  OutcomeInv'
  BY <1>2, DispatchEnds, RefusedInv, JoinedInv, ExecutingInv
<1>3. ASSUME NEW a \in Arrivals, NEW o \in Terminal, Execute(a, o)
      PROVE  OutcomeInv'
  BY <1>3, ExecuteInv
<1>4. ASSUME NEW a \in Arrivals, Joined(a) PROVE OutcomeInv'
  BY <1>4, HeardInv
<1>5. QED
  BY <1>1, <1>2, <1>3, <1>4 DEF OutcomeNext

(* What an agent remembers of its requests holds in every state.            *)
THEOREM OutcomeInvariance == OutcomeSpec => []OutcomeInv
BY OutcomeInitInv, OutcomeStepInv, PTL DEF OutcomeSpec

(* A request that arrives again is not executed again.                      *)
THEOREM RetriesSafe == OutcomeSpec => []RetriesAreSafe
<1>1. OutcomeInv => RetriesAreSafe
  <2> SUFFICES ASSUME OutcomeInv PROVE RetriesAreSafe
    OBVIOUS
  <2>1. \A i \in RequestIDs : executions[i] <= 1
    BY DEF OutcomeInv, Executors
  <2>2. ASSUME NEW a \in Arrivals, NEW b \in Arrivals,
               replied[a] \in Terminal, replied[b] \in Terminal, asked[a][1] = asked[b][1]
        PROVE  replied[a] = replied[b] /\ asked[a][2] = asked[b][2]
    <3>1. PICK x \in Arrivals : Complete(x) /\ asked[x] = asked[a] /\ replied[x] = replied[a]
      BY <2>2 DEF OutcomeInv, Hearsay
    <3>2. PICK y \in Arrivals : Complete(y) /\ asked[y] = asked[b] /\ replied[y] = replied[b]
      BY <2>2 DEF OutcomeInv, Hearsay
    <3>3. x = y
      BY <2>2, <3>1, <3>2 DEF OutcomeInv, Executors, Executor
    <3>4. QED
      BY <3>1, <3>2, <3>3
  <2>3. Cardinality({i \in RequestIDs : entries[i] # NoArrival}) <= MaxEntries
    BY DEF OutcomeInv, Bounded, Used
  <2>4. QED
    BY <2>1, <2>2, <2>3 DEF RetriesAreSafe
<1>2. QED
  BY <1>1, OutcomeInvariance, PTL

-----------------------------------------------------------------------------
(* The parts together                                                       *)

LEMMA PartsInit ==
    Init => ToolInit /\ RingInit /\ PasskeyInit /\ PairInit /\ SettingsInit
            /\ TerminalInit /\ OutcomeInit
BY DEF Init

(* A step of the whole is a step of one part, that no other can see.        *)
LEMMA PartsStep ==
    ASSUME [Next]_<<part, toolVars, ringVars, passkeyVars, pairVars, settingVars, terminalVars,
                    outcomeVars>>
    PROVE  /\ [ToolNext]_toolVars /\ [RingNext]_ringVars
           /\ [PasskeyNext]_passkeyVars /\ [PairNext]_pairVars
           /\ [SettingsNext]_settingVars /\ [TerminalNext]_terminalVars
           /\ [OutcomeNext]_outcomeVars
BY DEF Next, ToolStep, RingStep, PasskeyStep, PairStep, SettingsStep, TerminalStep, OutcomeStep

(* The whole is each of its parts.                                          *)
THEOREM PartsAreThere ==
    Spec => /\ ToolSpec /\ RingSpec /\ PasskeySpec /\ PairSpec
            /\ SettingsSpec /\ TerminalSpec /\ OutcomeSpec
BY PartsInit, PartsStep, PTL
   DEF Spec, ToolSpec, RingSpec, PasskeySpec, PairSpec, SettingsSpec, TerminalSpec, OutcomeSpec

(* Every variable of every part has its type, in every state, whichever part *)
(* moves; TypeOK says so of the one that does.                               *)
THEOREM PartsTypes ==
    Spec => [](/\ ToolTypeOK /\ RingTypeOK /\ PasskeyTypeOK /\ PairTypeOK
               /\ SettingsTypeOK /\ TerminalTypeOK /\ OutcomeTypeOK
               /\ TypeOK)
<1> DEFINE Typed == /\ ToolTypeOK /\ RingTypeOK /\ PasskeyTypeOK /\ PairTypeOK
                    /\ SettingsTypeOK /\ TerminalTypeOK /\ OutcomeTypeOK
                    /\ TypeOK
<1>1. ToolInv /\ RingInv /\ PasskeyInv /\ PairInv /\ SettingsInv /\ TerminalInv /\ OutcomeInv
      => Typed
  BY DEF TypeOK, ToolInv, RingInv, PasskeyInv, PairInv, SettingsInv, TerminalInv, OutcomeInv
<1>2. QED
  BY <1>1, PartsAreThere, ToolInvariance, RingInvariance, PasskeyInvariance, PairInvariance,
     SettingsInvariance, TerminalInvariance, OutcomeInvariance, PTL

(* What the hub answered is what it has, and what it will have when it      *)
(* starts again: passkeys, peers and push subscriptions.                    *)
THEOREM AnswersAreKept == Spec => []AnswersSurvive
<1>1. PasskeyAnswersSurvive /\ ReportedIsPaired /\ SubscriptionsSurvive => AnswersSurvive
  BY DEF AnswersSurvive
<1>2. QED
  BY <1>1, PartsAreThere, AnswersHold, ReportedArePaired, SubscriptionsAreKept, PTL
=============================================================================
